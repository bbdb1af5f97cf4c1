# Verification of RWAComply

RWAComply sells tokenised real-world assets on Uniswap v4 under one rule: a
human has one allocation, whatever number of wallets the human uses, and all
their purchases share its cap. A human proves uniqueness to the backend through
World ID, the backend authorises wallets for a pseudonymous allocation, a ledger
contract binds them, and a hook on every pool charges the allocation for what
its wallets buy.

This directory holds TLA+ modules of that system, TLC configurations that check
them on small instances, and proofs, for every size, about the parts that carry
the rule. `PROJECT.json` says which source lines every definition stands for.
Paths below are relative to the repository; `frontend/` and `docs/` are its
directories.

## 1. The system

| part | source | state | operations |
|---|---|---|---|
| Ledger | `src/AllocationLedger.sol` | wallet to allocation, policies (cap, token) per group and period, spend per allocation, cached highest spend, used nonces, owner, signer, hook | `registerWallet`, `setPolicy`, `recordSpend`, the setters, Ownable |
| Registry | `src/OfferingRegistry.sol` | offerings and their versions, used groups, pools, tiers, reviews, revocation and restoration epochs | issuer and platform operations, `restoreWallet`; owns the ledger |
| Marketplace | `src/MarketplaceHook.sol`, `src/MarketplaceExecutor.sol`, `src/TradeIntent.sol` | the open purchase, used intent nonces, trusted router; the swap in progress | `swapWithIntent`, `beforeSwap`, `afterSwap`, `unlockCallback` |
| Single market | `src/RWAComplyHook.sol`, `src/PoolExecutor.sol` | tiers, tokens, router, pause, fee and cap settings, oracle; the open purchase and the executor's swap | the setters, swaps, liquidity |
| World enrollment | `frontend/lib/world/enroll*.ts`, `continue*.ts`, `identity.ts`, `enrollmentStore.ts` | enrollments, grants, resumes; cookie and tokens in the browser | signup, resume, continuation |
| World requests | `frontend/lib/world/*Client.ts`, `rpContext.ts`, `requestLimit.ts` | a request, its poll, its deadline, its abort; the limiter's windows | start, poll, approve, cancel, send |
| Wallet linking | `frontend/lib/world/walletLink*.ts`, `ledgerRegistration.ts`, `registrationReceipt.ts` | challenges, associations, registrations with a chain status | challenge, authorization, registration, receipt |
| Demo identity | `frontend/lib/world/demo*.ts` | demo identities, challenges, wallets, in the same database | start, challenge, authorization |
| Presentation demo | `frontend/lib/product/sepoliaDemo.ts` | none: a signed challenge and the list of allowed wallets | preflight, authorize |
| Investor page | `frontend/components/product/InvestorExperience.tsx` | phases, busy flags, QR code, challenges of a page | verify, link, register; approve, purchase |
| Swap form, console | `frontend/components/SwapDemo.tsx`, `AdminObservatory.tsx`, `DynamicFeeVisualizer.tsx`, `TierTester.tsx` | phase and hashes; polled readings, activity log | approve and swap; the hook's setters |
| Guided demo | `frontend/lib/demo/sandboxChain.ts` | a chain, its snapshots, a file with the id of one | purchases, reset, journey |
| Status, directory | `frontend/lib/product/status.ts`, `frontend/lib/arkiv`, `frontend/app/api/offerings` | the chain, read call by call; Arkiv records that expire | report, publish, show |

### How the parts interact

The registry owns the ledger: a new cap is written to the ledger and to the
offering. An executor calls the pool manager, which calls the hook before and
after the swap; the hook reads registry and ledger, and records the spend. The
backend signs registrations which anybody may submit to the ledger, then reads
the ledger to decide what its own row may say. World, the demo identity and the
presentation demo all issue such registrations: the first two from different
tables of one database, the third from no table at all. The page chains the
backend's steps with the wallet's and the chain's, and what it reports is what
it believed at the click.

### What is hard

* *Several wallets, one budget.* Each wallet signed when it saw the whole
  remaining budget; the chain orders them, caps move in between, and a cap may
  not go below a maximum that no loop can compute, hence the cached one.
* *A purchase is not one step.* The hook records before the executor collects,
  the pool may fill part of the quote, `take` hands over control while the swap
  is still open, and anything may revert.
* *Stale signatures.* Trade intents, registrations and restorations are signed
  at one time and used at another, once, twice or after a rotation.
* *Awaits in the backend.* A signup waits for World between its checks and its
  inserts, an authorization waits three times between reading a challenge and
  consuming it, a receipt is read over the network and recorded later, a report
  is a dozen reads of a chain that moves.
* *Awaits in the page.* Every flow is a chain of awaits over the values of an old
  render, and flows share one busy flag, one QR code and one phase.
* *Lost steps.* An enrollment is three statements and an answer; a reset is a
  revert, a snapshot and a file; a publication is a query and a creation. The
  process may die between any two and the answer may not arrive.

### What makes each part correct

* Ledger: spend stays within caps and is never lost, the cached maximum is
  exact, a wallet never changes allocation, every binding costs a nonce, a group
  counts in one token.
* Registry: the two copies of a cap agree, offerings share no group, pools stay,
  a change of terms shows in the version, a revocation has effect until it is
  itself signed away.
* Markets: what was paid is what was recorded; the human who pays is the human
  charged; at the moment of the charge everybody was allowed to; a transaction
  leaves nothing open; intents pay once, and the fee is that of the moment.
* Enrollment: one allocation per human, however the calls interleave, however
  World writes the nullifier, and whatever the configuration became.
* Linking: one authorization per grant, ending with the grant; a wallet keeps its
  allocation; a row says confirmed only if the chain does, and for good.
* Pages: what is reported happened, a cancelled flow stops, a second request
  silences the first, nothing stays busy.
* Handlers: no window over its limit, a removed wallet is held back, a
  confirmed purchase is shown, a report nobody disturbed is right.

## 2. The modules

| module | models | composes |
|---|---|---|
| `SharedBudget` | what the ledger promises: members join an allocation and spend a capped budget | |
| `HumanBudget` | what a market promises: humans pay out of capped budgets; no wallet, hook or ledger | |
| `AllocationLedger` | the contract | implements `SharedBudget` |
| `OfferingRegistry` | the registry | `Ledger == INSTANCE AllocationLedger`, owned by the registry |
| `MarketplaceTrade` | one marketplace transaction, call by call | `Reg == INSTANCE OfferingRegistry` and its ledger; implements `HumanBudget` |
| `SingleMarket` | the single-market stack, call by call, with its setters | `Ledger == INSTANCE AllocationLedger`; implements `HumanBudget` |
| `Enrollment` | World signup, continuation, browser resume | |
| `WalletLink` | linking, registration, receipts, the demo issuer | extends `Enrollment`; `Ledger == INSTANCE AllocationLedger` |
| `ProofRequest` | what the page may rely on when it asks for a proof | |
| `WorldProof` | the requests of the page, the poll, the deadline, the abort, the backend's answer | implements `ProofRequest` |
| `ProofBinding` | what the two handlers accept as a proof of whom, under the configuration of the moment | |
| `InvestorPage` | verify, link and register as flows of the page | |
| `PurchasePanel` | approve and buy | |
| `SwapFlow` | the approve-and-swap form | |
| `RequestLimit` | the sliding window | |
| `PresentationDemo` | preflight and authorize over a changing list | |
| `DemoSandbox` | the guided demo's requests, reset and journey | against the pure `applyPurchase` of the journey |
| `AdminConsole` | the console, the visualizer and the tier tester | |
| `ProductStatus` | the status report, read by read | |
| `OfferingDirectory` | the publishing script and the directory route | extends `ProductStatus` |
| `Clients` | the parts of the frontend, side by side | extends `InvestorPage`; `World`, `Panel`, `Form` are instances of `WorldProof`, `PurchasePanel`, `SwapFlow` |
| `Handlers` | the remaining handlers and the console, side by side | extends `RequestLimit`; `Binding`, `Demo`, `Box`, `Console`, `Directory` are instances of `ProofBinding`, `PresentationDemo`, `DemoSandbox`, `AdminConsole`, `OfferingDirectory` |
| `SumTheorems` | what a sum over a finite set is, for the proofs of the two markets | |
| `*Proofs` | the theorems about the module of that name and those it is built from | extends it |

`Clients` and `Handlers` hold parts that share no state: a variable `part`, chosen
at the start, says which of them moves, and the others stay at their beginning,
so a run's states are the sum of the parts' and not their product, and a theorem
about the whole is one about each part. The `MC` modules give finite instances:
constants, later initial states, and `CONSTRAINT`s.

### Conventions

Each action is one transaction or one stretch of a handler between two awaits,
with its guards in the code's terms. A call that reverts, or a request that is
answered with an error and stores nothing, changes nothing and is no step, but
where a property is about the answer. A signature is the record of what was
signed and the account it recovers to. Random tokens, nonces and session ids are
unique. Definitions marked *faulty variant* are not used by the model: each
shows what a property would catch.

*The contracts.* `AllocationLedger` has one variable per storage variable of the
contract; `Tick` is the block timestamp; budgets are pairs of a group and a
period. In `OfferingRegistry` an offering id is its index, a platform-wide
revocation has offering 0, and the restorations are the used nonces with what was
signed; the deployment script makes the registry the owner of the ledger and sets
executor and hook, which is why `Init` starts there. In `MarketplaceTrade`
`call.phase` says which contract runs and `saved` is the state a `Revert`
restores; `OutsideCall` is a call anybody makes, also from inside `take`. In
`SingleMarket` the calls in progress are a stack, since another router may swap
inside a swap. In both, `paid` is a history variable, the money that reached the
pool manager, and the pool's price is any fill up to the quote.

*The backend.* In `Enrollment` a request is in `requests` while World decides;
`Enroll` runs the first `done` of three statements and, after all three, answers;
the answer may be lost. In `WalletLink` `authorizing` holds the requests between
their checks and the store with the time they read, `observing` the receipts read
and not recorded; the ledger's other variables are one opaque `otherLedger` that
no step of linking touches. `ProofBinding` keeps what a World proof carries
(human, environment, key, credential, the form of its nullifier) and what a
restart may change between context and proof; its `Enroll` too runs the first
`done` of the statements, for the answer may be an error or lost with the row in
place. In `PresentationDemo` a request copies the list as it begins (`listed`), has
its own record of what each fact was while it read (`seen`), and is signed by the
clock of its end (`span`): chain, list and clock move between all of these. In
`DemoSandbox` any process may be stopped between two calls, the server in a request
of a tab or the journey script. In `OfferingDirectory` a creation is sent in one step
and mined in another, which no stopped script can prevent (`pending`).

*The frontend.* A flow has a stage for each await and keeps the values of the
render that started it; the user changes account, network and session at any
time. A lost flow is one whose fetch threw outside any `catch`: the page never
hears of it again. `InvestorPage` knows World as an answer that comes or does
not; `WorldProof` has the request in detail. The steps of a flow are of two kinds:
those `Awaited` end by themselves, those `Prompted` (`Send` in the panel) wait for
the wallet's user. What the user reads is state of its own: the page's `phase`, the
panel's `notice`, the form's `phase` and `shownSwap`.

## 3. The runs

| run | instance | what it shows |
|---|---|---|
| `ledger` | three wallets of two allocations, two budgets of one group, two tokens, amounts to 3, three nonces, two accounts | accounting, bindings and nonces under cap, token, role changes, expiry and replay; the ledger implements `SharedBudget` |
| `registry` | two offerings, groups and versions, three pool keys; two wallets, two epochs, two restorations | caps, pools and versions agree; revoke and restore in any order, at two levels |
| `trade` | three wallets of two humans, two pools, nine intents over three nonces, two versions | what is paid is recorded, signed for, charged to its human and only while allowed; the marketplace implements `HumanBudget` |
| `market` | two wallets, two budgets, two routers, three tiers, two fee regimes, a pool of the dynamic fee and one of its own | the same of the single market, through its executor and around it; charges are the caller's and on the terms in force |
| `enrollment` | two humans, three sessions, three grants | one allocation per human, a browser that opens only its own |
| `enrollment_again` | one human who keeps verifying | an expired session is not recovered (finding) |
| `link` | two humans and wallets, three challenges, two authorizations, two transactions, two signers | overlapping requests, two issuers, late receipts |
| `link_issuers` | one wallet, World and demo | the two issuers disagree (finding) |
| `page` | two flows, two wallets, one change | reports are on the chain, a cancelled flow stops, nothing is left behind |
| `clients` | two World requests; two purchases; two swaps; one flow of the page | what each displays is so, up to two named mixtures; nothing stays busy unless the wallet's user does |
| `handlers` | five calls to the limiter; three proofs over a restart; four demo requests; four sandbox requests and three tabs, journeys and stops; two clicks of the console; one report call by call under one administrative change, two publishing scripts | the limit is exact; proofs bind one human; removal takes effect on requests that begin after it; the demo, the console, the report and the directory claim what is so |
| `publish_twice` | two publishing scripts, one after the other | a creation mined late gives a second record (finding) |

A run answers one question, and some of its properties are conjunctions, one
conjunct for each part or aspect: `SettledAtRest` (nothing open, and the books
match the money), `SaysWhatHappened`, `BindingHolds`, `WalletsAreHeldBack`,
`DemoIsTrue`, `ConsoleIsTrue`, `StatusIsTrue`, `DirectoryIsTrue`. Those of
`market`, `clients` and `handlers` include the type invariants of their parts;
each conjunct has its own definition and comment in the part's module.

### Refinements

`ImplementsSharedBudget` maps the ledger's bindings, caps and spend.
`ImplementsHumanBudget` is checked of two different systems: the marketplace
(budgets per group, whose cap is the offering's) and the single market (budgets
per group and period). Both map `bought` to the *money* a human's wallets paid,
counted when the transaction ends, and not to the ledger's own records; an
unrecorded payment, a payment of another human's wallet, or a cap lowered below
what was paid would each be a step `HumanBudget` does not have.
`KeepsPromise` maps the stages of a World request to the four phases of
`ProofRequest`, with its fairness: a new request withdraws every earlier one, the
proof of a withdrawn request is never sent, and every request ends.

### Bounds, and why they are enough

*Ledger.* Two wallets of one allocation and one of another is the least that
tells sharing from owning; two periods the least that tells a budget from a
group; amounts to 3 allow a cap between two spends. `Focus` explores two stories:
budgets move while roles and time rest, or wallets register, with rotation,
expiry and replay, while there is no policy. Nothing that spends reads a signer
or the clock and nothing that registers reads a policy.
*Registry.* Two offerings are the least that could collide, two versions the
least that change, two epochs the least in which an old restoration meets a new
revocation. `TermsMove` and `RevocationsMove` are its two stories: no operation of
one reads what the other writes. `QuietFields` holds still what no property
relates.
*Trade.* The run starts when the offering is on sale, a state the registry's run
covers the way to. Two intents of one human together exceed the cap, two share a
nonce, one is for another pool of the same offering, one for another recipient,
some wait for the second version, one expires, one is for another router. The two
stories are: the cap moves and two humans buy; or everything that may stop the
purchase of one wallet moves. Calls nest one level deep: inside a purchase the
pool manager refuses a second unlock and the hook a swap by anybody but the
trusted router.
*Single market.* The run starts wired, with one wallet registered. Two routers
are the least for a swap inside a swap; two volatilities around one threshold and
three tiers give every fee. A pool whose key has the dynamic flag (8388608) and one
of a fee of its own (3000) are the two sides of the hook's branch. The two stories:
router, budget, policies and members move; or all terms of one wallet do, in both
pools.
*Enrollment.* With three grants and three sessions a human may sign up twice at
once and continue; time passes both lifetimes.
*Linking.* Two requests at once are the least that race. The run starts with both
humans enrolled, or with one wallet holding two authorizations for its
allocation, the least in which the receipt of one transaction could confirm the
registration of another. Enrollment rests, since its own run covers it.
*Page.* Two flows are the least that overlap; one change of account or network
falls between any two steps of either. One presentation check runs at a time, and
a verified session does not expire in the run.
*Clients.* Two World requests with a lifetime of one pause, clocks that differ by
one either way, and one change of the market for each form: every await can end
in time, late, with an error, or never.
*Handlers.* The limiter: two callers, a limit of two, five calls, times one past
two windows. The binding: two humans in either form of nullifier, two proofs at
once and a third after them, one spoilt proof or restart, each of the four places
an enrollment may be cut, and one failed or unanswered request before the third.
The presentation demo: a removal with one request at a time, in which list and
clock move under the request, or two challenges of two wallets at once. The guided
demo three times: one presenter with four requests (three when a process is
stopped), three tabs two at a time, in which a reset may be stopped anywhere, and
three resets and journeys over each other, any of them stopped. The console twice:
two clicks with a change of account, two pages with two oracles.
*Directory*, a part of `handlers`. One administrative change between any two reads
of one report, or one script overlapping a request; two scripts, together or one
after the other; a record lives one tick, and the clock reaches its end. The
environment is that of the deployed site or lacks one thing; the code of the ledger
or of the hook may be missing, the others being read by the same call. `Lookup`
leaves out what no property could tell apart: the report reads nothing of Arkiv and
Arkiv nothing of the chain, so a record that comes or goes during the report is as
one that does so just after. `publish_twice` is the same instance with the
constraint `OneByOne`: no two scripts run at a time.

`handlers` has 555,000 distinct states in the six parts, `page` 1.07 million, and
`clients` 116,000, of which liveness is checked; the violation of `publish_twice`
takes twelve steps.

`CHECK_DEADLOCK FALSE` is in every configuration because every counter is
bounded: a run stops when its nonces, requests and seconds are used up.
Symmetry is used for identifiers no initial state or definition names, and only
in runs without liveness.

### Fairness

The safety runs assume none. `enrollment_again` assumes the best of everybody in
`WillingSpec`: a human who verifies whenever it is possible again and again, a
World that accepts every proof, a backend that answers and answers that arrive. It is strong fairness, because the
session a human may use next is enabled only between requests. The counterexample
therefore does not blame scheduling. `clients` assumes weak fairness of each
part's `Awaited` steps and of no others: a fetch, a read or a simulation settles with
a result or an error, the poll's timer fires, and the wallet library's wait for a
receipt has its own timeout. It is not assumed that a wallet prompt is answered
(`SignatureMade`, `Sent`, `Send`, `Approve`, `Swap`), that World App answers, or that
a transaction is mined: no timeout of the code ends a prompt. `NeverStaysBusy`
therefore says that a busy button becomes idle *or the wallet is left waiting for
its user for ever*, `[]AsksWallet`, and it excepts a flow of the page that was
lost, see above, and the phase two ends of a flow leave behind, see section 5. That
every poll of World answers is assumed: a poll that hangs would outlast the deadline,
which is looked at between polls (`enrollClient.ts:95`).

### Mutants

Every property of a passing run has a mutant in `PROJECT.json`: a mapped
definition and its faulty variant, a plausible mistake in that line of code,
under which the same run finds the property violated.

## 4. What is proved

All proofs are for any sets and bounds that satisfy the named assumption of the
module, from its own `Init`. The runs `trade`, `market` and `link` start from
later states to reach more; the theorems cover the way there as well. Every
safety invariant and every action property of a passing run is the statement of a
theorem.

| module | assumption | theorem | property |
|---|---|---|---|
| `AllocationLedgerProofs` | `LedgerAssumption` | `TypeCorrect` | `TypeOK` |
| | | `SpendWithinCap` | `WithinCap` |
| | | `CachedMaximum` | `HighestIsMaximum` |
| | | `SpendMonotonic` | `SpendNeverDecreases` |
| | | `BindingForever` | `BindingIsPermanent` |
| | | `BindingPaidByNonce` | `BindingConsumesNonce` |
| | | `QuoteTokenLocked` | `OneQuoteTokenPerGroup` |
| | | `SpendOwned` | `SpendHasOwner` |
| | | `LedgerImplementsSharedBudget` | `ImplementsSharedBudget` |
| `OfferingRegistryProofs` | `RegistryAssumption` | `RegistryTypes` | `TypeOK` |
| | | `CapsMirrored` | `CapMirrored` |
| | | `GroupsNeverShared` | `GroupsDisjoint` |
| | | `PoolsAlwaysLeadBack` | `PoolsLeadBack` |
| | | `TermsVersioned` | `TermsAreVersioned` |
| | | `RestoredOnlyBySignature` | `RestoredBySignature` |
| | | `EveryRevocationBites` | `RevocationBites` |
| | | `SpendWithinOffering` | spend is of an offering's group and within its cap |
| `MarketplaceTradeProofs` | `TradeAssumption` | `NobodyPaysMore` | money paid for a human and group, at any time, is at most the cap |
| | | `TradeIsHumanBudget` | `ImplementsHumanBudget` |
| | | `AlwaysSettledAtRest` | `SettledAtRest` |
| | | `AlwaysWithinSignatures` | `PaidWithinSignatures` |
| | | `TradeBooks` | the invariant behind the four, `Inv /\ Books` |
| | | `NothingStaysOpen` | `NothingLeftOpen`, a conjunct of `SettledAtRest` |
| | | `SpendIsEligible` | `SpendNeedsEligibility` |
| | | `PaymentsAreSigned` | `PaidOnSignature`: each payment has a signed intent, at most its amount, and a nonce unused when its transaction began |
| `SingleMarketProofs` | `MarketAssumption` | `NobodyPaysMore` | money paid for a human and budget, at any time, is at most the cap |
| | | `MarketIsHumanBudget` | `ImplementsHumanBudget` |
| | | `AlwaysSettledAtRest` | `SettledAtRest` |
| | | `NothingStaysOpen` | `NothingLeftOpen`, a conjunct of `SettledAtRest` |
| | | `CallerAlwaysPays` | `OnlyTheCallerPays` |
| | | `AlwaysChargedOnTerms` | `ChargedOnTerms` |
| `WalletLinkProofs` | `EnrollmentAssumption` | `EnrollmentTypes` | `TypeOK` |
| | | `OneAllocationEach` | `OneAllocationPerHuman` |
| | | `BrowserAlwaysHome` | `BrowserLeadsHome` |
| | `LinkAssumption` | `LinkTypes` | `LinkedTypeOK` |
| | | `GrantPaysOnce` | `OneAuthorizationPerGrant` |
| | | `AuthorizationsEnd` | `AuthorizationEndsWithGrant` |
| | | `WalletsKeepAllocation` | `WalletKeepsAllocation` |
| | | `ConfirmedOnChain` | `ConfirmedIsOnChain` |
| | | `ConfirmedForever` | `ConfirmedIsFinal` |
| `ClientsProofs` | `PageAssumption` | `ReportsAreTrue` | `ReportedIsOnChain` |
| | | `CancelsStop` | `CancelledStopsThere` |
| | | `IdleInTheEnd` | `IdleWhenDone` |
| | `ClientsAssumption` | `ClientsTellTheTruth` | `SaysWhatHappened` |
| | | `StaleDisplayCostsNoGas` | `RevertsOnlyAfterChange` |
| | | `WithdrawnProofIsNeverSent` | `KeepsPromise` without its fairness |
| `HandlersProofs` | `HandlersAssumption` | `LimitIsKept` | `NeverOverLimit` |
| | | `RefusalIsDeserved` | `RefusedOnlyWhenFull` |
| | | `OneEnrollmentPerHuman` | `BindingHolds` |
| | | `RemovedWalletsAreHeldBack` | `WalletsAreHeldBack` |
| | | `DemoTellsTheTruth` | `DemoIsTrue` |
| | | `ConsoleTellsTheTruth` | `ConsoleIsTrue` |
| | | `StatusReportIsTrue` | `StatusIsTrue` |
| | | `DirectoryTellsTheTruth` | `DirectoryIsTrue` |

### The arguments

*Ledger.* The cap is not inductive by itself: `setPolicy` compares a new cap with
the cached maximum only, so a cap above the spend of every allocation follows
from the cache being an upper bound, and the cache stays one only while spend is
a natural number. The invariant `LedgerTypes /\ BudgetInv` joins the types, the
bound, the fact that some allocation reaches the maximum, and the caps. All
actions but `SetPolicy` and `RecordSpend` leave budgets alone: three lemmas
(`BindingsKept`, `SpendKept`, `PoliciesKept`) say what each kind of step cannot
touch. The refinement maps `RegisterWallet` to a join, `SetPolicy` to a new cap,
`RecordSpend` to a spend and the rest to stutters; the guard that a cap covers the
spend of all comes from the same invariant.

*Registry.* Two independent invariants. `OfferingsInv`: the ledger has its shape,
every group in use is marked used, groups are disjoint and caps agree. A new
offering takes an unmarked group, so writing its policy overwrites nobody's;
an edit goes to the offering's own group, which no other offering has.
`RevocationsInv`: a restored epoch is never ahead of the revocation's and was
signed for. A restoration must carry the current epoch, so the next revocation is always
ahead again. Each action is filed under one kind of step (`CreateStep`,
`CapStep`, `EditStep`, `PoolStep`, `RevokeStep`, `RestoreStep`, or one that touches
none of this), and the rest is shown once for each kind. `BudgetsInv` adds what
the marketplace needs of spend: where somebody has spent there is an offering, and
it is within that offering's cap.

*Marketplace.* What is open in hook and executor is a function of the phase of
the call, and the saved state of the transaction had nothing open: `CallOK`,
`OpenOK`, `SwapOK`, `SettleOK`, and `SavedOK`, which a revert needs. That the
spend of `afterSwap` is eligible follows because the hook's checks in
`beforeSwap` and its record in `afterSwap` are in one transaction in which
nothing that may run in between changes what was checked.

*Single market.* The same, with a stack of calls instead of a phase. The
purchase belongs to the frame of the trusted router that opened it
(`PurchaseOK`), a frame that was admitted still meets the terms (`AdmittedOK`,
for the setters cannot run inside a swap) and has the fee of its pool's kind, and only the frame of the executor's
own call is paid for, by the account that made it (`ExecutorOK`).

*Sums.* The books add up what the wallets of a human paid, for any number of wallets.
`SumTheorems` has what that takes: taking one element out of a sum, changing one
value, adding an element, leaving out zeros, comparing two sums. The library's
fold is a recursion over the set, and induction over sets is out of the prover's
reach, so each fact is proved by least counterexample: among the subsets for which
it fails there would be a smallest (`MinimalSubset`), which cannot be.

*Books.* `SettledAtRest` speaks of states between transactions and is far from
inductive. The invariant `Books` holds in every state: the money paid for a human
and the charge recorded but not yet collected (`Owed`) make up the ledger's spend
(`BooksOK`), now and in the state a revert would go back to. Two things make it
last. A wallet that belongs to nobody paid nothing (`Bound`), so a registration, which
may fall inside a purchase, moves no money between humans. And only the call that
settles is owed for, once, by a registered wallet for an existing budget (`SettlingOK`).
For signatures `SignedOK` says the same of a wallet: what it paid, and what it may
still be asked for (`Due`), is at most the sum, over the nonces the hook took, of
the largest intent it signed under each. An intent signed later can only add to it.

*One budget for each human.* Seen from outside only finished transactions count:
`SpentInTheEnd` is the spend now, or the saved one while a transaction runs, and
`MoneyIsSpend` shows it equal to the money. By `SeenFromOutside` a step leaves
what counts alone, though it may change caps, or ends a transaction, which is a
`Buy`; that nobody is above a cap is `CapsOK` in the marketplace and `SpendOK` in
the single market. `HumanBudget` lets several
caps change at once, since a revert of a marketplace transaction may take back
several changes made inside it. `NobodyPaysMore` is the corollary a
reader looks for.

*Enrollment.* Beside uniqueness of rows, `EnrollInv` says of requests in flight
that a signup's session has no row and a continuation is by the human of its
session. The first is what the unique index repeats at the insert; the second is
why a continuation, however late, gives the token to the right browser.

*Linking.* `WalletLink` extends `Enrollment`, so `EnrollInv` is one conjunct of its
invariant. The other, `LinkInv`: every
stored authorization of World used up its grant and ends with it (`Paid`), a
request between its checks and the store carries a stored grant (`RequestsOK`),
each issuer's table agrees with everything it authorised for a wallet (`Kept`), and a confirmed row has its binding and nonce on
the chain (`OnChain`), which stays because the ledger's bindings and nonces only grow.

*Clients.* The four parts share nothing, so each has its own invariant and
`EachPartMoves` splits a step. The page (`PageInv`): a flow's stage determines what it holds
(`StagesOK`), only the newest request is shown and each open request belongs to a
waiting flow (`RequestsOK`), a busy flag is up only if a flow that lowers it is
under way or was lost (`BusyOK`), and a report follows a binding that nothing takes
back (`BoundOK`). `PhaseOK` does the same for the phase: while it is busy and not left
behind, a flow that will set it is under way; a demo flow never is one, since it
leaves the phase as it was, unless it sent a transaction. World requests (`WorldInv`): they start in order, and each that was
started and not withdrawn is the newest (`RequestedInOrder`), so the one that reaches the
backend is the one on the page; every step is then a step of `ProofRequest`, a
tick of several requests' clocks a stutter. The panel: a simulated purchase that
nothing disturbed passes the hook's checks when it is mined (`UndisturbedPass`),
which relates the figures of the simulation to the chain's; one flow runs at a time,
so the notice is of the newest click and says what its end found (`NoticeOK`). The
form: what a flow has sent at each of its stages (`FormFlowOK`); only what was sent to
Anvil is mined (`MinedOnAnvil`), so a receipt the form waits for is one of the chain it
reads. Its flows may overlap, and `BesideOK` says what of it can be seen: from the
swap of a flow on, the hash shown is its own, or none, or of a flow that was under way
together with it.

*Handlers.* `EachHandlerMoves` splits a step as above.

* *Limiter.* What the map forgot is older than the window (`ForgottenIsOld`) and no
  call is in the future (`InThePast`), so the calls counted are all that lie in the
  window that ends now; a window that ended earlier does not change.
* *Binding.* A row has its human's nullifier in one form, whatever form World
  wrote, and is of a verified signup that was not refused: answered with success, with
  a 500 or not at all (`RowBound`). A signup has a session of its own and a
  continuation one of a row, under the configuration it was asked under until the
  first restart (`RequestBound`), so an answer is about the row its session names.
* *Presentation demo.* `lastAllowed` is the clock's time for a listed wallet and
  not later for the others (`DemoList`), so a request whose copy of the list has its
  wallet began no later than that wallet was last on it. What a request read is among
  what the chain had since, and its record of facts includes what the chain has now
  (`DemoReads`). An authorization ends one lifetime after the end of such a request
  (`DemoGrants`), and the ledger takes it no later.
* *Guided demo.* A request that met no other has the chain to itself: its reading
  is still the chain's (`BoxJourney`). `BoxMet` makes meeting symmetric, `BoxMined` and
  `BoxConfirmed` tie an outcome to what is in the chain's list of purchases, and
  `BoxClean` says that the purchases in a snapshot met a reset or were there when the
  journey seeded. `BoxRestart` says where the one live snapshot is at each stage of
  the resets, and holds unless the file is torn (`torn`): a reset was stopped with
  the file unwritten, or a journey met another reset, and no journey has run apart
  since; `BoxAlone` says that such a journey mends it.
* *Console.* The entry, the stage and the transaction of a click agree (`ClickOK`), and
  until the hook is handed on, every page that lets a click through shows the owner
  who sends it (`OwnersShown`), so that what is sent is applied. The fee of a page is
  the hook's by cases over tier and volatility.
* *Status report.* Nothing administered takes code or tokens away (`WhatStays`). What an
  undisturbed report read is so now (`ReadIsSo`); what any report read was so at a moment
  since it was asked for (`ReadWasSo`, over the history `held`); and the answer
  is put together from those (`AnswerHolds`).
* *Directory.* A record drops off Arkiv after it stops being current, what was
  taken from the report was held (`ViewHolds`), and the answer is of them (`ShownHolds`).
  A record beside another is of a script that was about to create together with
  another one (`CreatedBeside`): from its query to the mining of its creation a
  script counts as creating, whether it still runs or not, so at each query the
  creations to come are known, and all of them are put beside each other.

### What is only model-checked

* Liveness, which is out of the prover's reach: `NeverStaysBusy`, and of `KeepsPromise` the part that says
  that every request ends.
* The three properties of the findings, which are false: `ExpiredCanStartAgain`,
  `StoredWalletKeepsAllocation`, `PublishingTwiceAddsNothing`.
* That the assumptions can be met: TLC evaluates each in a run.

## 5. Findings

1. `enrollment_again`: `frontend/lib/world/identity.ts:57` tells a user with an
   expired session to "Verify with World App again if you choose to start
   again". The nullifier is unique and stored for ever, so verifying again is
   answered with 409 (`enroll.ts:194`) and no new resume is issued. The same
   holds for a human whose cookie was lost, or whose enrollment was cut short
   before its resume was stored.
2. `link_issuers`: `docs/development.md:162` says that a wallet stored for a
   different allocation is rejected. The demo side checks both tables
   (`demoStore.ts:204`), World's `consumeLink` checks only its own
   (`enrollmentStore.ts:472`), so a wallet may hold two live authorizations for
   two allocations. The ledger accepts the first and refuses the second.
3. `publish_twice`: `docs/development.md:243` says of `npm run publish:offering`
   "If that one current offering already exists, the script prints it and does not
   create another". The script queries, reads the balance of the publisher and then
   sends its creation to Rabdi, without looking again (`publish-offering.mts:76`,
   `:90`). One script at a time is enough: the first is stopped in the await of its
   creation, the second queries, the creation of the first is mined, the second
   creates. Two such scripts at a time do the same. From then on every run
   stops with a conflict and the directory answers `unavailable`.

### Disagreements seen while modelling, without a run

Each was met while an action was translated, and shaped the properties: where the
code does not do what a text says, the property states the weaker thing the code
does. They are smaller than the three above, or plain from the lines.

*Verification and linking.*

* `demo.md:116` lists "Verification was cancelled" for a cancelled widget. An
  abort by the page's own button ends the poll as an answer `completionFailure`
  does not name, so the user reads that the proof was rejected
  (`enrollClient.ts:171`).
* `lib/product/copy.ts:11` tells an enrolled human to "Continue the saved
  session". When the one answer with the cookie was lost, there is no saved
  session, and every later attempt gets the same advice. Nothing wrong follows
  (`OneAllocationPerHuman`, `BrowserLeadsHome`), but the human stays outside.
* `sessionProof.ts:119` and `copy.ts:19` promise 503 and "Verification services
  are temporarily unavailable" for an outage of World. On a continuation the
  error has a class `handleContinue` does not recognise (`continue.ts:102`), and
  the answer is 500.
* `InvestorExperience.tsx:899` says that a verification can be reused while the
  session is valid. In staging a signup accepts a credential of issuer 128
  (`enrollmentProof.ts:77`), a continuation only issuer 1 (`sessionProof.ts:52`).
* `first-time-setup.md:28`: "The page reports the wallet as linked only after the
  chain receipt matches". `demoLinked` is a flag of the page, not of a wallet:
  after a demo registration and a change of account the page reports the new
  account (`InvestorExperience.tsx:969`). `ReportedIsOnChain` is therefore about
  the wallet of the flow.
* `first-time-setup.md:20`: `/invest` "blocks registration" for the signer and the
  owner. The block is the disabled main button, computed from the status of the
  moment; the flows do not look at the role again (`InvestorExperience.tsx:838`).
* `docs/development.md:185` says the action shows its request's connector as a QR
  code. Each flow clears the page's one hand-off when it ends, so an older flow
  that ends late removes the code of the one that waits
  (`InvestorExperience.tsx:417`).
* `enrollmentGate.ts:63` disables the main button while the phase awaits a signature
  or a transaction. Two ends of a flow leave the phase there with no flow behind it:
  `verifyIdentity` sets `awaiting_signature` again when the human was verified and
  the wallet not registered (`InvestorExperience.tsx:437`), and a demo registration
  that sent its transaction never resets `awaiting_transaction`
  (`InvestorExperience.tsx:340`). The main button then stays disabled; after the first
  end the second button, which reads no phase, goes on while the session lasts, and
  once it has expired none does. `IdleWhenDone` and `NeverStaysBusy` except exactly
  these two, as `LeftBehind`.
* `enroll.ts:198` and `enroll.ts:210` answer 500, "Enrollment could not be completed", also when
  the row is inserted and a later statement failed: the retry is answered 409. The
  same follows a lost answer. `AnswersAreTrue` says what can be relied on: "enrolled".
* The presentation demo holds back a wallet that was taken off its list from the
  next request on. One that began before is decided on its copy of the list
  (`app/api/invest/demo/route.ts:57`) and signed for ten minutes from its end
  (`route.ts:162`), however long its reads took. `RemovalTakesEffect` is
  measured from that end.
* `demo.md:120`: "Your registration request expired. Please try again." The page
  keeps the expired challenge, and the button that would fetch a new one stays
  disabled (`InvestorExperience.tsx:923`).

*Buying.*

* `InvestorExperience.tsx:97` answers every error it does not recognise with "The
  purchase could not be submitted", also the timeout of the wait for a receipt,
  after which the purchase may be mined and charged. `NoticeIsOnChain` excepts it.
* `InvestorExperience.tsx:751`: "The remaining allocation was read again". `refetch`
  reads for the account connected by then, which need not be the buyer, and does not
  throw when it fails: the sentence is shown all the same.
* `SwapDemo.tsx:625`: "no transaction will be sent on another network". The chain
  is checked on submission; two reads later the transaction goes to whatever
  network the wallet is on (`SwapDemo.tsx:439`).
* `docs/development.md:189` says a reverted receipt is not shown as success. The
  form keeps the phase of an earlier run while a later swap overwrites the hash
  (`SwapDemo.tsx:466`): when two flows overlap, "success" of the first may stand
  beside the hash of the second, which reverts. A purchase that was made is shown as
  rejected when its receipt or the balances after it could not be read
  (`SwapDemo.tsx:503`). `ShownIsOnChain` claims a hash of its own only of flows that
  were not under way together, and nothing of "rejected".

*Administration, demo and directory.*

* The activity log has an entry for every write. It becomes "success" when a receipt
  arrives, whatever its status (`AdminObservatory.tsx:174`), and "failed" also when
  the wait for the receipt timed out, after which the write may still be applied
  (`AdminObservatory.tsx:178`). `EntryIsItsOwn` says what each word is worth:
  "success" that the transaction was mined, and applied unless the hook was handed to
  another owner or the zero oracle was asked for.
* `AdminObservatory.tsx:416`: updating the oracle changes the effective fees of
  the other pages. They read the oracle of the deployment file; after `setOracle`
  the hook charges by another. `FeeAsCharged` holds for the deployed oracle.
* `demo.md:52` says that a reset loads the snapshot "taken after seeding and before
  the purchases". `evm_revert` and the next `evm_snapshot` are two calls
  (`sandboxChain.ts:307`, `:309`): a purchase of another tab mined between them is in
  the new snapshot, and in what every later reset loads. And the journey, when its
  revert is refused, seeds upon whatever purchases are there (`runGuidedDemo.mts:6`).
  `LoadsNoOther` says there is no third way.
* A process stopped between the revert and the write of the file leaves an id
  Anvil may not have (`sandboxChain.ts:311`), and every reset of the page fails until
  the journey is run. Resets of tabs may overlap in any order, since only one of them
  finds the snapshot; the journey, which takes another snapshot when its revert is
  refused, may not: a reset to the older of the two removes the newer, which
  may be the one the file is given last. `CanRestart` excepts these two.
* `lib/product/readiness.ts:33` says the ledger is not deployed also when one read
  of it failed (`status.ts:190`).
* `docs/development.md:247`: "In every case the cap and period come from
  Ethereum". When the read of the hook failed, the period is a constant of the
  source (`status.ts:197`).
* `docs/development.md:247` says a record that differs from the deployment is
  `mismatch`. The route compares it with constants of the source
  (`app/api/offerings/route.ts`, `lib/arkiv`), so a record of the old tokens is
  ready while the deployment has others.

## 6. Not modelled, and why

* Presentation components (`ProjectPresentation` and the like), layout, wording
  and forms over the parts above: no protocol of their own.
* `beforeAddLiquidity` of the marketplace hook: it accepts or refuses liquidity
  and changes no state of the contracts modelled. `approveRwa` is part of `CreateOffering`, its only call. `setExecutor` and `setHook` of
  the registry run once, in the deployment, and are part of `Init`; the ownership
  of registry, hooks and executors is fixed (`Platform`, `Owner`). The ledger's
  own ownership does move in its module.
* The purchases and addresses routes (one query and its formatting),
  `purchaseHistory.ts` (a list), `walletConnection.ts` (the dialogs of a library),
  `offeringDraft.ts` (the validation of a form).
* Deployment scripts other than the marketplace's, and the mock tokens.
* Cryptography, ABI and JSON decoding, prices and pool mathematics: abstracted as
  said above. 256-bit overflow cannot occur below `MAX_CAP`, since Solidity 0.8
  reverts and a revert is no step.
* Reorganisations of the chain: the receipt handler takes a receipt as final.
* A second backend process on the same database: the repository runs one. The
  demo store's checks before `BEGIN IMMEDIATE` rely on it.
* A browser that drops its demo cookie: "the demo identity of a human" is the one
  in the human's browser.

## 7. Plan

Done, in this order: `SharedBudget`, `AllocationLedger` and its proofs;
`OfferingRegistry` on it, `MarketplaceTrade` on both; `Enrollment`, `WalletLink` on
it and the ledger; `SingleMarket` and the common abstraction `HumanBudget`;
`WorldProof` and `ProofRequest`; `InvestorPage`, `PurchasePanel`, `SwapFlow`;
`RequestLimit`, `ProofBinding`, `PresentationDemo`, `DemoSandbox`, `AdminConsole`;
`ProductStatus`, `OfferingDirectory`; the proofs of registry, markets, enrollment,
linking, page and limiter; sums, the books and both refinements of `HumanBudget`;
the proofs of all clients and handlers.

Worth doing next, in order of importance:

1. One abstraction over the whole chain: enrollment, linking, ledger and market
   together implement `HumanBudget` for *humans*, and not for allocations; the
   links between the modules (`OneAllocationPerHuman`, `ConfirmedIsOnChain`,
   `BindingIsPermanent`) are proved one by one.
2. The liquidity gate with a property that relates the liquidity of a pool to the
   offering's operator, and the ownership of registry, hooks and executors.
3. Two backend processes on one database, the first thing a deployment that
   scales would meet.
