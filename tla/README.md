# Verification of AgentCart ShopBridge

AgentCart lets a buyer's agent purchase from a WooCommerce shop. The shop runs
the ShopBridge plugin (PHP); payments and refunds are settled by a verifier
(Node) in front of Stripe, Tempo and x402; merchants are listed in an on-chain
registry (Solidity) and in a hosted one; a gateway, a household assistant and a
command-line skill (Python) act for the buyer. This directory holds TLA+ models
of these parts, TLC runs on small instances, and theorems checked by TLAPS.

Abbreviations of paths, all under the repository's root:

| | |
|---|---|
| `P` | `woocommerce-shopbridge/agentcart-shopbridge/agentcart-shopbridge.php`; its `store`, `recovery` and `client` are `class-agentcart-shopbridge-checkout-store.php`, `trait-agentcart-shopbridge-checkout-recovery.php` and `trait-agentcart-shopbridge-verifier-client.php` in `includes/` beside it |
| `V` | `gateway/scripts/verifier-refund-operations.mjs`, with `verifier-refund-reconciler.mjs` and `stripe-mpp-verifier.mjs` |
| `G` | `gateway/agentcart.py` |
| `SC`, `RT`, `PR`, `RPC` | `shopbridge-command.py`, `shopbridge_registry_trust.py`, `shopbridge_onchain_projection.py`, `shopbridge_onchain_rpc.py` in `gateway/shopbridge-direct-skill/scripts/` |
| `C`, `L` | `contracts/AgentCartMerchantRegistry.sol`, `gateway/scripts/onchain-registry-indexer-loop.mjs` |
| `H` | `household-os/household_os.py` |

`PROJECT.json` maps every definition to the lines it translates.

## The system

| Component | State | Operations | Talks to | Hard behaviour | Right when |
|---|---|---|---|---|---|
| Checkout store (`store`) | one draft order per quote, its checkout state, request hash, marks, attempts | draft, reserve, begin, mark_verifying, verified, failure, complete, release | WooCommerce | several processes write it; only locks order the writes | a paid case is never out of sight |
| Paid checkout (`P` 6147-6468) | MySQL locks per key and quote, an in-memory draft, one transaction | create_order | store, verifier, stock holds | process death, lost connection, late answers, unknown COMMIT | one payment - one order; promotion all or nothing |
| Recovery and compensation (`recovery`) | attempts, job lock | retry, compensate, recovery job | store, checkout, refund | races with the original request | a refund and a fulfilment exclude each other; every case is decided |
| Quotes and stock holds (`P`) | quote transient, native reservations, one option of holds | quote, confirm, release | WooCommerce | expiry during payment, sweep without a lock | hard holds never oversell |
| Verifier: refund ledger (`V`) | operations with a version, leases of the reconciler | reserve, update, advance, claim, finish | Stripe, Tempo | version races, leases that run out, unknown outcome at the provider | never refunds more than was paid, never twice |
| Verifier: replay store, payment rails | claims of payment references | claim, verify | SQLite, JSON file, providers | lock file taken over by age | a reference is claimed once |
| Buyer gateway (`G`) | quotes, approvals, challenges, orders in one memory and one state file | quote tournament, approve, challenge, checkout | shops, phone | a lock taken twice per request, crash between | budget, stock and approvals hold; an answered order stays |
| Gateway refunds and aftercare (`G`, `SC`) | refunds, keys, the merchant's last answer | refund_order, refresh, messages | shop | lost answers, stale views | what is claimed has happened |
| Hosted registry and monitor (`G`) | store file, transparency log, adapters, snapshots of alerts, audit log | submit, revoke, monitor, notify | merchants' domains, sinks | read-modify-write of a file, crash halfway, sinks that fail | revocations hold, the log explains the store, the operator knows |
| Registry contract V1 and projection (`C`, `PR`) | records, domains, attestations, delayed actions; an index | register, supersede, attest, govern; replay | indexer, buyers | overlapping supersessions, hashes that return | one record per domain; the index is the storage |
| Indexer (`L`) | the published document | refresh | two RPC providers | events missed, lag, damaged copies | an accepted document is true |
| On-chain discovery (`RPC`, `PR`) | checkpoint file, session | open, scan, select, backfill | RPC providers | partial pages, shared checkpoint, a liar | served records were active |
| Direct buyer skill (`SC`, `RT`) | none: the agent holds everything | search, basket, quote, approve, hand off, sign, check out | merchants, payer | rotation and revocation between requests, repeated commands | money goes where the approval said, once |
| Household assistant (`H`) | jobs, one remembered approval, streams, tasks | chat, reply, energy offers, digests | gateway, Vikunja | jobs on threads, waiting, time-outs | what the household is told is so |
| Cancellations, contract V2, facets contracts, plugin registry client, admin pages, charts, site, tooling | | | | | see *Not modelled* |

## Modules

| Module | Models | Extends |
|---|---|---|
| `CheckoutStore` | the draft order, and each write of `store` as an operator on it | - |
| `Checkout` | create_order, recovery, the refund of a compensation, with locks, transactions, crashes | `CheckoutStore` |
| `Gateway` | quotes, approvals, challenges and checkout of AgentCartService | - |
| `Purchases` | what a household may rely on; `Gateway` implements it | - |
| `QuoteTournament` | the search of all adapters for the best offer | - |
| `Aftercare` | what merchant, gateway and skill say about a paid order | - |
| `GatewayRefunds` | refund_order and refreshes, with the merchant's books | `Aftercare` |
| `RefundLedger` | the verifier's refund operations and their reconciler | - |
| `HostedRegistry` | submissions, revocations, the store file, adapters | - |
| `RegistryMonitor` | the monitor and its sinks beside the registry, and an auditor that keeps a proof of the feed | `HostedRegistry` |
| `Notifications` | the audit log and what the operator is sent about it, beside the monitor | `RegistryMonitor` |
| `RegistryProjection` | the replay of contract events into an index, the overlay | - |
| `MerchantRegistry` | the contract's storage and calls | `RegistryProjection` |
| `ContractFeed` | the document of events: publishing, comparing, reading | `RegistryProjection` |
| `OnchainSelection` | which candidates a scan loads, and the checks of its document | - |
| `OnchainScan` | scans that share a checkpoint; the second provider | `OnchainSelection` |
| `RpcTransport`, `RegistrySession`, `CategoryHints` | batches of calls; opening a session; hints from the facets contract | - |
| `DiscoveryBudget` | the time, requests and bytes that the threads of a discovery share, with their retries | - |
| `DiscoveryIndex` | the categories a shop declares, the index made of them, the hints read from it | - |
| `HouseholdChat` | chat jobs with the whole gateway behind them | `Gateway`, `EnergyOffers` |
| `EnergyOffers` | offers of surplus energy, accepted by neighbours | - |
| `HouseholdBoard`, `ChatStreams` | tasks, digests and cycle calendars; the event streams of jobs | - |
| `RegistryTrust` | verification of a record, payment destinations, x402 identity | - |
| `DirectSkill` | searches, quotes, approvals, handoffs, checkouts of the skill; the import of its checkout packets into the gateway's audit log | `RegistryTrust` |
| `BasketSearch` | the search for a whole basket | - |
| `CheckoutProofs` | theorems | `Checkout` |
| `GatewayProofs` | theorems | `Gateway`, `QuoteTournament` |
| `MerchantRegistryProofs` | theorems | `MerchantRegistry`, `ContractFeed` |
| `RefundProofs` | theorems | `GatewayRefunds`, `RefundLedger` |
| `RegistryProofs` | theorems about the hosted registry | `Notifications` |
| `OnchainProofs` | theorems | `OnchainScan` |
| `HouseholdProofs` | theorems | `HouseholdChat`, `GatewayProofs` |
| `SkillProofs` | theorems | `DirectSkill` |
| `MC...` | instances: scenes, small sets, and the parts that one run checks side by side | |

An `MC` module that checks several parts at once freezes all but one of them in
each behaviour: the parts share a run, not a state, unless the table says
*extends*.

## Correspondence to the code

**Checkout.** `order[q]` is the draft of quote `q` in the shop's database, with
the fields of the order metadata; `held` the native reservations, `lock` the
MySQL connection locks, `claim` the verifier's replay store, `railRefund` the
refund at the provider, `late` the requests the verifier still processes after
its caller has gone. One action per stretch of code between two points where
another process, a crash or a reconnect can interfere, in the order of
`create_order`: `Lookup`, `LockCheckout`, `LoadQuote`, `BeginCheckout`,
`ValidateItems`, `HoldBeforePayment`, `AttemptPayment` with
`VerifierAccepts`/`VerifierFails`/`CheckReplay`, `Checkpoint`,
`HoldAfterPayment`, `StartPromotion`, `WritePromotion`, `MarkComplete`,
`CheckOwnership`, `Commit`, `Cleanup`, `RecordIncomplete`, `UnlockQuote`,
`UnlockCheckout`. Recovery: `ManagerRecovers`, `JobRecovers`, `LockForRecovery`
to `StopCheckout`, then the refund (`LockRefund` to `FinishCompensation`) or
`ResumeCheckout`. Writes between START TRANSACTION and COMMIT are in `tx[p]` and
appear in `order` at `Commit`; after `LoseConnection` the process goes on in
autocommit mode, without its locks, as wpdb does.

**Gateway.** `mem` is AgentCartService.state, `disk` the state file (`Saved` is
save_state), `lock` the thread inside a merchant call, `call` where each thread is in
checkout(). A stretch under the lock is one action, except that the merchant call inside
it is a step of its own (`BeginPayment`, `MerchantCreatesOrder` or
`MerchantReplaysOrder`, `RecordOrder`, `FinishCheckout`). `Crash` puts the memory back
to the file and ends every thread. What follows the save of the order (its audit event,
its task, its calendar entry) may raise an error that nobody catches: `CheckoutBreaks`
ends the request, with the order kept, the lock free and the challenge not marked;
`told` is what buyers were answered. A quote carries the month it is made in
(`mem.made`), against whose orders the budget is checked, an order the month it is made
in; `MonthPasses` may come between the two. `Purchases` is mapped onto `disk`: what a
household relies on is what survives a crash.

**Tournament.** One request: `Search` (under the lock), `ReadDocument`,
`RejectProduct`, `CollectQuote`, `Deadline`, `Rank`; in between `RecordChanges`
and `RefreshAdapters`.

**Refunds.** `refunds`, `bound` and `view` are the gateway's order; `given`,
`otherwise`, `status`, `tracking` the merchant's books, `pending` the reservations of
the plugin's create_refund, which a request takes before it asks the rail and which one
that fails halfway leaves (`MerchantReserves`). The claims and next actions of gateway
and skill are operators of `Aftercare` on one *progress*; where the shop reports nothing
refunded, the gateway claims its own count. In `RefundLedger`, `ledger[k]` is a row of
refund_operations with its version, `queue[k]` a row of refund_reconciliation, `work[w]`
what a request or a reconciler has read and is about to write; every SQLite transaction
and every answer of a provider is a step, and what the code reads again after a write
(`Reread`) is read in a step of its own.

**Hosted registry.** `live` and `tmp` are the store file and its temporary file -
missing, partly written, or whole with a store in it - so a crash between
`OpenTemporary`, `WriteTemporary` and `ReplaceStore` leaves what it leaves;
`SwapAdapters` is the refresh of the adapters. The monitor's run is `ExchangeSnapshot`,
`Notify` sink by sink, `FileDelivery`; at a sink that times out or answers no JSON the
run ends (`NotifyBreaks`), with the snapshot saved and nothing filed. `Notifications`
separates the file from the tail in the saved state; there such a sink fails the whole
delivery (`TellingBreaks`).

**Registry.** `MerchantRegistry` has one action per external function of the contract,
which also replays the events it emits (`Emit`), so the index is at every state what a
reader of the whole log has; `Replayed` is the replay of one event, with its check of
the document's binding. `ContractFeed` adds the publisher, its witness and damaged
copies. `OnchainScan`'s processes are at a page, at storage or done; `checkpoint` is the
file. The reads of storage may fail for any of the records (`Unread`) or altogether
(`SelectFails`); then no checkpoint is written. `RpcTransport`, `RegistrySession`,
`DiscoveryBudget` and `CategoryHints` model what the scan takes for granted. In
`DiscoveryBudget` a request has a caller that waits for it and a worker thread; the
worker may go on after `GivesUp`, and what it reads then is still charged.
`DiscoveryIndex` is one step, `Ask`, over operators that translate the functions of
`shopbridge_discovery_facets.py`; its property compares them with what is on the
shelves. One shop that has an identity on the chain and no facets breaks the whole index
(`IndexBreaks`).

**Household.** `job[j]` is an entry of chat_jobs with the place its thread has
reached, `pending` the one remembered approval. A call of the gateway is the
gateway's own actions; `CallTimesOut` and `CallLost` end the wait but not the
gateway's thread. `HouseholdBoard` lists tasks page by page while clerks
change them (`GetTask`, `PostTask`); the digests, cut as the code cuts them
(`BucketSize`, `TextLines`), and calendars are operators.

**Skill.** Commands keep nothing, so `quotes`, `approved`, `handoffs` and
`posts` are sets of everything ever issued, of which any combination may be used.
`live` and `revoked` are what the merchants' domains serve at the moment. A search
quotes several products of a merchant (`products`) and ranks them by unit price where
one is comparable. An import may end with an error (`ImportFails`) between its file and
its log entries.

## Simplifications

- *Checkout.* One product, one unit per quote; a request is a value with a key, a
  quote and a payment reference. External verifier with verified real settlement.
  The recovery's back-off is left out: a due job may run at any time. `begin()` is
  one step. The two writes of a refund are one step in their transaction.
  `IssueQuote` is one step. Between the second confirm() and COMMIT a reservation
  does not run out (confirm() adds 300 seconds).
- *Gateway.* Every quote is one unit at the price of one unit of the budget. That
  the retry of a lost answer reaches the same merchant order depends on key and
  body (`MerchantReplaysOrder`); a plain store creates an order for every call.
- *Recovery job.* `JobRecovers` reads the attempts and saves them in one
  step (`recovery` 169-180); a manager's retry that resets the count in between would
  be forgotten, at the cost of one attempt.
- *Refunds.* One paid order of three cents. The plugin's lock around a refund is the
  single step `MerchantRefunds`, reservation and all. In the ledger one payment with two
  references; hours are `age`.
- *Household.* Titles of tasks are ordered like their numbers; the bucket of reminders
  in the daily digest is left out.
- *Registries.* A hash is what it hashes. A record id is its domain and first
  controller. Delays have no length: what is scheduled may run at any later step.
- *On-chain reads.* Logs and words are already decoded; draws by a seeded hash are
  any order; block numbers are times. The code between two reads of the clock takes
  no time. Slugs are sequences of words, and a damaged entry is one that its reader
  refuses; an entry that was changed and still reads well is a wrong hint, which
  the scan verifies like any other.
- *Skill.* The registry's documents are represented by the record a domain
  attests. A payer pays a payment request at most once (external). A missing quote hash
  is one of the verifier's issues (`verifier`); that only `max_candidates` offers are
  shown does not change the winner. `checkout_with` its own demo proof
  (`use_tempo_demo_proof`, `SC` 5205-5208, 5331-5334, 2931) is left out: it runs the
  payment client again at each call, but settles nothing real and belongs to no handoff.

## Runs

Deadlock checking is off where the system may stop with everything done; it is
on for `onchain_scan`, whose chain and scanners never stop.

| Run | Instance | Properties |
|---|---|---|
| `contention` | two processes; three scenes: two payments of one quote with manager and scheduler; one key for two quotes with a manager; two quotes of the last unit | `TypeOK`; `CompletedIsPromoted`: a completed draft is in the books; `FulfilledXorRefunded` at the rail and in the books; `PaidIsRecoverable`: a payment taken is closed or in the manager's queue with its request; `NoOversell`; `KeyBindsOneOrder`; `CompletionIsFinal` |
| `same_payment` | one payment for two quotes; a process that loses its connection; a sweep overtaken by a checkout | `PaymentBuysOneOrder`: the verifier's claim decides, not the shop's check-then-act |
| `liveness` | one quote, manager and fair scheduler | `PaidIsDecided`: completed, compensated, handed to the manager, or three attempts used |
| `gateway` | two threads; two payments of one quote with a crash; two quotes for one order's money; two quotes of the last unit; a ShopBridge quote whose rail changes, with a crash; a month that ends between quote and checkout. Requests break after the save. Beside them two markets of a tournament | `WithinLimits`, `PaymentsAreTheOrders`, `AnsweredIsDurable`, `ImplementsPurchases` (refinement), `TournamentIsFair` |
| `refunds` | four scenes of an order (any keys and amounts one at a time, at two kinds of store, with reservations left behind; two at once), seven payments at the ledger (both rails, shared balance, one reference with two amounts, a refund before the ledger, reconciliation) | `RefundsAreRight`: never more than the total or than was paid, and as the merchant gave; `ClaimsAreTrue`: nobody claims more than happened; `LedgerIsTrue`: the ledger is what the rails did, together not more than was paid, and leases are exclusive; `RefundsAreFinished` (liveness) |
| `registry` | nine scenes: one thread with a crash, two at once, proofs kept by an auditor, the monitor with ageing records and several sinks; four scenes of notifications | `FeedIsAuditable`, `RevocationIsKept`, `AdaptersFollowFeed`, `TheOperatorIsTold` |
| `merchant_registry` | two controllers for a domain; two domains with the same hashes; re-registration and attestation; quorum of two; a disabled validator; a published feed of three events | `DomainHasOneRecord`; `BuyersSeeTheContract`: the index is the storage, and a quorum or record it shows is granted; `FeedIsTrue`: so does the published feed, and damaged copies are refused; `RevokedHashStaysRevoked` |
| `onchain_scan` | eleven scenes: chains of up to four blocks, pages of one or two, one or two scanners, Myotis, a lying primary or witness, hints, preferred and unloadable records, reads of storage that fail; three batches; about fifty deployments; three searches with hints; two budgets with two callers and a retry each; 105 markets of two or three shops with eight lookups | `ServedWereActive`, `CheckpointIsTrue`, `DocumentIsAccepted`, `ReadsAreSound`, `ScanCatchesUp` (liveness) |
| `household` | a waiting purchase and a reply with a crash; two replies; two purchases for one budget and a reply; surplus energy, a neighbour and a crash; boards of four to seven tasks, more than a digest lists; cycles; two pages open for a job | `ToldTheTruth`, `EnergyIsSoldOnce`, `PlanIsComplete`, `MessagesAreAnswered` (liveness) |
| `skill` | purchases on x402 and Tempo while records rotate and are revoked; one without a registry; every order of three or four merchants, some with several products, some compared by unit price; baskets of three items at three merchants, any request failing; two overlapping imports | `PaidAsApproved`, `PaidWasVerified`, `PaidOnce`, `SearchesAreFair`, `ImportedIsLogged` |
| `compensation_undone` | a process that loses its connection beside a manager | violates `CompensationIsFinal` |
| `approval_buys_twice` | a job that waits for an approval, and the reply "yes" | violates `ApprovalBuysOnce` |

Each property of a passing run has a mutant in `PROJECT.json`: a faulty variant
of one mapped definition, written just before it, under which the run fails.
Several properties are conjunctions of named parts (their comments say of which),
so that one run answers one question about a component.

### Bounds, and why they are enough

- *Two of each actor.* Every hazard listed is a race of one request with one
  other actor; a process may end and start again as something else. The household
  scenes have two or three jobs, because a reply needs a purchase and two replies
  need a third.
- *Crashes.* Unlimited for PHP processes; at most one for the gateway and the
  household's gateway: after a crash all threads are gone and the memory is the
  file, so a second one starts from a state that the first could start from.
- *`MaxLosses`* (lost connections) and the overtaken sweep are limited to scenes,
  because they refute other properties (below).
- *Symmetry* only in runs without liveness, over sets whose members no scene
  names.
- *Money* is counted in units: a budget of one or two orders, an order of three
  cents, a payment of two. One below, at and above the limit all occur.
- *`MaxAttempts`* is 3 in `Checkout`, as in the code; 2 at the ledger, where the
  code has more and only whether attempts are left matters. `Bytes` are two signed
  transactions.
- *Chains* have up to four blocks and pages of one or two, so that gaps at the
  front, inside and at the end occur. `LastBlock`, `MaxEvents`, `MaxAge`, `MaxLag`
  bound the published feed; `MaxTime`, `MaxWaits`, `MaxBlocks` the session, the
  budget and the hints. A budget has bytes for two requests at once, so that a third
  finds what the others gave back or nothing. `MaxCategories`, `MaxTotal` and
  `MaxEntries` of the index are 2, 3 and 2 (8, 256 and 5000 in the code), with shops
  and indexes above, at and below each.
- *Months* are two, in one setup with one request at a time: what matters is whether
  quote and order fall into the same one.
- *Limits of the household's listings* are cut to pages of two and three pages;
  the code has 1000 tasks in all. `BucketSize` and `TextLines` of the digests are two
  and one (20, and 5 or 6, in the code), with boards above and below.

### Fairness, and why the code justifies it

- `Checkout`: weak fairness of a process' steps (PHP runs to its end or dies,
  `GET_LOCK(.., 0)` never waits, the verifier call has a time limit); strong
  fairness of `JobRecovers` per order: operations_tick runs every minute and
  selects due orders, but a given minute may find the job lock taken. Nothing is
  assumed of the verifier, of managers, or of crashes ending: therefore the
  property allows for three attempts used up.
- `RefundLedger`: weak fairness of a worker's steps, of due times and of leases
  running out (both are clocks); strong fairness of `Claim`: the reconciler runs
  every minute (`stripe-mpp-verifier.mjs` 2408-2412). Nothing of the providers:
  the property allows for all attempts used, which the reconciler reports.
- `GatewayRefunds`: a request that failed is repeated, and now and then reaches the
  merchant; this is the client's retry, and only `RefundIsRecorded` rests on it.
- `OnchainScan`: weak fairness of a scanner, strong of its next page: any one
  scan may run out of time, and the next continues. Strong fairness also of a selection
  all of whose reads succeed (`SelectLogged(s, {})`): a provider that fails some read of
  every scan keeps every checkpoint from being written, in the code too.
- `HouseholdChat`: weak fairness of each job, and of the time limit of its call
  (every call of AgentCartClient has one). A decision of a human is not assumed.
- `ChatStreams`: weak fairness of the job and of an open page, which looks again
  after two seconds.

## What the violations say

1. *Compensation undone* (`compensation_undone`). `create_order` checks that it
   still owns the quote lock only before the promotion. If its connection is
   replaced before, it stores `verified()` (`P` 6327) or, in its finally block,
   `failure()` (6460) over whatever has been decided meanwhile. A manager's
   `compensating` becomes `verification_pending`, and a later retry may fulfil the
   refunded order. `docs/TESTER_ONBOARDING.md:77-79` promises that the worker
   "cannot switch the checkout back to fulfillment".
2. *One approval buys twice* (`approval_buys_twice`). `checkout()` (`G` 8587-8591)
   looks an idempotency key up in its first locked section only. A chat job that
   waits for an approval and the job of the reply "yes" both see it approved, get a
   challenge each, and check out under the same key, which is the approval
   (`H` 1265): two orders, and the second idempotency entry hides the first. `G` 5620 and
   5927 describe checkout as idempotent under a stable key.

## Known divergences

Found while modelling. The models have them; a property either excepts the case,
as its comment says, or does not speak of it.

*Checkout.* With a lost connection `CompletedIsPromoted`, `PaidIsRecoverable`,
`FulfilledXorRefunded`, `CompensatedIsRefunded` and `CompletionIsFinal` fail too
(scene `Disconnected`): a reconnect between the promotion writes and `complete()`
commits the completion marker alone. With a sweep that is overtaken between its
test and its writes (`store` 181 reads the state without the quote lock),
`NoOversell` and `CompletedIsPromoted` fail: the sweep drops a confirmed
reservation, or cancels a completed order.

*Gateway.* A quote may be paid on another rail than the one first approved; a
retry is refused after a second approval, or when the counted stock is gone (the
stock of a ShopBridge product is the maximum over its quotes, not their sum);
the external value proof is produced before the merchant is asked, so each retry
pays for another; a crash after the order is stored leaves it without its task and
event. So does any error there that is not an AgentCartError, such as a time-out of the
task service (`G` 8862-8886), but the other threads go on: the lock is free, the
challenge, which is marked used only after the call (8685), is open, and a request with
it that had looked for a replay before (8587-8591) gets a second order, although
`docs/MPP_COMPATIBILITY.md:38` calls challenge IDs single-use. `ChallengePaysOnce`
excepts just this (`Broke`). The budget is that of the month the quote was made in
(7654, 7691-7699), while its order counts in the month it is made: a quote made before
midnight of the month's last day and paid after it takes the new month over its budget.
`WithinLimits` speaks of orders made in the month of their quote. *Tournament*: an adapter whose record is gone passes as
`local_adapter_override` under `require_verified_registry`; adapters are rebuilt
only after hosted submissions; ids that read as the household's favourite are
never quoted, or are substituted after a rebuild; one failing catalogue fails
the search of all, under the lock.

*Refunds.* Two requests at once may be recorded beyond the total, and one request
sent twice at once is recorded twice. After a refresh, aftercare forgets refunds
the gateway recorded since, or offers an amount that was refunded; a delivered
order may be shown as shipped again; where the shop reports that nothing is refunded,
the gateway claims its own count (`G` 9392). A draft with nothing left to refund asks for
the full amount named. A Stripe submission of unknown outcome that is older than
23 hours keeps its balance reserved until an operator reconciles it; operations that
require action or review are not reconciled.

*Hosted registry.* Two submissions at once lose one another's changes, a
revocation included, and fork the log. A skipped delivery resets needs_attention
(`docs/MERCHANT_REGISTRY.md:289` against `G` 4682-4708); near-stale alerts carry
the age in days, so they are announced anew each day; a sink may have delivered
though it answered with an error, and Home Assistant counts as reached when one of
several phones was; a sink that times out or answers no JSON ends the monitor's run
(`G` 4748-4764, 5191-5194): later sinks are never told, nothing is filed, and the next
run sees no change; in a delivery about the audit log it counts as one internal
failure of all sinks; a crash between the audit append and its delivery loses the
notification; file and tail of the audit log may be in different orders.

*Contract and discovery.* The contract grants quorums the index does not show;
the projection keeps executed governance actions as scheduled; one document that
names another controller makes the whole index invalid; without a witness a
missed event is never noticed. A log once missed stays missing in the
checkpoint; a V2 record that is eligible but not indexed, when preferred, makes
the document rejected; a Myotis node whose version cannot be read is taken for a
standard client, and with Myotis the first block of the facets contract is not
checked. A shop with more than 256 categories makes facets that its own validator
refuses, and an index of more than 5000 entries is built but gives no hints; one record
with an identity on the chain and no facets takes the index of all down (`G` 2736-2740). A
basket item of stop words only, such as "the", is no condition on the chain, and
one that nothing meets in the index.

*Household.* A reply decides whichever approval is remembered when its job runs, and
finds its words inside others; "no" after an approval is answered as stopped, with the
approval named; an energy offer stays "accepting" after a crash, and failing sensors of
consumption count as zero. `update_task` loses concurrent updates and cannot clear a due
date; a due date moved during a listing shows its task twice or not at all; beyond 1000
tasks the list is cut; a digest lists 20 tasks of a bucket, and 5 or 6 in its text,
beside the number of all; the digest counts days in UTC, the calendar at home. A job is
"done" a moment before it has its reply; the sessions file is written without a lock.

*Skill.* A revocation after the search is not looked up again; two approvals of
one quote on two rails may both be paid while one order is bound; a handoff
renewed on Tempo with another approved_at makes a body the merchant refuses. An
alternative with exclusions of its own loses those of its item (`SC` 3733 against
`docs/PRODUCT_BUILD_PLAN.md:385-387`); a failed request for the product asked for
makes the skill take an alternative; a merchant that lacks only an optional item
is never ranked. Two imports of one packet at once log its events twice.

## Proofs

Each proof module EXTENDS the modules it is about. All theorems hold for every
value of the constants, under the named assumptions of the modules, which TLC
evaluates in the runs.

| Theorem | States | For every |
|---|---|---|
| `CheckoutProofs!TypeCorrect`, `PaymentInvariant`, `PaymentsBuyOneOrder` | `[]TypeOK`, `[]PaymentInv`, `[]PaymentBuysOneOrder` | set of processes, quotes, keys, references, requests; any crashes and lost connections |
| `KeysBindOneOrder`, `CompletedOrdersArePromoted`, `PaymentsAreRecoverable`, `NeverFulfilledAndRefunded`, `NothingIsOversold`, `CompletionsAreFinal`, `CompensationsAreFinal` there | `[]KeyBindsOneOrder`, `[]CompletedIsPromoted`, `[]PaidIsRecoverable`, `[]FulfilledXorRefunded`, `[]NoOversell`, `CompletionIsFinal`, `CompensationIsFinal` | the same, if `Undisturbed`: no connection is lost under a live process, no sweep is overtaken; `NothingIsOversold` with hard holds |
| `GatewayProofs!GatewayTypes`, `LimitsHold`, `PaymentsHold`, `AnswersHold` | `[]TypeOK`, `[]WithinLimits`, `[]PaymentsAreTheOrders`, `[]AnsweredIsDurable` | set of threads, quotes, approvals, challenges, keys, setups; any crashes |
| `GatewayProofs!GatewayImplementsPurchases` | `Spec => Household!Spec` | the same |
| `GatewayProofs!TournamentsAreFair` | `TournamentSpec => []TournamentIsFair` | markets, terms, changes of the registry and the adapters |
| `RefundProofs!LedgerHolds` | `LedgerSpec => []LedgerIsTrue` | workers, references, payments, signed transactions, attempts |
| `RefundProofs!RefundsHold`, `ClaimsHold` | `[]RefundsAreRight`, `[]ClaimsAreTrue` | threads, requests, totals, stores |
| `RegistryProofs!FeedsAreAuditable`, `RevocationsAreKept`, `AdaptersFollowTheFeed` | `[]FeedIsAuditable`, `[]RevocationIsKept`, `[]AdaptersFollowFeed` | threads, merchants, records; any crashes |
| `RegistryProofs!OperatorsAreTold` | `AlertsSpec => []TheOperatorIsTold` | threads, records, alerts, sinks, phones, events, limits of log and history; any crashes |
| `MerchantRegistryProofs!DomainsHold`, `RevocationsHold` | `[]DomainHasOneRecord`, `RevokedHashStaysRevoked` | domains, controllers, hashes, validators |
| `MerchantRegistryProofs!IndexHolds`, `BuyersHold` | `[]IndexIsTheContract`, `[]BuyersSeeTheContract` | the same, thresholds, clocks, overlaid feeds |
| `MerchantRegistryProofs!FeedsAreTrue` | `FeedSpec => []FeedIsTrue` | histories of a record, hashes, controllers, limits of age and lag |
| `OnchainProofs!ServedRecordsWereActive`, `CheckpointsAreTrue`, `DocumentsAreAccepted` | `[]ServedWereActive`, `[]CheckpointIsTrue`, `[]DocumentIsAccepted` | chains, page sizes, workers, processes, failures, missed logs, orders of candidates, hints, limits |
| `HouseholdProofs!EnergyHolds`, `HouseholdHolds` | `[]EnergyIsSoldOnce`, `[]ToldTheTruth` | threads, neighbours, offers, readings, messages, with the whole gateway |
| `HouseholdProofs!HouseholdBuys` | `ChatSpec => Spec` (of `Gateway`) | the same |
| `SkillProofs!PaysAsApproved`, `PaysWhatWasVerified`, `PaysOnce` | `[]PaidAsApproved`, `[]PaidWasVerified`, `[]PaidOnce` | merchants, records, scenes, bounds of quotes and time |
| `SkillProofs!ImportsAreLogged` | `[]ImportedIsLogged` | importers, packets, sizes of packets |

*Assumptions on constants*: `CheckoutConstants`, `NoneIsNoRequest`;
`SetupsAreSetups`, `NoneIsNobody`; `MarketsAreMarkets`
(finitely many merchants; a limit of merchants; at least one candidate is shown),
`TermsHaveTotals`; `RequestsAreRefunds`, `PaymentsAreOfCents` (the
references are finitely many, what was refunded before the ledger is not more than
was paid); `TotalIsPositive`, `RequestsAreRecords` (finitely many requests),
`ScenesAreScenes`; `MerchantsHaveRecords`; `IdsAreDomainsOfControllers`,
`NoneIsNoId`, `NoneIsNoHash`, `NoneIsNoTime` (absence is no value),
`ValidatorsAreFinite`; `TellingsAreTellings`, `PhonesAreInOrder`, `LimitsArePositive`,
`ScenesTellSinks` (sinks are sinks, limits are at least one); `ScenesAreScans` (a chain
is a sequence of sequences of events, one of the two providers is honest, absence is
neither a page nor a failure), `RecordsAreFinite`, `CandidatesAreWanted` (at least one
candidate may be drawn); `NoneIsNoOffer`, `ReadingsAreReadings`,
`MessagesAreMessages`, `KeysAreApprovals`, `JobsAreNeighbours`; `BoundsAreNaturals`,
`NoneIsNoRecord`, `IdleIsNoPacket`.

*Checkout, without locks.* `PaymentBuysOneOrder` is not inductive: that
`WritePromotion` may promote depends on what the process saw long before, and on
the order having kept its binding since. `PaymentInv` adds `OrdersFit` (a started
draft is bound, a verified one is claimed for its own quote) and `ProcessFits` (what
a process past `begin()`, past the verifier's answer or in the promotion may rely
on). That others do not disturb this is `Lasts`: bindings, verifications and claims
are never taken back. No step uses a lock; that is why the property survives lost
connections.

*Checkout, with locks.* The other properties are what the locks are for. `LockInv`
adds to `PaymentInv` that a process holds the locks of the step it is at
(`HoldsLocks`), what the holder of the quote's lock therefore knows of the order
(`KnowsOrder`: in a promotion it is open, in a refund it stays compensating), what
the holder of the key's lock knows of the key (`KnowsKey`), where the transaction
stands (`InTransaction`), and what may be said of an order, of money and of units at
any time (`OrdersKept`, `MoneyKept`, `StockKept`). A step of one process leaves alone
what another knows, because whoever writes an order holds its lock (`OthersStand`).
`Undisturbed` cannot be left out: MySQL gives up the locks of a lost connection
while its process goes on, and the run `compensation_undone` and the scene
`Disconnected` show each property but `KeyBindsOneOrder` and `NoOversell` false; the
sweep that pauses between test and write falsifies `NoOversell`. The run
`contention` has the same two settings, and the code's own weaker promise without
them is `PaymentsBuyOneOrder`. `CompensationsAreFinal` says of the violated
`CompensationIsFinal` that a lost connection is the only way there.

*Gateway.* `WithinLimits` needs that between the check of budget and stock and the
record of the order nothing is added by others. The invariant says that whoever is past
`BeginPayment` holds the lock (`AtWork`), that memory and file agree but for what the
lock's holder is changing (`Mirrored`), that what it passed on the way in still holds
(`Vetted`, `Covered`), that units and challenges are accounted for (`UnitsKept`,
`PaidOnce`, `LastIsMine`), what is on its way (`Planned`), and the properties
themselves. The budget is that of the month of the quote, as the code has it; an order
quoted and made in one month keeps that month's orders within it. Two orders of one
challenge are of one key, and the request of the earlier broke after the save. The
refinement maps every action to a step of `Purchases` or to a stutter with this
invariant; a crash is a stutter because `Purchases` is read off the file.

*Tournament.* What is drawn is drawn in turns from the queues of the chosen merchants
(`TurnsAreQueued`, with what `FlattenSeq` returns), so `DrawnFits` keeps a set of at
most `limit` merchants that everything drawn is of; the deadline only shortens it.
`OffersFit` says of each offer what was checked when it was collected: the entries it
was checked against are those of the document the request has read, so changes of the
registry and of the adapters do not disturb it. For the winner, `Rank` is enough with
two facts: an empty list of candidates means that nothing is comparable (`size` is at
least one), and what is cut off beats nothing that is shown.

*Ledger.* The code keeps an operation safe by its version. The invariant `RInv`
says of each entry that it fits what its rail holds (`Entry`, `Types`), and of each
worker that what it has read is the entry or an older version of it, in which the
identities at the rail - reference, bytes - were already what they are or still
absent (`Fits`). Then a write that wins its version race writes what the rail did,
and one that loses changes nothing. `LInv` (`Leased`) counts leases by the
operation's attempts, so a late reconciler never holds the number of a newer one.
`BInv` carries the balance: what is held is at most what was paid, a share is given
back only on a final answer of the rail (`Settles`), and a payment refunded before
the ledger has no operations. Held is a sum over all references, and a step changes
it at one of them.

*Gateway refunds.* `GInv` says that a key on record was given its amount by a ShopBridge
store, whose books, with what is reserved, stay within the total; and, with one request
at a time, that the amounts on record are of different keys and that a request on its
way fits what remains (`Alone`). `TInv` says that no answer of the merchant, neither the
last one kept nor one still on its way, says more than happened; what the agents claim
is a function of that answer and of the record.

*Hosted registry.* Two invariants. `FilesInv`: every copy of the store there is -
the file, the temporary file, the one in the hands of each thread - is explained by
its own log, so writers that overwrite one another exchange whole stores, and the
feed stays auditable though changes are lost. `LoneInv` follows the only submitter
step by step: what it writes continues what is on disk, and what it answered is in
the file whatever crash comes between. The auditor's proof is `WitnessInv`. That a
revocation is kept and that adapters follow the feed holds of one submission at a
time, which the properties say; two lose one another's changes.

*What the operator is told.* `MonitorInv`: with one monitor (`Followed`), a sink that
never refused and was never left out by a run that broke off is current, or will be once
it has heard what the run that exchanged the snapshot still has for it; what that run
calls new is in the snapshot, and nothing it calls resolved is. `NotesInv` gives every
event one place - with one thread, filed once, or cut off by a crash (`NotesFiled`) -
and says of a thread that the sinks it is done with have results, true when they are a
success, and the others are still to be tried (`Telling`). History and tail are the last
of what was filed and appended (`NotesKept`, `NotesTail`).

*Published feed.* `FeedInv` says that the log is in the order of its blocks, with
transactions that all differ (`LogIsHistory`), that the events up to a block are its
first ones (`LogSplits`), that a wrongly bound event stays one (`MisboundIsKept`), and
that a published document has events of the log in their order and, with a witness, all
of them up to its block (`PublishedIsHistory`): the two of a pair do not miss the same
event, so snapshots that agree miss none. Each damage to a copy is a lemma of its
own: the reader refuses it, or the replay is the same.

*Contract.* `StorageOK`, `DomainsAreOwn` and `SupersedesAnother` say that a record
that is active or suspended is the one its domain names, and that a pending
supersession is of another record of the same domain. `IndexInv` adds the types of
the index and that a live record has its controller and its hash; each call changes
the index as it changes the storage, event by event. `QuorumInv` adds
`AttestationsAreStored`: an attestation of the index is in storage, made for the
record as it is now and since its validator was enabled. The converse is false: the
contract keeps, and counts again, what the index dropped.

*On-chain scan.* `ScanInv` has three parts. `ChainOK`: heads that providers report are
not past the final block. `ScanFits`, of every scan whatever the provider missed: pages
submitted are taken, have arrived or are on their way unless one failed (`PagesFit`),
the page the logs wait for has not arrived (`PagesOK`), something is on its way until
all is (`KeptBusy`), an honest head is final (`HeadsOK`), and what is served was
active (`ServesActive`). `ScanTrue`, while no log was missed: the logs are those of the
blocks before the first missing page, and each page fetched is the chain's
(`PagesTrue`). That the scan may end when nothing is pending and no page failed
is not a guard of the code; it follows from `PagesOK` and `KeptBusy` together, and so
does that its logs reach the target. A page is a range of blocks, so the proof goes
through the arithmetic of page bounds (`PagesAre`), through what `FlattenSeq` computes
(`FlattenIs`, `LogsJoin`, `PagesJoin`), and through the contiguous pages that one
arrival releases (`ReadyRange`, `ContiguousIs`). The document is a lemma about pure
functions (`DocumentIsFine`): filtering, hinted places and waves of reserves keep the
candidates distinct, from the scope, within the attempts, and hinted if any hint
matched. That `ServedWereActive` does not need `ScanTrue` is the point of the
comparison with storage: a missed log can hide a record, never revive one.

*Household.* `EInv` (`EnergyTypes`, `HeldWhileProven`, `OneProver`,
`SettledAsProven`, `Backed`): an offer is in `accepting` exactly while one acceptance
is being proven, which the lock guarantees although it is released in between.
`MInv`, over the gateway's own invariant: a job's request at the gateway is keyed
with the job's approval, an order with its approval, and who was told "bought" has an
order in memory, hence in the file. `HouseholdBuys` maps every step of a job to a
step of the gateway, so that all theorems about the gateway hold in the household.

*Skill.* `SInv` follows the money back. A record used by a search was served by its
domain and not revoked when the search began (`SearchInv`); a quote commits its
record's account (`QuotesAreVerified`); a handoff is of an approval of such a quote, a
receipt of a handoff, a checkout of both (`MoneyInv`). The commands may be
combined in any way because each checks its own link. `AuditInv`: what one import
has logged is a subsequence of the log, in order, to which others only append.

*Folds and recursive functions.* The induction theorems of the library cannot be used
with the installed provers. What the folds of `SumFunction`, `FlattenSeq`, the replay of
a log, the filter of candidates and the waves of reserves compute is therefore shown by
contradiction: among the finite sets (or the lengths) for which the claim fails there is
a least one (`SmallestSet`, `LeastNumber`), and taking one element away from it gives a
smaller one. That the recursive functions exist is shown in the same way. The lemmas on
sums are at the beginning of `RefundProofs`, those on sequences in `GatewayProofs`,
`OnchainProofs` and `MerchantRegistryProofs`.

*Only model-checked*, and why:

- Liveness (`PaidIsDecided`, `RefundsAreFinished`, `ScanCatchesUp`,
  `MessagesAreAnswered`): beyond the prover.
- `SearchesAreFair`, `PlanIsComplete`, `ReadsAreSound`: each is a
  conjunction of several parts, most of which compare lists that are ranked, cut or read
  in pages by sorts and folds with what they were made of. The least-counterexample
  argument above needs one lemma for each fold; it was spent on the scan.

## Not modelled

- *Order cancellations* of the plugin (lock taken over by age, `P` 7255), *soft
  holds* (`P` 10299), *customer refunds* with several keys (`P` 6587: a map that is
  saved after its lock was lost) and the *JSON replay store* (lock file taken over
  by age, `stripe-mpp-verifier.mjs:998`). These races are real and have no property
  here: the models of the shop serve checkout, which is restrained by hard holds,
  refunds under one key, and the SQLite store's claim.
- *Contract V2* (validators, bonds, sanctions, delayed governance) and the *facets
  contracts*: a protocol of their own. Votes of removed validators are a
  listed hazard without a property.
- *Payment rails* of the verifier and the *plugin's registry client*: pure
  functions of provider and chain data.
- *Catalogue, policy and admin pages, OpenAPI, MCP and llms documents, HTML,
  e-mail bodies, anchor and governance documents of the feed*: rendering.
- *Sessions and Home Assistant* of the household; *approval notifications*, which
  change no decision.
- *Older verifiers of records* inside the gateway and the skill (`G` 3563-3990,
  `SC` 771-1135): both now call `RT`, and nothing calls these any more.
- *Operator and enrollment scripts*: they prepare transactions a person sends.
- *Charts, deployment, site, release tooling, smoke tests*: no state of the
  system.

## Running

    tlc -workers 2 -config contention.cfg MCCheckout
    tlapm GatewayProofs.tla

`PROJECT.json` lists the module of each configuration. Each run takes about
three minutes at most; the proofs take one to ten minutes per module.
