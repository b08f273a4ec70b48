# Wotta, specified

TLA+ specifications of Wotta: USDC payments into Starknet escrow pools, funded
directly or by Circle CCTP burns on other chains, tracked by an API with a
Postgres row per payment, carried on by two background workers, and made,
claimed and put to work from browsers.  The modules are translated from the
source; `PROJECT.json` maps every definition to the lines it stands for, lists
the hazards of the code and says which property is about which.

## The system

| part | state it keeps | operations | talks to |
| --- | --- | --- | --- |
| escrow pool (`contracts/src/escrow`) | claim records, private refund index, outstanding liability, its USDC | `deposit_public`, `fund_from_router`, `privacy_invoke` (fund, claim, refund), `refund_public` | USDC, privacy pool, router |
| CCTP router (`contracts/src/router`) | pause switch, admitted domains, `processed_intents` | `settle`, `pause`, `unpause`, `set_source_domain_admitted` | Circle's transmitter, USDC, pools |
| intent workflow (`apps/api/src/intents`, routes of `server.ts`) | `intents` row (state, version, source hash, `onchain_state`), `intent_events` | create, quote, cancel, source-submitted, delivery, refund-observed, walks along allowed edges | Postgres |
| indexer (`apps/api/src/indexer`) | `indexer_cursors`, `chain_events`, a lease | follow the pools' events over reorganisations, project them, sweep expired rows | Starknet RPC, Postgres |
| relayer (`apps/api/src/relayer`) | `relayer_jobs` | take a job, wait for Iris, validate, send `settle`, confirm, catch the row up, retry | Iris, Starknet RPC, Postgres |
| Iris client (`apps/api/src/relayer/iris.ts`) | in the relayer process: attestations seen, when to ask again, a cooldown | poll a burn, back off, remember | Circle's Iris |
| delivery (`apps/api/src/delivery`, `resolver`) | `encrypted_notes`, `pending_claims` with a lease on each | resolve a recipient, store a note or a pending claim, reseal pending ones at a sync | Postgres |
| identities (`apps/api/src/auth/sync.ts`, a trigger and two unique indices) | `identities`: whose an address or a handle is | sync a profile with its account | Supabase, Postgres |
| bindings and inbox keys (`apps/api/src/auth`, `apps/web/src/lib/wotta`) | `wallet_bindings`, challenges; the keyring in a browser | link, reconnect, upgrade, reclaim, unlink; open a note | Postgres, Ready, local storage |
| quotes, codecs, validation (`apps/api/src/quotes`, `packages`, `relayer/validate-settlement.ts`) | none | solve for the gross amount, encode and decode messages, compare a message with its intent | Circle |
| configuration (`apps/api/src/config.ts`, entry points) | environment, manifest, evidence files | load, assert, offer routes | RPC providers |
| web session (`apps/web/src/lib`, providers) | network mode, connections to Ready, unlocked vault, claim view | connect, switch network, unlock, load, claim, drop | Ready, API, other tabs |
| send page | the form, the runs it starts | burn or deposit, record, confirm, cancel, leave | wallets, API |
| private identity (`identity`, `privacy` of the web app and the smoke app, a Cairo account) | vault record, deployed identity, registered viewing key, published binding | deploy, register, publish, restore | Ready, prover, privacy pool, API |
| Earn (`apps/web/src/lib/wotta/vesu`) | cost basis, submission memory of a tab, write gate | reveal, deposit, redeem, judge receipts | Ready, Vesu |
| deployment and gates (`scripts`, `deployments`, `evidence`) | the manifest, evidence files | declare, deploy, admit, verify, sync; gates 1 to 4, Earn gate | Starknet RPC |
| smoke app (`apps/wallet-smoke`) | one page in memory | the five flows of Ready; shield, transfer, fund, claim, refund | Ready, prover, API |

What is hard here.  The contracts hold other people's money over any sequence of
calls.  A burn cannot be undone while its settlement can fail.  API requests, the
indexer and the relayer change one row with no transaction around their several
statements and with a lease that lasts 30 seconds, is never renewed, and so
excludes nobody; every one of them can be cut off between two statements; and a
settlement may be sent, mined, reverted or made by somebody else while nobody
looks.  The keys that open a payment live in browsers that know nothing of each
other, while the server decides which key is published.  A browser awaits wallets
that answer minutes later, when the network may have been switched, the page left
or the same button pressed in another panel.  A proof is made against an old
block, and a payment whose secret was only in memory dies with its tab.  The
deployment scripts spend real money and must be rerun after every failure.

What makes each part right:

- pool: its books agree with its records and its tokens cover them; a funded
  claim always has exactly one way out; terms never change;
- router: an intent is settled once, tokens pass through and none stay, each
  minted burn ends as a claim or a refund, and nothing the API lets through is
  refused or found short;
- workflow: one allowed edge at a time, no lost update, never ahead of the chain,
  in the end not behind it;
- indexer: whatever the chain loses, the read model becomes the chain's again;
- relayer: funded only when settled, whatever was lost; every job that is worked on
  ends;
- Iris client and queue: no attestation is given up for a younger one, and a job whose
  burn is attested has its turn;
- identities: an address or a handle leads to one profile, and what a profile has is
  what its account proves;
- inbox keys: the secret of a published key is never lost, a note says for which
  key it was sealed, a claim that waits for its recipient arrives;
- sending: no burn without a note, no hash lost, nothing recorded without a job,
  nothing done twice;
- web session: what a network switch dropped does not come back, the
  claim view shows payments of the network it is on, no endless skeleton;
- private identity and payments: the viewing key of the published identity is
  held, a proof is made on a block that has what it needs, a claim goes to the
  pool its payment is in;
- Earn: one prompt, nothing sent twice, a cost basis that is that of the shares;
- deployment: nothing is paid for twice, what is called verified is so;
- admission: a route is offered only with all it rests on behind it.

## The modules

    ClaimLedger <- EscrowPool ------+
                      |             | (PoolsAreEscrows: INSTANCE per pool)
                  EscrowContract <- CctpRouter
                                        ^
                          Quotes <- Settlement   CctpMessage
    IntentStates <- PathSearch, IntentWorkflow, Relayer
    Indexer <- ReadModel, Relayer <- RelayerRow (INSTANCE)
    JobQueue   Identities
    InboxDelivery   SendFlow   WebSession   PrivateIdentity   PrivatePayments
    Earn   EarnReceipt   Deployment
    Admission <- SmokeRun <- MCAdmission

| theorems in | are about |
| --- | --- |
| `EscrowPoolProofs` | `EscrowPool`, `Deployment` |
| `CctpRouterProofs` | `CctpRouter`, `Settlement`, `Quotes` |
| `ApiProofs` | `IntentWorkflow`, `Indexer`, `Admission`, `SmokeRun` |
| `RelayerProofs` | `Relayer` (through `RelayerRow`), `JobQueue` |
| `InboxDeliveryProofs` | `InboxDelivery`, `Identities` |
| `SendFlowProofs`, `EarnProofs` | the module of that name |
| `WebSessionProofs` | `WebSession`, `PrivateIdentity`, `PrivatePayments` |

| module | models | correspondence |
| --- | --- | --- |
| `EscrowContract` | a pool's storage and entry points as operators | `Can...` is the conjunction of a call's asserts, `Funded`, `FundedPrivate`, `Closed` what it writes |
| `EscrowPool` | one pool with all its callers | one action per transaction; the token balance is a number |
| `ClaimLedger` | what a pool promises | claims with a stage, and a vault |
| `CctpRouter` | the router and the pools it funds | `Settle` is the whole of `settle`, `receive_message` and the call into the pool included; messages are records of decoded fields |
| `CctpMessage` | the bytes of a message, as Cairo and TypeScript read and write them | a read is a `SubSeq` at the code's offset, a narrowing conversion a condition on the leading bytes |
| `Quotes` | `solveExactNet` | rate and fee as numbers, the search as a recursive function |
| `Settlement` | `validateSettlement`, denominations | pure operators, and the state of `CctpRouter` they meet |
| `IntentStates` | the table of edges and `pathToward` by distance | constant operators |
| `PathSearch` | `pathToward` as the loop it is | `Search` is one turn of the outer loop and the rest |
| `IntentWorkflow` | one Starknet intent, API requests, indexers, world | one action per await: `StartWalk`, `Advance`, `LogEvent` are `transitionToward`, `transition`, `appendEvent` |
| `Indexer` | the loop over a chain that loses blocks | one action per statement of `runIndexerOnce`; a page of events is a function from block heights |
| `ReadModel` | the same | `Indexer` under names that leave those of `IntentWorkflow` free |
| `Relayer` | one CCTP job, workers, indexer, chain | `pc` names the places of `processJob` between two awaits |
| `RelayerRow` | the same | `Relayer` under names that leave those of `CctpRouter` free |
| `JobQueue` | all CCTP jobs, the loop of one relayer, and the attestation cache, polling schedule and cooldown of its process | `SelectJobs` and `TakeJob` are the selection and the claim of `runRelayerOnce`, `Look` is `fetchAttestationWithBackoff` up to its await, then one action per kind of answer; times are ticks from now |
| `Identities` | rows of `identities` and the requests that sync them | one action per statement of `syncProfileIdentities`; the trigger and the commit of one statement are two, `Enforce` and `Write` |
| `InboxDelivery` | bindings, keyrings, notes, pending claims | a tab's `pc` is the next await of its flow in the browser or of the route it has called; a key pair is named by its secret |
| `SendFlow` | the send form, its runs, the handlers of `source-submitted` with their idempotency key, the burn | a run is one call of `run()`, its `pc` the await it is at |
| `WebSession` | mode, connections, vault and claim view of a tab | one action per await, effects with the change that triggers them |
| `PrivateIdentity` | vault, identity contract, viewing key, binding; web app and smoke app | a flow per dialog or button, copies of the one stored record |
| `PrivatePayments` | the Sepolia page of the smoke app | a flow per button: proof block, submission, what it remembers |
| `Earn` | panels, the shared submission, the write gate, the ledger | one action per await of a press |
| `EarnReceipt` | the actions asked of Ready, the judgement of receipts | events as records of what the code reads |
| `Deployment` | declare, deploy, verify, admit, anonymizer | one action per transaction, wait and write of the manifest |
| `Admission` | configuration, entry points, gates, written environments | functions of environment, manifest, evidence and accounts |
| `SmokeRun` | the mainnet page of the smoke app and what its session proves | functions of a build's environment and a visit |
| `...Proofs` | theorems | see below |
| `MC...` | instances for TLC | constants, bounds, symmetry, scenes |

Definitions called `Name_What` (`Collateralized_BeforeReserve`) are not used by any
specification: each is the definition `Name` with a mistake, and `PROJECT.json`
("mutants") says which property notices it when it is put in place of `Name`.

`MCEscrowPool`, `MCCctpRouter`, `MCPayment`, `MCIndexer` and `MCWebSession` hold several components
that share no state.  A behaviour chooses its scene at the start and leaves the
variables of the others where they began; the states of such a run are those of
the scenes side by side, and fairness is that of the scene.

Abstractions: secrets are their hashes; amounts are small numbers; evidence
and payload columns, logging, validation of request bodies are left out; a request
that is refused changes nothing and is no action.  Integer widths: u128 and u256
overflow of balances needs more USDC than exists; where a decoder narrows a value
(`CctpMessage`) the width is checked byte by byte.

## The runs

| run | instance | shows |
| --- | --- | --- |
| `escrow_pool` | pool: 3 claim hashes, 2 refund hashes, denomination 2, transfers 0..3, time 0..2, donations stop at balance 7. Deployment: 1 pool, 2 builds, 1 kill | `Solvent`, `ExactlyOneExit`, and the pool implements `ClaimLedger`; `NothingPaidTwice`, `VerifiedIsLive` |
| `cctp_router` | 2 pools of denominations 1 and 2, 8 messages, 1 tick, 2 tokens of outsiders. Relayers: 1 job, 2 workers, 2 attempts, 1 failure | one settlement per intent, CCTP claims are burns and burns are claims, pass-through, pools still behave as `EscrowPool`, `ValidatedSettles`; `FundedMeansSettled`; before both `CodecsAgree`, `QuoteIsLeast` (requests to 40, fees to 4 %; proved for all) |
| `intent_workflow` | 2 requests, of which one may be cut off, and 2 indexers at once, from a draft or a quoted intent, row versions up to 5 | edges, log, chain before row; none of it rests on the lease; before it `SearchIsRight` for all 256 pairs |
| `payment` | form: 1 run of it from each of 3 kinds of source, 3 attempts to record. Row: from a draft, 2 requests one after the other, 1 indexer cut off once | `BurnHasNote`, `HashIsKept`, `RecordedIsQueued`, `FormComesBack`; `CatchesUp`: the row catches up with the pool, on the long ways through refund and recovery too |
| `relayer` | 1 job, 1 worker, 5 attempts, 1 mishap: a death, an error, a transaction that fails, a lack of STRK | `JobEnds` |
| `inbox_delivery` | 1 profile, 2 browsers with a tab each, 1 payment, 1 new binding, 1 dead task or overdue lease; a legacy binding with a claim still waiting is among the initial states | `PublishedKeyHeld`, `NoteNamesItsKey`, `PendingArrives` |
| `indexer` | blocks: 2 indexers, 1 claim hash, 2 blocks, 1 reorganisation, 1 cut. Queue: 3 jobs, 2 to an iteration, a cache of 2 that lives 2 ticks, a backoff of 1 or 2 ticks, 1 trouble (429, outage, error, restart) | `ReadModelTrue`, `CatchesUp`; `WatchedJobServed`, `OldestGoesFirst`; before both the statements of `MCAdmission` |
| `earn` | a tab with an Earn panel and two mounts of a claim view, or two tabs with an Earn panel; 2 transactions, 1 fault | `OnePrompt`, `NoRebroadcast`, `LedgerIsBacked`, `LedgerFollows`; before it `ReceiptMeansEarned` |
| `web_session` | session: 2 loads and 2 connections at once, 2 switches, 1 clearing. Identity: 2 pages or flows, 2 identities, keys and releases, 1 mishap. Payments: 2 blocks, notes and payments, 2 flows at once, 1 reload | `ClearedStaysCleared`, `ViewFollowsMode`, `LoadingEnds`; `KeyIsHeld`, `ProofSeesIdentity`; `ClaimIsAimed`, `ProofSeesWrites` |
| `identities` | 2 profiles, a login at Google and one at X that either may have at the start, 1 address, 2 handles, 2 requests, 2 logins linked or unlinked | `NameHasOneProfile`, `SettledIsTrue` |
| `relayer_lost_claim` | 1 worker, 1 indexer | violated: a claimed payment whose row stays funded |
| `indexer_reorg` | blocks: 1 indexer, 2 blocks, 1 reorganisation, 1 cut | violated `ReorgIsReplayed`: an event of a lost block stays in the read model |

What is decided by constants alone is stated as a named `ASSUME` and evaluated by TLC
before the run it belongs to: the two codecs over messages of 512 bytes, the search of
the quote, the path search, the judgement of every receipt of four to six events, and
the admission of routes over all the environments listed in `MCAdmission`.

Bounds.  Three claims are the fewest where two live ones can be played off against a
third; amounts below, at and above a denomination are all there; the clock passes both
sides of an expiry and the instant itself.  The messages of the router include every
pair that could collide.  Bounds on versions, balances, sent transactions and mishaps are
constraints (TLC checks the states at the rim and does not go beyond): version 5 is a
quoted intent that has been reported, confirmed, funded and claimed, delivered or
expired, and two requests are a report and its competitor; the longer walks are in
`payment`, with the indexer that is cut off.  For inbox keys the second binding row is
the one that could be confused with the first; one payment meets every request that
could touch it.  An account that changes hands needs two profiles: with `Profiles = {p1,
p2}` and no faults the invariants hold as well (5.5 million states), which is too large
an instance to be a run next to `PendingArrives`; in `inbox_delivery` an account is
taken over only by two requests of its own profile.  One send is enough for the form,
because the attempts and handlers of one run overlap and a run that was left behind
meets the form of the next as a blank form; two runs that share a form differ only in
what the observations below say.  One reorganisation may drop any number of blocks; a
second finds the same code.  Three jobs, two places in an iteration and two in the
cache are the fewest with a job that has one older in its way and one younger beside
it, and with a cache that overflows while it has an order; in the code they are ten and
a thousand.  What leaves the cache first is proved for any number.  For identities Google and
X are the two sources of one address, and change of hands, of handle and of both are two
changes from some start; profiles, requests and handles are symmetric.  Deployment was
also checked with two pools (1.04 million states) and the identity scene with more
blocks, keys and mishaps (up to 7.3 million); in the identity scene a margin of one
block stands for ten, which tells a proof that waits from one that does not.

Some variables mark what the code gives up by design or by oversight, so that the
properties beside them say what is left.  Each is set by the very step that loses
something, and each is explained under the observations.

- `Indexer.torn`: two iterations of the indexer overlapped.  `Indexer.unseen`: a
  reorganisation that no later look at the cursor tells of.  There are two kinds: inside an
  iteration, between the reading of events and of the hash that is saved with the
  cursor; and at any time, of blocks past the cursor whose events an iteration had
  projected before it broke off.  `ReadModelTrue`, its theorem and `CatchesUp` say
  nothing after either; that the code calls the read model replayable all the same is
  the violation `indexer_reorg`.
- `Earn.astray`: a transaction lost sight of, or two tabs at once.
- `WebSession.astray`: another tab has switched the network, or this one in the middle
  of an unlock.
- `PrivateIdentity.overwritten`: a vault written over a newer copy of itself.
- `PrivatePayments.blurred`: two flows of the smoke page at once.
- `Identities.raced`: two profiles past the trigger with one name.

Deadlock is checked in the runs whose system has no natural end.  Where a bound
is used up or nobody has to act any more (`escrow_pool`, `cctp_router`, those of the
relayer, `payment`, `web_session`), `CHECK_DEADLOCK FALSE` stands in the configuration.

Fairness.  `runIndexerLoop` and `runRelayerLoop` start another iteration for
ever, failed or not, hence weak fairness of an indexer's and a worker's steps
and of the requeueing of stale jobs; the chain goes on, and the lease runs out by
itself; a flow of the web app that has begun comes to an end, if only by failing,
and the lease on a pending claim runs out; a request that has been accepted is
carried on; sent transactions are mined.  The loop over the
queue goes on, a request to Iris has an answer, if only the error of a timeout, a job
whose process is gone is queued again, and time passes: `JobQueue` assumes no more, so
which job is looked at follows from the selection of `runRelayerOnce`, and whether a
burn is attested is Circle's.  `JobEnds` of `Relayer` is about a single job, which
every iteration takes; what other jobs do to it is in `JobQueue`.  In the send form every await ends, for
each has a timeout or an error, except the wallet's, which is the user's; in the web
session a restore and a load end, and Ready may never answer.  Strong fairness is
assumed of one thing only, for `JobEnds`: Iris, asked again and again, does not always
answer that it has nothing.  Nobody is assumed to send a request, to deposit, to claim, to settle
or to open the web app: `PendingArrives` is about recipients who keep coming back.

## What the violations say

`relayer_lost_claim`: `applyOnchainProjection` takes every `invalid_transition`
for an event that is over; it is also what a lost race looks like.  The cursor
goes past the event.  Two overlapping indexers lose a claim the same way.

`indexer_reorg`: the only sign of a reorganisation is the hash of the block at the
cursor (`run.ts:161`).  An iteration projects a block past the cursor and breaks off, an
RPC error is enough; the block is lost; the next iteration finds the cursor where it
was and replays nothing, so the event and the column `onchain_state` stay as the lost
block had them.  The same follows when the last block is replaced after its events were
read (`run.ts:170`) and before its hash is (`run.ts:194`), since the hash of the new
block is saved.  The comment of `runIndexerOnce` (`run.ts:148`) calls the projection
"reorg-replayable".

## Observations

Seen in the models or while translating, without a run of their own.

Settlement and workflow.  `settle` reverts when the pool refuses the claim, because
its hash is taken or its expiry has passed; nothing is minted, and nothing can
ever be, while a burn that is a little short is passed on to its owner.  Clearing a
reverted hash and leaving `destination_submitted` are two writes; after the first
alone the job fails until its attempts are used up.  The walk to `refundable` is two
updates (`recovery.ts:90`), and a sweep cut off in between leaves a row in
`expired`, which `sweepExpiredFunded` does not select.  A cancel can follow the hash
of a source transaction (`recovery.ts:115`: the hash of a projected deposit is
written without a change of version).  A job whose confirmation takes more than ten
minutes is executed by a second worker (`run.ts:322-340`), which costs a reverted
settlement at most, and a job is `failed`, not `queued`, once the relayer is out of
STRK (`run.ts:379`).  A route that is paused after a burn makes `validateSettlement`
refuse it; the token of a Stellar burn is not compared; a claim hash of 32 bytes above
the field prime passes the API and would panic in Cairo.

Indexer.  Two overlapping indexers can leave a stale `onchain_state`, since the 30
second lease is not renewed (`torn`).  A reorganisation resets the read model and not
the workflow.

Queue.  An iteration takes the ten oldest queued jobs (`run.ts:341`).  A job that waits
for Iris is put back with the `created_at` it had and uses no attempt (`run.ts:361`), so
ten burns that Iris never attests keep every younger job from its turn for ever, and
nothing ends them.  `WatchedJobServed` is therefore about a job that has fewer than
`Batch` such jobs before it; without that condition TLC finds the starvation at once.
After a 429 the cooldown is the process's and is gone with it.

Inbox keys.  Before a claim, and on a reconnect, a browser whose secret is not the
published one stores the derived secret with `setInboxSecretKey`, which drops the
secret it had (`ensure-inbox-key.ts:43`, `product-session.ts:412`, against
`privacy-state.ts:13`); a legacy secret whose upgrade was made elsewhere is lost with
its notes.  An unlink or a reclaim looks for live notes first and revokes the
binding later (`server.ts:102`, `challenge.ts:222`), so a note stored in between is left
without one.

Identities.  `enforce_identity_owner` looks for another active row in the snapshot of
its own statement and takes no lock, and the unique index that would notice at the
commit is per provider (`202608210005_multi_provider_identities.sql:18`).  A Google row
and an email row of one address, written by two syncs at once, both pass: with
`OneProfile`, which is what the comment of the migration says, instead of
`NameHasOneProfile` TLC finds two profiles within ten steps.  From then on the resolver
and the delivery throw `identity_ambiguous` for that address
(`resolver/descriptors.ts:18`, `delivery/pending.ts:25`), until one profile unlinks
it.  A sync that read the account before an unlink un-revokes the row that a newer sync
revoked, because the update sets `revoked_at` to null (`auth/sync.ts:115`);
`SettledIsTrue` is therefore about a sync that has its profile to itself.  A subject's
row belongs to its first profile for ever, so a profile that links that account later
fails its whole sync, names of its own included.  Overlapping requests can consume a
wallet challenge twice (read, not modelled).

Sending.  On Stellar the burn is sent before it is recorded, so a tab that closes in
between leaves a burn nobody knows of (`product-session.ts:836`).  A cancelled run on
mainnet that ends late clears the pending hash and busy flag of the run after it.

Web session.  `setMode` returns without updating the tab when another tab has stored
that mode already; a mode switched there and back is not noticed (`network-mode.ts`).
Unlocking sets the vault without looking at the mode, and unlocking the inbox is not
registered as a network operation, against `network-operations.ts:44`: one that is
overtaken by a switch shows the payment of the old network in the claim view of the new
(`astray`).  On mainnet a claim of it is refused (`mainnet-privacy.ts:159`), on testnet
the escrow refuses it.  Between a switch and the end of the restore that follows it the
old payment stays in view, with its skeleton ended by the load that was aborted.  After a claim
is confirmed, `assertActive` turns it into an error when another tab has switched.
Overlapping loads end each other's skeleton; overlapping refreshes of the inbox may
show rows of the other; two connections of both networks at once may cache an
address of the wrong chain.

Earn.  An equal deposit made on purpose within 30 seconds silently returns the old
hash; a transaction that was executed and whose receipt cannot be read can be sent
again; two tabs race for the ledger (`astray`).

Private identity and payments.  Two copies of the vault write the whole record
(`overwritten`), and a restore may then clear it as stale, with the viewing key of
the published identity.  The smoke page shows the secrets of a private payment only
after the receipt; a tab that dies in between leaves a payment nobody can claim or
refund.  Onboarding and the Register button together deploy two identities.  A failure
of `shieldUsdc` after the transfer leaves USDC with the identity, and a retry sends
more.  Overlapping flows can lower `minimumProofBlock` (`blurred`).

Deployment.  `buildBaseManifest` drops `vesuEarn` and evidence on every persisted
run of `declare.ts`, against `SECURITY.md:55`.  `reconcileAccepted...` takes only
`ACCEPTED_ON_L2`, so a run resumed after finality on L1, or after a reverted
transaction, throws for ever.  A kill between `deployContract` and the write of its
hash leaves an orphan, for the salt is random; `NothingPaidTwice` says that this is
the only way to pay twice.

Admission and gates.  The smoke app hashes the manifest with its hash in it, so its
exports are filed under another hash than the gate looks for (`SmokeExportsAreLost`),
against `evidence/README.md`.  The first gate opens for a deposit under the hash of an
empty field, and takes a submission for a confirmation (`GateTakesTheWord`).
`localMainnetApiEnv` keeps the testnet's relayer, and the development stack ends with
the process that cannot find it (`LocalTakesTestnetRelayer`).  A lone relayer for which
nothing is admitted signs as the deployer on mainnet (`LoneRelayerIsDeployer`), against
"Mainnet remains fail-closed on the dedicated relayer".  Writing the verdict of the
Earn gate changes the manifest's hash (`EarnVerdictIsForOneManifest`).

## What is proved

For all sets of hashes, recipients, messages, runs, loads and flows, and all values of the
numeric constants; every invariant and action property of the runs is among them,
except where "Model-checked only" says otherwise.  `RefundIndexMatches`,
`TermsAreFinal`, `DoneHasNote` and `DoneStaysDone` are proved and in no run.

- `EscrowPoolProofs`, the pool: `TypeCorrect`, `Solvency`, `RefundIndexCorrect`, `OneExitAlways`
  (the invariants of the run), `TermsFinal`, `Refinement` (`EscrowPool` implements
  `ClaimLedger`), `VaultBacked` (the ledger's own invariant, carried back).  The
  invariant that makes the induction go through has four parts besides the types:
  liability = denomination x number of live claims (with finiteness of the hashes for
  the cardinality step), balance >= liability, index and records name each other, and
  a stored refund hash goes with the kind PRIVATE.  None alone is inductive: the
  underflow assert of `release_liability` and the token's refusal only matter if the
  first two fail, and `ExactlyOneExit` needs the index to know that a private claim
  has a refund.
- `EscrowPoolProofs`, the scripts: `NothingPaidTwiceHolds`, `VerifiedIsLiveHolds`, for any
  number of pools, builds and kills.  `DeploymentInv` says of manifest and transactions
  that an entry points to a transaction for what it names, and of a run which slots it
  still may send for (`Free`) and which transactions it waits for (`InFlight`): only
  between a sending and its entry is a transaction known to nobody, and `open` marks it.
- `CctpRouterProofs`: `OneSettlementPerIntentHolds` (from `MintedIsProcessed`: what was
  minted is marked), `RouterPassesThroughHolds`, `PoolsAreEscrowsHolds`, and
  `CctpClaimsAreBurnsHolds`, from an invariant in three parts: a burn that brought
  enough has its claim, a CCTP claim has its burn, and no two burns share one.  Since
  every step of the composed system is a step or a stutter of each pool, the theorems
  about one pool hold of every pool next to the router.  `ValidatedSettlesHolds`, that
  what the API lets through is taken by the router, needs besides that no pool owes
  more than it has (`Covered`).  `QuoteIsLeastHolds` and `QuoteSurvivesHolds`: the search of
  a quote ends with the least amount that leaves the payment, and that amount does for
  any rate up to a fifth higher.
- `ApiProofs`, the row: `OnlyAllowedEdgesHolds`, `NeverAheadOfChainHolds`, `LogIsHistoryHolds`,
  `TypeCorrect`.  `BackedInv` is about everything that somebody believes, writes or aims
  at: the state of the row, the copies and targets of tasks in the middle of a walk, and
  the column each have their reason on the chain or in the time (`Backed`); the states
  a walk passes have one, too (`PlannedIsBacked`).  `HistoryInv` says that there is a history,
  a row of moves along the table, of which the log has some, and the row is its end; the
  log alone is not enough, since an entry may be missing.
- `ApiProofs`, the read model: `ReadModelTrueHolds`.  `Following` says that at most one
  iteration is past its look at the cursor, and that the read model has the chain up to
  some block (`Reached`): up to the cursor, unless that is lost, and up to the block
  before the next event of the open iteration.  A cursor that is lost stays lost,
  because a new block has a newer fork, and an event projected is among
  `chain_events` before the column is written, so a reorganisation that leaves the
  former within the cursor leaves the latter.
- `ApiProofs`, admission: for every environment, manifest, set of evidence and visit, a
  route on offer has all it rests on behind it and an admitted route is on offer
  (`RouteHasAllBehindIt`, `AdmittedRoutesAreOffered`), settlements are signed by an account
  of their own, evidence counts for one manifest, the entry points agree, the hosted
  API serves and the local one is closed; the first gate needs a helper and calls that
  were really submitted, and no export opens it.
- `RelayerProofs`: `FundedMeansSettledHolds`, for any number of workers, attempts and
  faults.  The invariant is about the time before the settlement: while the chain has no
  event of the claim, no worker, copy, row or indexer is past one.  It is silent on how
  far a walk of the table gets.
- `RelayerProofs`, the queue: `OldestGoesFirstHolds`, for any number of jobs, places and
  ticks.  The cache is sorted by age and names no burn twice (`Ordered`), and a burn that
  is being asked about has no entry (`QueueInv`).  The first needs the second: an answer
  that set a key already there would make the oldest place young, and the next to be
  dropped would not be the oldest.
- `InboxDeliveryProofs`: `PublishedKeyHeldHolds`, `NoteNamesItsKeyHolds` and
  `DoneHasNoteHolds`, for any number of profiles, accounts, browsers, tabs and payments
  (the run has one profile and one account).  A row of `wallet_bindings` belongs to one
  account for ever and its key changes at most once, from the random key of a browser to
  the derived one.  So there is a function from rows to accounts with which every row,
  every stale copy of one and every note agrees (`Generation`, `RowOK`); an insert
  extends it.  `KnowsKey` says when a task may write over the old key of its account:
  when nobody has it published, or its own profile has and is about to replace it.
- `InboxDeliveryProofs`, identities: `NameHasOneProfileHolds`, `SettledIsTrueHolds`, for any
  number of profiles, logins, names and requests.  A row never changes its profile, so what
  a request has read of it stays true (`RowsInv`, `TasksInv`).  `NameInv`: whoever is past the
  trigger with a name is alone with it, and nobody else's row has it, unless `raced`.
  `InCharge`: a request that is alone with its profile has written what it is done with,
  and knows what is left to revoke, because nobody else writes rows of that profile.
- `SendFlowProofs`: `BurnHasNoteHolds`, `HashIsKeptHolds`, `RecordedIsQueuedHolds`,
  `DoneStaysDoneHolds`, for any number of runs and attempts.  `RunInv` says of one run
  what its handlers, note, hash and burn have to do with its place; a step of another
  run or of the page leaves it alone (`GoesOn`), so the proof is about one run at a time.
- `WebSessionProofs`: `ClearedStaysClearedHolds`, which needs `DroppedBefore`, that nothing
  was dropped in a generation still to come.  `ViewFollowsModeHolds`: `FollowInv` says that,
  unless the tab went astray, vault, unlock and every load that is not aborted are of the
  tab's network (`TabAgrees`), so whatever such a load brings belongs into the view.
  `KeyIsHeldHolds` and `ProofSeesIdentityHolds` for any number of pages, flows and releases:
  `IdentityInv` says that as long as no copy of the vault was written over a newer one
  the key of a registered identity is the record's, or is on its way there with the one
  flow that may register it; that an identity known to a copy, a flow or the binding
  exists; and that a copy's block is one in which it did.  `ClaimIsAimedHolds` and
  `ProofSeesWritesHolds` of the smoke page: `PaymentsInv` has where the fields of the
  form came from, and what a flow under way remembers of both.
- `EarnProofs`: `OnePromptHolds`, `NoRebroadcastHolds`, `LedgerIsBackedHolds`,
  `LedgerFollowsHolds`, for any number of tabs, panels and transactions.  `Structure`
  says who holds the gate of a tab and who is in flight, and that what a press is about
  to send is not among the transactions the tab remembers.  `Backed` counts, next to
  the ledger, the deposits still to be written, since a hash handed out twice is
  written once.  `InSight` is for histories in which no transaction was lost sight of:
  one redemption at a time, every transaction sent is in somebody's hand, and the
  ledger is even with the shares when none is.

Assumptions are those in the modules: finitely many claim hashes, a positive
denomination, zero hash and address outside the sets (`EscrowPoolAssumption`);
positive denominations and accounts that are not each other's for the router
(`CctpRouterAssumption`); no pool of the manifest is called `router` or `anonymizer`
(`DeploymentAssumption`); disjoint sets of names, and a "nothing" that is no row, note
or account (`NothingIsNoRow`), elsewhere; TLC evaluates each of them on the instances.

Model-checked only: all liveness (`JobEnds`, `CatchesUp` twice, `PendingArrives`,
`FormComesBack`, `LoadingEnds`, `WatchedJobServed`), which like `ENABLED` is out
of the prover's reach; the codecs (`CodecsAgree`), the judgement of receipts
(`ReceiptMeansEarned`) and `pathToward` as a loop (`SearchIsRight`), which are folds
over given data.  The search of a quote and the distances behind a walk are
recursive functions over numbers: induction theorems, which take an operator, are
out of reach, and their proofs argue from the least counterexample (`WFMin`) or
write the few values out.  No run lists a type invariant: those of pool, router,
send form, web session and workflow are proved, the others are part of the
invariants above.

## Not modelled, and why

- Note cryptography and the hash functions: pure functions, taken as injections.
- Rendering: pages, skeletons, toasts, the tour of the landing page, texts of errors.
- Issuing and consuming challenges, sign-in, the look-up of a recipient.
- `IRIS_IN_FLIGHT`: the relayer's loop is the only caller of the Iris client and awaits its
  jobs one after the other, so no two requests of a process are ever under way.
- `rebuildReadModel` and `hook_codec.cairo`, which nothing calls; the fast-burn
  allowance; the balance that health reports; decimal parsing of amounts; CORS and
  body schemas.
- Row level security; uniqueness and guarded updates are in the actions that rely on them.
- The two Sepolia deployments, which save only at their end, and `scripts/ops`.
- On SN_MAIN a sync delivers no pending claims (`server.ts:80`); `InboxDelivery` is
  about the other networks.

## Plan

1. pool, ledger, proofs (done); router with proofs (done); codecs, quotes, validation
   (done);
2. table and search, workflow, relayer with its queue, indexer with reorganisations (done,
   proofs too); the composition of the last with the workflow's rows beyond `onchain_state`, for
   which `ReadModel` is made (left);
3. delivery with wallet bindings and inbox keys (done, proofs too); identities that are linked
   and unlinked (done, proofs too); challenges (left);
4. send form with idempotency, web session, Earn, private identity and payments (done,
   proofs too);
5. deployment, admission, gates, smoke (done, proofs too);
6. theorems: every invariant and action property of the runs (done); left are an abstract
   specification of the workflow's row that `IntentWorkflow` and `Relayer` both implement, and
   the decoders byte by byte.
