------------------------------ MODULE Admission ------------------------------
(***************************************************************************)
(* Which routes an API process offers, and what has to be in place for it  *)
(* to start: loadConfig and the assertions of apps/api/src/config.ts, the  *)
(* three entry points that run them, routesForConfig, the gates of         *)
(* scripts/gates and the environments that the scripts write.              *)
(*                                                                         *)
(* Everything here is a function of what the operator hands to a process:  *)
(*   env       the environment variables                                   *)
(*   m         the deployment manifest                                     *)
(*   kept      the evidence files                                          *)
(*   accounts  the account contracts, as <<network, address>>              *)
(* An RPC URL is its host and what answers there.  The hash of a manifest  *)
(* is the manifest: two of them have one hash only if they are the same.   *)
(***************************************************************************)
EXTENDS FiniteSets

EnvNames == {"network", "rpc", "mainnetRpc", "fallback", "sourceRpc", "admitted", "paused",
             "runIndexer", "runRelayer", "privateAdmitted", "force",
             "relayer", "mainnetRelayer", "deployer", "keystore"}

NoUrl == [host |-> "none", answers |-> "none"]
NoAccount == [address |-> "none", key |-> "none"]

MainnetRoutes == {"base", "solana"}
CctpRoutes == {"ethereum", "arbitrum", "base", "solana", "stellar"}
Supported(network) == IF network = "mainnet" THEN MainnetRoutes ELSE CctpRoutes

-----------------------------------------------------------------------------
(* Evidence.  "of" is the manifest hash in the file and in its path,       *)
(* "sound" that every other field is as it should be.                      *)

ManifestHash(m) == [whole |-> FALSE, of |-> m]

\* hashManifest of the smoke app hashes the file as it is, and so with the
\* manifestHash in it.
hashManifest(m) == [whole |-> TRUE, of |-> m]

OnMainnet(m) == m.network = "mainnet"
Approved(m) == m.approved \cap DOMAIN m.pools
AllVerified(m, pools) == \A d \in pools : m.pools[d].status = "verified"

verifyStarknetPrivateEvidence(m, kept) ==
    \E e \in kept : /\ e.name = <<"starknet-private", "mainnet">>
                    /\ e.of = ManifestHash(m) /\ e.sound
                    /\ e.denomination \in Approved(m)
                    /\ m.pools[e.denomination].status = "verified"

\* checkRouteEvidence of the second gate, and of the third.
RouteEvidence(m, kept, route, network) ==
    \E e \in kept : /\ e.name = <<"cctp", route, network>> /\ e.of = ManifestHash(m) /\ e.sound
                    /\ e.denomination \in DOMAIN m.pools

SmokeFlows(network) ==
    {"connect", "balances", "direct_transfer", "private_fund", "claim_release"} \cup
    (IF network = "sepolia" THEN {"register_identity", "shield_register", "private_refund"} ELSE {})

\* The session of a smoke run with the manifest "of".
Exported(smoke) == [hash |-> hashManifest(smoke.of), events |-> smoke.events]

\* materialize-wallet-api-evidence.mjs files a session under the hash it has.
Materialized(session) == [name |-> <<"phase1-wallet-api">>, of |-> session.hash, sound |-> TRUE,
                          denomination |-> "none", events |-> session.events]

WalletEvidence(m, kept) ==
    {e \in kept : e.name = <<"phase1-wallet-api">> /\ e.of = ManifestHash(m)}

checkWalletEvidence(m, kept) ==
    \E e \in WalletEvidence(m, kept) :
        LET successful == {event \in e.events : event.status = "ok"}
        IN  /\ e.sound /\ SmokeFlows(m.network) \subseteq {event.flow : event \in successful}
            /\ SmokeFlows(m.network) \ {"connect", "balances"} \subseteq
                  {event.flow : event \in {ok \in successful : ok.transaction}}

IdentityEvidence(m, kept) ==
    \A name \in {<<"phase2-identity", "checklist">>, <<"phase2-identity", "migrations">>} :
        \E e \in kept : e.name = name /\ e.of = ManifestHash(m) /\ e.sound

\* tests: the builds, the test suites and the documents of a gate are there.
Gate1(m, kept, tests) == tests /\ checkWalletEvidence(m, kept)

\* phase1-live-smoke.ts, which looks only for the files and does without the
\* tests of the contracts where scarb is missing.
LiveSmoke(m, kept, scarb, tests) == OnMainnet(m) /\ (scarb => tests) /\ WalletEvidence(m, kept) # {}

Gate2(m, kept, tests, env) == /\ tests /\ env.admitted # {} /\ env.admitted \subseteq CctpRoutes
                              /\ \A r \in env.admitted : RouteEvidence(m, kept, r, "sepolia")
                              /\ IdentityEvidence(m, kept)
Gate3(m, kept, tests) == /\ tests /\ verifyStarknetPrivateEvidence(m, kept)
                         /\ \A r \in MainnetRoutes : RouteEvidence(m, kept, r, "mainnet")
Gate4(tests) == tests

\* vesu-earn-check.ts.  "placed" is that the anonymizer is deployed in the
\* pinned class, with both transactions and blocks in the manifest.
EarnGate(m, kept) ==
    /\ m.sealed /\ m.network = "mainnet"
    /\ m.earn.status \in {"pending", "verified", "withdraw_only"} /\ m.earn.placed
    /\ \A name \in {<<"vesu-earn", "anonymizer-source-parity">>, <<"vesu-earn", "smoke">>} :
          \E e \in kept : e.name = name /\ e.of = ManifestHash(m) /\ e.sound

\* verify-anonymizer-source.ts, which fails only once the report is written.
\* "built" are the hashes that the pinned source builds to.
ParityStarts(m, scarb, vendored) ==
    scarb = "2.17.0" /\ m.sealed /\ m.earn.hashes \notin {"none", "PENDING"} /\ vendored
ParityRecorded(m, built, pin) ==
    [name |-> <<"vesu-earn", "anonymizer-source-parity">>, of |-> ManifestHash(m),
     sound |-> built = pin /\ built = m.earn.hashes, denomination |-> "none"]

\* record-vesu-smoke.ts: receipts that are in order, under the hash of the day.
SmokeRecorded(m) == [name |-> <<"vesu-earn", "smoke">>, of |-> ManifestHash(m),
                     sound |-> m.sealed /\ m.earn.placed, denomination |-> "none"]

-----------------------------------------------------------------------------
(* loadConfig                                                              *)

\* STARKNET_MAINNET_RELAYER_* fills what STARKNET_RELAYER_* leaves open, the
\* address and the key each on its own; last comes the key in a keystore.
Or(field, other) == IF field = "none" THEN other ELSE field
relayer(env) == [address |-> Or(env.relayer.address, env.mainnetRelayer.address),
                 key |-> Or(Or(env.relayer.key, env.mainnetRelayer.key), env.keystore)]

forceAdmit(env) == env.network = "mainnet" /\ env.force

SourceRpcsGiven(env) ==
    /\ "base" \in env.admitted => env.sourceRpc["base"] # NoUrl
    /\ "solana" \in env.admitted => /\ env.sourceRpc["solana"] # NoUrl
                                    /\ env.sourceRpc["solana"].host = "public" => forceAdmit(env)

starknetPrivateEvidenceVerified(env, m, kept) ==
    forceAdmit(env) \/ (OnMainnet(m) /\ verifyStarknetPrivateEvidence(m, kept))

loadConfig(env, m, kept) ==
    /\ m.sealed /\ m.network = env.network
    /\ env.admitted \subseteq Supported(m.network)
    /\ OnMainnet(m) => /\ SourceRpcsGiven(env)
                       /\ env.privateAdmitted => starknetPrivateEvidenceVerified(env, m, kept)

-----------------------------------------------------------------------------
(* The assertions                                                          *)

assertStarknetRpcNetwork(env, m) == env.rpc.answers = m.network

\* Routes whose source chain has answered as itself; none unless all have.
SourcesAnswer(env) == \A r \in env.admitted : env.sourceRpc[r].answers = r
runtimeVerifiedCctpRoutes(env, m) ==
    IF OnMainnet(m) /\ SourcesAnswer(env) THEN env.admitted ELSE {}
assertMainnetSourceRpcNetworks(env, m) == OnMainnet(m) => SourcesAnswer(env)

WorkersRequested(env) == env.runIndexer \/ env.runRelayer \/ env.privateAdmitted

assertMainnetFallbackRpcNetwork(env, m) ==
    OnMainnet(m) /\ WorkersRequested(env) =>
        env.fallback # NoUrl /\ env.fallback.answers = "mainnet"

deployerAddress(env, m) == Or(env.deployer.address, m.deployer)

\* A key is a felt, hex that is too long for one, or no hex at all.
RelayerIsSeparate(env, m) ==
    /\ relayer(env).address # "none" /\ relayer(env).key = "felt"
    /\ relayer(env).address # deployerAddress(env, m)

ContractsVerified(m) == /\ m.verified /\ m.router.status = "verified"
                        /\ Approved(m) # {} /\ AllVerified(m, Approved(m))

cctpWorkersRequested(env) == env.runRelayer \/ env.admitted # {}

assertMainnetWorkerReadiness(env, m) ==
    OnMainnet(m) =>
        /\ ContractsVerified(m)
        /\ cctpWorkersRequested(env) \/ env.privateAdmitted =>
              /\ env.runIndexer
              /\ env.fallback # NoUrl /\ env.rpc.host # env.fallback.host
        /\ cctpWorkersRequested(env) =>
              /\ env.admitted # {} /\ env.runRelayer
              /\ RelayerIsSeparate(env, m)
              /\ env.admitted \subseteq runtimeVerifiedCctpRoutes(env, m)

-----------------------------------------------------------------------------
(* resolveRelayerCredentials: the account that will pay for settlements.   *)

Usable(account) == account.address # "none" /\ account.key \in {"felt", "long"}
Candidates(env, m) ==
    LET first == IF Usable(relayer(env)) THEN {relayer(env).address} ELSE {}
    IN  [first |-> first,
         second |-> IF Usable(env.deployer) /\ (first = {} \/ ~OnMainnet(m))
                      THEN {env.deployer.address} ELSE {}]

resolveRelayerCredentials(env, m, accounts) ==
    LET Deployed(candidates) == {a \in candidates : <<m.network, a>> \in accounts}
        found == Candidates(env, m)
    IN  IF Deployed(found.first) # {} THEN Deployed(found.first) ELSE Deployed(found.second)

relayerReadiness(env, m, accounts) == resolveRelayerCredentials(env, m, accounts) # {}

-----------------------------------------------------------------------------
(* The entry points.                                                       *)

Checked(env, m, kept) == /\ loadConfig(env, m, kept)
                         /\ assertStarknetRpcNetwork(env, m)
                         /\ assertMainnetSourceRpcNetworks(env, m)

WorkersChecked(env, m) == /\ assertMainnetWorkerReadiness(env, m)
                          /\ assertMainnetFallbackRpcNetwork(env, m)

\* server.ts
Boots(env, m, kept, accounts) ==
    /\ Checked(env, m, kept)
    /\ WorkersRequested(env) => WorkersChecked(env, m)
    /\ env.runRelayer => relayerReadiness(env, m, accounts)

\* indexer.ts and relayer.ts, which are told by no flag that they are to run.
IndexerBoots(env, m, kept) == Checked(env, m, kept) /\ WorkersChecked(env, m)
RelayerBoots(env, m, kept, accounts) == /\ IndexerBoots(env, m, kept)
                                        /\ relayerReadiness(env, m, accounts)

-----------------------------------------------------------------------------
(* routesForConfig                                                         *)

cctpPoolsForConfig(m) == IF OnMainnet(m) THEN Approved(m) ELSE DOMAIN m.pools
verifiedEscrowPoolsForConfig(m) ==
    {d \in cctpPoolsForConfig(m) : m.pools[d].status = "verified" /\ m.pools[d].live}

starknetEscrowInboxReady(env, m, kept) ==
    /\ OnMainnet(m) /\ m.verified /\ m.router.status = "verified" /\ m.walletPrivacy
    /\ env.runIndexer /\ env.privateAdmitted /\ starknetPrivateEvidenceVerified(env, m, kept)
    /\ verifiedEscrowPoolsForConfig(m) # {}

cctpReady(m) == /\ OnMainnet(m) => m.verified
                /\ m.router.status = "verified" /\ m.router.live
                /\ cctpPoolsForConfig(m) # {} /\ AllVerified(m, cctpPoolsForConfig(m))

Offered(route, env, m) ==
    /\ route \in Supported(m.network) \ env.paused
    /\ cctpReady(m) /\ route \in env.admitted
    /\ OnMainnet(m) => /\ env.runIndexer /\ env.runRelayer
                       /\ route \in runtimeVerifiedCctpRoutes(env, m)

routesForConfig(env, m, kept) ==
    {route \in CctpRoutes : Offered(route, env, m)} \cup
    (IF ~OnMainnet(m) /\ cctpReady(m) THEN {"starknet-public"} ELSE {}) \cup
    (IF \/ starknetEscrowInboxReady(env, m, kept)
        \/ ~OnMainnet(m) /\ m.directPrivacy = "escrow" /\ cctpReady(m)
       THEN {"starknet-private"} ELSE {})

\* What /v1/routes says of the contracts, and check-mainnet-api.mjs of that.
Escrows(m) == IF m.router.status = "verified" THEN verifiedEscrowPoolsForConfig(m) ELSE {}
ReleaseIsServed(local, hosted) ==
    /\ OnMainnet(local) /\ local.verified /\ hosted = local
    /\ hosted.router.status = "verified"
    /\ Escrows(hosted) = {d \in Approved(local) : local.pools[d].status = "verified"}

-----------------------------------------------------------------------------
(* The environments that scripts write, out of the operator's .env.        *)

\* sync-production-env.mjs; an account it does not write is not there.
Picked(account, other) == [address |-> Or(account.address, other.address),
                           key |-> Or(account.key, other.key)]
mainnetApi(dot) ==
    [dot EXCEPT !.network = "mainnet", !.rpc = dot.mainnetRpc,
                !.force = TRUE, !.privateAdmitted = TRUE, !.admitted = MainnetRoutes,
                !.runIndexer = TRUE, !.runRelayer = TRUE,
                !.relayer = Picked(dot.mainnetRelayer, dot.relayer),
                !.mainnetRelayer = NoAccount, !.deployer = NoAccount, !.keystore = "none"]
testnetApi(dot) ==
    [dot EXCEPT !.network = "sepolia", !.force = FALSE, !.privateAdmitted = FALSE,
                !.admitted = IF dot.admitted = {} THEN CctpRoutes ELSE dot.admitted,
                !.runIndexer = TRUE, !.runRelayer = TRUE, !.paused = {}, !.fallback = NoUrl,
                !.relayer = Picked(dot.relayer, dot.deployer), !.mainnetRelayer = NoAccount,
                !.keystore = "none"]

\* required and pick: what the script refuses to go on without.
Complete(dot) ==
    /\ NoUrl \notin {dot.rpc, dot.mainnetRpc, dot.fallback,
                     dot.sourceRpc["base"], dot.sourceRpc["solana"]}
    /\ "none" \notin {mainnetApi(dot).relayer.address, mainnetApi(dot).relayer.key,
                      dot.deployer.address, dot.deployer.key}

\* localMainnetApiEnv, over the .env that dev.ts hands down.
localMainnetApiEnv(dot) ==
    [dot EXCEPT !.network = "mainnet", !.rpc = dot.mainnetRpc,
                !.privateAdmitted = dot.force, !.runIndexer = dot.force, !.runRelayer = dot.force,
                !.admitted = IF dot.force THEN MainnetRoutes ELSE {}]

\* dev.ts brings its services up together: one that ends takes the rest along.
StackStays(dot, m, mainnet, kept, accounts) ==
    /\ Boots(dot, m, kept, accounts) /\ IndexerBoots(dot, m, kept)
    /\ RelayerBoots(dot, m, kept, accounts)
    /\ Boots(localMainnetApiEnv(dot), mainnet, kept, accounts)

-----------------------------------------------------------------------------
(* What the operator may rely on.                                          *)

\* A mainnet process offers a route only with everything behind it: the
\* verified contracts, its own indexer, an independent fallback RPC on the
\* right network; and for a CCTP route its own relayer, which is not the
\* deployer, and a source RPC that has answered as that chain.
EnabledIsServed(env, m, kept, accounts) ==
    Boots(env, m, kept, accounts) /\ OnMainnet(m) =>
        \A route \in routesForConfig(env, m, kept) :
            /\ env.runIndexer /\ ContractsVerified(m)
            /\ env.rpc.answers = "mainnet" /\ env.fallback.answers = "mainnet"
            /\ env.rpc.host # env.fallback.host
            /\ route # "starknet-private" => /\ env.runRelayer /\ RelayerIsSeparate(env, m)
                                             /\ env.sourceRpc[route].answers = route

\* What was admitted and not paused is on offer once the workers have started:
\* no mainnet process comes up with a worker and a route missing.
AdmittedIsOffered(env, m, kept, accounts) ==
    Boots(env, m, kept, accounts) /\ OnMainnet(m) /\ WorkersRequested(env) /\ m.router.live =>
        env.admitted \ env.paused \subseteq routesForConfig(env, m, kept)

\* Settlements on mainnet are paid for by the dedicated account alone.
SignerIsDedicated(env, m, kept, accounts) ==
    Boots(env, m, kept, accounts) /\ OnMainnet(m) /\ env.runRelayer =>
        /\ resolveRelayerCredentials(env, m, accounts) = {relayer(env).address}
        /\ relayer(env).address # deployerAddress(env, m)

\* Evidence is good for one manifest.  Once the manifest has changed, the
\* escape hatch apart, private sends are closed, and a process that is to
\* admit them does not start.
EvidenceIsBound(env, m, kept, accounts) ==
    OnMainnet(m) /\ ~env.force /\ (\A e \in kept : e.of # ManifestHash(m)) =>
        /\ "starknet-private" \notin routesForConfig(env, m, kept)
        /\ env.privateAdmitted => ~Boots(env, m, kept, accounts)

\* With one environment the API and the relayer process start together.
EntryPointsAgree(env, m, kept, accounts) ==
    env.runRelayer => (Boots(env, m, kept, accounts) <=> RelayerBoots(env, m, kept, accounts))

\* The local mainnet API is closed unless the escape hatch is open.
ClosedStaysClosed(dot, m, kept) ==
    OnMainnet(m) /\ ~dot.force => routesForConfig(localMainnetApiEnv(dot), m, kept) = {}

\* The hosted mainnet API comes up from a complete .env whose providers and
\* relayer are in order, with every route that is not paused on offer.
HostedServes(dot, m, kept, accounts) ==
    LET env == mainnetApi(dot)
    IN  /\ Complete(dot) /\ OnMainnet(m) /\ m.sealed /\ ContractsVerified(m) /\ m.router.live
        /\ env.rpc.answers = "mainnet" /\ env.fallback.answers = "mainnet"
        /\ env.rpc.host # env.fallback.host
        /\ SourcesAnswer(env) /\ RelayerIsSeparate(env, m)
        /\ <<"mainnet", env.relayer.address>> \in accounts
        => /\ Boots(env, m, kept, accounts)
           /\ MainnetRoutes \ dot.paused \subseteq routesForConfig(env, m, kept)

\* The gate for Earn speaks of the manifest it has read.  Once its verdict is
\* written into the status, the evidence it rested on does not count.
EarnVerdictIsSpent(m, kept, status) ==
    EarnGate(m, kept) /\ status # m.earn.status /\ (\A e \in kept : e.of = ManifestHash(m)) =>
        ~EarnGate([m EXCEPT !.earn.status = status], kept)

\* No export of the smoke app opens the first gate: it carries the hash of
\* the file, and the gate looks for the manifest's.
ExportsAreLost(m, smokes) ==
    ~checkWalletEvidence(m, {Materialized(Exported(smoke)) : smoke \in smokes})
=============================================================================
