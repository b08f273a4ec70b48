----------------------------- MODULE MCAdmission -----------------------------
(***************************************************************************)
(* Admission and SmokeRun on an instance: one pool, three accounts, the    *)
(* URLs and flags an operator can get wrong, and every short visit to the  *)
(* smoke page.  Their statements are proved in ApiProofs; here they are    *)
(* met with configurations that start.                                     *)
(***************************************************************************)
EXTENDS SmokeRun

Url(host, answers) == [host |-> host, answers |-> answers]
Main(host) == Url(host, "mainnet")
Account(name) == [address |-> name, key |-> "felt"]

Manifest(network, status, approved, verified) ==
    [network |-> network, sealed |-> TRUE, verified |-> verified, deployer |-> "deployer",
     router |-> [status |-> status, live |-> TRUE],
     pools |-> [d \in {"1"} |-> [status |-> status, live |-> TRUE]],
     approved |-> approved, walletPrivacy |-> network = "mainnet", directPrivacy |-> "none",
     earn |-> [status |-> IF network = "mainnet" THEN "pending" ELSE "none", placed |-> TRUE,
              hashes |-> "pin"]]

Good == Manifest("mainnet", "verified", {"1"}, TRUE)
Changed == [Good EXCEPT !.walletPrivacy = FALSE]
Manifests == {Good, Changed, Manifest("mainnet", "pending", {"1"}, TRUE),
                    Manifest("mainnet", "verified", {}, TRUE),
                    Manifest("mainnet", "verified", {"1"}, FALSE),
                    Manifest("sepolia", "verified", {}, TRUE)}

PrivateEvidence(m) == [name |-> <<"starknet-private", "mainnet">>, of |-> ManifestHash(m),
                             sound |-> TRUE, denomination |-> "1"]
Kept == {{}, {PrivateEvidence(Good)}}
Accounts == {{}, {<<"mainnet", "relayer">>, <<"mainnet", "deployer">>, <<"sepolia", "tester">>}}

Sources(base, solana, host) ==
    [r \in MainnetRoutes |-> IF r = "base" THEN Url("own", base) ELSE Url(host, solana)]

Envs ==
    [network : {"mainnet", "sepolia"}, rpc : {Main("a"), Url("a", "sepolia")},
     mainnetRpc : {Main("a")},
     fallback : {NoUrl, Main("a"), Main("b"), Url("b", "sepolia")},
     sourceRpc : {Sources("base", "solana", "own"), Sources("base", "solana", "public"),
                  Sources("base", "base", "own")},
     admitted : {{}, {"base"}, {"base", "solana"}}, paused : {{}, {"base"}},
     runIndexer : BOOLEAN, runRelayer : BOOLEAN, privateAdmitted : BOOLEAN, force : BOOLEAN,
     relayer : {NoAccount, Account("tester")},
     mainnetRelayer : {NoAccount, Account("relayer"), Account("deployer")},
     deployer : {NoAccount, Account("deployer")}, keystore : {"none"}]

\* Every statement of Admission, for every one of these configurations.
ASSUME AdmissionHolds ==
    \A m \in Manifests, kept \in Kept, env \in Envs :
        loadConfig(env, m, kept) =>
            \A accounts \in Accounts :
                /\ EnabledIsServed(env, m, kept, accounts)
                /\ AdmittedIsOffered(env, m, kept, accounts)
                /\ SignerIsDedicated(env, m, kept, accounts)
                /\ EvidenceIsBound(env, m, kept, accounts)
                /\ EntryPointsAgree(env, m, kept, accounts)

\* What an operator's .env may hold: the relayer of the testnet, of mainnet,
\* or both, beside the deployer of the testnet.
DotEnvs ==
    {env \in Envs : /\ env.network = "sepolia" /\ env.rpc = Url("a", "sepolia")
                    /\ env.deployer = Account("deployer") /\ env.admitted = {}
                    /\ env.runIndexer /\ env.runRelayer /\ ~env.privateAdmitted}

ASSUME ScriptsHold ==
    \A m \in Manifests, kept \in Kept, dot \in DotEnvs, accounts \in Accounts :
        ClosedStaysClosed(dot, m, kept) /\ HostedServes(dot, m, kept, accounts)

\* The statements are not empty: with evidence and without the escape hatch,
\* and with it, a process starts that offers every route of mainnet.
ASSUME EverythingCanBeOffered ==
    \A force \in BOOLEAN :
        \E env \in Envs, kept \in Kept, accounts \in Accounts :
            /\ env.force = force
            /\ Boots(env, Good, kept, accounts)
            /\ routesForConfig(env, Good, kept) = MainnetRoutes \cup {"starknet-private"}

\* An .env with a relayer for each network serves both hosted APIs.  The
\* local mainnet API takes the testnet's, does not find it and ends, and the
\* development stack ends with it.
ASSUME LocalTakesTestnetRelayer ==
    LET Sepolia == Manifest("sepolia", "verified", {}, TRUE)
    IN  \E dot \in DotEnvs, accounts \in Accounts :
            /\ dot.force
            /\ Boots(mainnetApi(dot), Good, {}, accounts)
            /\ Boots(testnetApi(dot), Sepolia, {}, accounts)
            /\ Boots(dot, Sepolia, {}, accounts)
            /\ ~StackStays(dot, Sepolia, Good, {}, accounts)

\* A relayer process of its own, for which nothing was admitted and no relayer
\* was given, signs as the deployer on mainnet.
ASSUME LoneRelayerIsDeployer ==
    \E env \in Envs, accounts \in Accounts :
        /\ RelayerBoots(env, Good, {}, accounts)
        /\ resolveRelayerCredentials(env, Good, accounts) = {Good.deployer}

\* Visits to the Ready page of the smoke app: every flow is pressed once, with
\* or without what it needs, and the wallet answers in order or not.
SmokeEnv(helper) == [network |-> "mainnet", rpc |-> "url", helper |-> helper, recipient |-> "none",
                     readyUsdc |-> "none", amount |-> 2]
Wallet(api) == [found |-> TRUE, switched |-> TRUE, features |-> {"starknet:walletApi"},
                api |-> api, address |-> "ready"]
Clicks(commitment, secret, preview, usdc, answer) ==
    {[flow |-> flow, commitment |-> commitment, secret |-> secret, publicUsdc |-> usdc,
      preview |-> IF flow = "shield_register" THEN "NOT_REGISTERED" ELSE preview,
      answer |-> IF flow = "balances" THEN "balances" ELSE answer] : flow \in flows}
Visits ==
    {[wallets |-> {Wallet(api)}, clicks |-> Clicks(commitment, secret, preview, usdc, answer)] :
        api \in {{"0.9"}, {"0.9", "0.10.3"}},
        commitment \in {"none", "c"}, secret \in {"none", "s"},
        preview \in {"empty", "full", "NOT_REGISTERED"}, usdc \in {1, 2},
        answer \in {"hash", "error"}}

ASSUME SmokeHolds ==
    \A m \in Manifests, visit \in Visits, helper \in {"none", "felt"} :
        HelperIsNeeded(m, visit, SmokeEnv(helper)) /\ GateSawEscrow(m, visit, SmokeEnv(helper))

\* No smoke run of this manifest or of another opens the first gate, and the
\* same run filed under the manifest's hash would.
ASSUME SmokeRunsAreLost ==
    LET env == SmokeEnv("felt")
        smokes == {[of |-> m, events |-> SessionEvents(visit, env)] :
                      m \in Manifests, visit \in Visits}
    IN  \A m \in {Good, Changed} :
            /\ SmokePage(env, [mainnet |-> m]) = "ready"
            /\ ExportsAreLost(m, smokes)
            /\ \E visit \in Visits : Gate1(m, {Refiled(m, visit, env)}, TRUE)

\* The gate takes the wallet's word: it opens for a visit whose deposit went
\* under the hash of an empty field, of which nobody has the secret, and the
\* live smoke test passes for a visit in which nothing was submitted.
ASSUME GateTakesTheWord ==
    LET env == SmokeEnv("felt")
    IN  /\ \E visit \in Visits : /\ Deposited(visit, env) = {"0x1"}
                                 /\ Gate1(Good, {Refiled(Good, visit, env)}, TRUE)
        /\ \E visit \in Visits : /\ \A click \in visit.clicks : ~Submitted(click, env)
                                 /\ LiveSmoke(Good, {Refiled(Good, visit, env)}, FALSE, FALSE)

\* Earn: the gate opens for a manifest whose row is pending, and not for the
\* same one with the verdict in it before the smoke is recorded again.
ASSUME EarnIsRecordedTwice ==
    LET Parity(m) == ParityRecorded(m, "pin", "pin")
        Verified == [Good EXCEPT !.earn.status = "verified"]
        first == {Parity(Good), SmokeRecorded(Good)}
    IN  /\ ParityStarts(Good, "2.17.0", TRUE)
        /\ ~EarnGate(Good, {ParityRecorded(Good, "other", "pin"), SmokeRecorded(Good)})
        /\ EarnGate(Good, first) /\ EarnVerdictIsSpent(Good, first, "verified")
        /\ ~EarnGate(Verified, first \cup {Parity(Verified)})
        /\ EarnGate(Verified, first \cup {Parity(Verified), SmokeRecorded(Verified)})

\* What a worker starts on passes the release check, and against it alone.
ASSUME ReleasesAreTold ==
    \A local \in Manifests, hosted \in Manifests :
        ReleaseIsServed(local, hosted) => hosted = local /\ Escrows(hosted) = Approved(local)

\* The second gate opens for evidence of every admitted route, and the third
\* for what the private route needs at start.
ASSUME GatesOpen ==
    LET m == Manifest("sepolia", "verified", {}, TRUE)
        Route(manifest, r, network) == [name |-> <<"cctp", r, network>>, sound |-> TRUE,
                                        of |-> ManifestHash(manifest), denomination |-> "1"]
        Identity(name) == [name |-> name, of |-> ManifestHash(m), sound |-> TRUE,
                           denomination |-> "none"]
        second == {Route(m, "base", "sepolia"), Identity(<<"phase2-identity", "checklist">>),
                   Identity(<<"phase2-identity", "migrations">>)}
        third == {Route(Good, r, "mainnet") : r \in MainnetRoutes} \cup {PrivateEvidence(Good)}
    IN  /\ \A env \in Envs : Gate2(m, second, TRUE, env) <=> env.admitted = {"base"}
        /\ Gate3(Good, third, Gate4(TRUE)) /\ ~Gate3(Changed, third, TRUE)
        /\ \A env \in Envs : loadConfig([env EXCEPT !.privateAdmitted = FALSE], Good, third) =>
                                loadConfig(env, Good, third)
=============================================================================
