------------------------------ MODULE SmokeRun ------------------------------
(***************************************************************************)
(* A run of the smoke app on mainnet: the configuration it loads, the      *)
(* wallet it accepts, its five flows through the Wallet API of Ready, the  *)
(* session they leave, and the escrow calls they ask for.  The page that   *)
(* the app shows on Sepolia is PrivatePayments.                            *)
(*                                                                         *)
(*   env     what the build was given; a felt is well formed or "bad"      *)
(*   visit   the wallets that were tried, and the clicks with what the     *)
(*           user had typed and how the wallet answered                    *)
(***************************************************************************)
EXTENDS Admission, Naturals

readyManagedFlows == {"shield_register", "balances", "direct_transfer"}
escrowFlows == {"private_fund", "claim_release"}
flows == readyManagedFlows \cup escrowFlows

-----------------------------------------------------------------------------
(* The configuration.                                                      *)

loadDirectPrivacyConfig(m) == m.directPrivacy \in {"verified", "escrow"}

loadSmokeConfig(env, m) ==
    /\ env.rpc # "none" /\ "bad" \notin {env.helper, env.recipient, env.readyUsdc}
    /\ env.amount \in Nat \ {0}
    /\ m.directPrivacy # "none" => loadDirectPrivacyConfig(m)

requireDirectPrivacy(m) == ~OnMainnet(m) /\ m.directPrivacy # "none"

\* The page of a build, "none" when it does not come up.
SmokePage(env, manifests) ==
    CASE env.network \notin DOMAIN manifests -> "none"
      [] ~loadSmokeConfig(env, manifests[env.network]) -> "none"
      [] env.network = "mainnet" -> "ready"
      [] OTHER -> IF requireDirectPrivacy(manifests[env.network]) THEN "direct" ELSE "none"

-----------------------------------------------------------------------------
(* The flows.                                                              *)

assertWalletCapabilities(wallet) ==
    "starknet:walletApi" \in wallet.features /\ "0.10.3" \in wallet.api
detectCapabilities(wallet) == assertWalletCapabilities(wallet) /\ wallet.address # "none"

\* Ready is found, on the right chain, and can do what the flows need.
connectReady(wallet) == wallet.found /\ wallet.switched /\ detectCapabilities(wallet)

\* setFlowsEnabled; without a helper the escrow flows have no handler either.
Pressable(flow, env) == flow \in readyManagedFlows \/ (flow \in escrowFlows /\ env.helper # "none")

Refused(click, env) ==
    \/ click.flow = "claim_release" /\ click.secret = "none"
    \/ click.flow = "shield_register" /\ click.publicUsdc < env.amount

\* The wallet is asked for a preview, which must have an empty proof.
prepareGatedInvoke(click) == click.preview = "empty"

\* The shield that is to register the account has no preview and goes ahead
\* without one.
Submitted(click, env) ==
    /\ click.flow # "balances" /\ ~Refused(click, env)
    /\ \/ prepareGatedInvoke(click)
       \/ click.flow = "shield_register" /\ click.preview = "NOT_REGISTERED"

\* The wallet answers a submission with a hash or an error.
Succeeds(click, env) ==
    IF click.flow = "balances" THEN click.answer = "balances"
                               ELSE Submitted(click, env) /\ click.answer = "hash"

\* handle
Event(click, env) ==
    [flow |-> click.flow, status |-> IF Succeeds(click, env) THEN "ok" ELSE "error",
     transaction |-> click.flow # "balances" /\ Succeeds(click, env)]

Connection(wallet) ==
    [flow |-> "connect", status |-> IF connectReady(wallet) THEN "ok" ELSE "error",
     transaction |-> FALSE]

Pressed(visit, env) == IF \E wallet \in visit.wallets : connectReady(wallet)
                         THEN {click \in visit.clicks : Pressable(click.flow, env)} ELSE {}
SessionEvents(visit, env) ==
    {Connection(wallet) : wallet \in visit.wallets}
    \cup {Event(click, env) : click \in Pressed(visit, env)}

\* What is handed to the escrow: an empty field deposits under the hash 0x1.
Deposited(visit, env) ==
    {Or(click.commitment, "0x1") :
        click \in {c \in Pressed(visit, env) : c.flow = "private_fund" /\ Submitted(c, env)}}
ClaimedWith(visit, env) ==
    {click.secret :
        click \in {c \in Pressed(visit, env) : c.flow = "claim_release" /\ Submitted(c, env)}}

-----------------------------------------------------------------------------
(* What the session is worth.  "Refiled" is its evidence under the hash    *)
(* that the gate looks for.                                                *)

Refiled(m, visit, env) ==
    [Materialized(Exported([of |-> m, events |-> SessionEvents(visit, env)]))
        EXCEPT !.of = ManifestHash(m)]

\* A build without an escrow helper cannot open the gate, whatever is pressed
\* and whatever the wallet answers.
HelperIsNeeded(m, visit, env) ==
    OnMainnet(m) /\ env.helper = "none" => ~checkWalletEvidence(m, {Refiled(m, visit, env)})

\* The gate opens only for a visit that has asked the escrow for a deposit and
\* for a claim, through a wallet with the Wallet API of the smoke test.
GateSawEscrow(m, visit, env) ==
    OnMainnet(m) /\ checkWalletEvidence(m, {Refiled(m, visit, env)}) =>
        /\ \E wallet \in visit.wallets : connectReady(wallet)
        /\ Deposited(visit, env) # {} /\ ClaimedWith(visit, env) # {}
=============================================================================
