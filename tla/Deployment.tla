----------------------------- MODULE Deployment -----------------------------
(***************************************************************************)
(* The scripts that put Wotta on Starknet mainnet and keep their account   *)
(* of it in deployments/mainnet.json: declare.ts, deploy.ts, verify.ts,    *)
(* admit-mainnet-router.ts and deploy-vesu-anonymizer.ts.  An operator runs *)
(* them one at a time and each may be killed, or end in an error, between  *)
(* two awaits; a transaction that was sent goes its way all the same.      *)
(*                                                                         *)
(* A contract is named by the transaction that deploys it.  A class is     *)
(* named by the build it was compiled in.  Fees, balances, ceilings,       *)
(* signers, the owner's address and Circle's contracts are left out: what  *)
(* they can do is to end a run.                                            *)
(***************************************************************************)
EXTENDS Naturals, Sequences, FiniteSets

CONSTANTS Pools,       \* the escrow pools of the manifest, one per denomination
          MaxBuilds,   \* bound: how often the contracts are compiled
          MaxKills     \* bound: how often a script is killed

DeploymentAssumption == /\ MaxBuilds \in Nat \ {0} /\ MaxKills \in Nat
                        /\ Pools \cap {"router", "anonymizer"} = {}

VARIABLES manifest,   \* deployments/mainnet.json
          sealed,     \* manifestHash is the hash of the rest
          mem,        \* the manifest in the memory of the running script
          run,        \* the running script, the place it is at, its transaction
          txs,        \* the deployer's transactions, in the order of their nonces
          open,       \* the routers that are not paused and admit Base and Solana
          built,      \* the build of the artifacts in contracts/target
          kills

vars == <<manifest, sealed, mem, run, txs, open, built, kills>>

Classes == {"router", "pool", "anonymizer"}
Wotta == {"router"} \cup Pools
Parts == Wotta \cup {"anonymizer"}
ClassOf(part) == IF part \in Pools THEN "pool" ELSE part

\* A transaction of the manifest: its place in txs, 0 for PENDING, and
\* whether its block is recorded.
Unsent == [tx |-> 0, block |-> FALSE]
Record == [tx : Nat, block : BOOLEAN]

Manifest == [class : [Classes -> Nat],            \* 0: UNDECLARED
             declare : [Classes -> Record],
             deploy : [Parts -> Record],
             status : [Wotta -> {"pending", "verified", "failed", "skipped"}],
             approved : SUBSET Pools,             \* approvedCctpDenominations
             verified : BOOLEAN,
             earn : BOOLEAN]                      \* there is a vesuEarn row

Idle == [script |-> "none", at |-> "idle", kind |-> "none", what |-> "none"]
At(script, place) == [Idle EXCEPT !.script = script, !.at = place]

TypeOK == /\ manifest \in Manifest /\ mem \in Manifest
          /\ sealed \in BOOLEAN
          /\ run.script \in {"none", "declare", "deploy", "verify", "vesu"}
          /\ open \subseteq DOMAIN txs
          /\ built \in 1..MaxBuilds /\ kills \in 0..MaxKills

\* A fresh manifest; the class of the anonymizer is pinned in it.
Fresh == [class |-> [c \in Classes |-> IF c = "anonymizer" THEN 1 ELSE 0],
          declare |-> [c \in Classes |-> Unsent],
          deploy |-> [p \in Parts |-> Unsent],
          status |-> [p \in Wotta |-> "pending"],
          approved |-> {}, verified |-> FALSE, earn |-> TRUE]

Init == /\ manifest = Fresh /\ mem = Fresh
        /\ sealed = TRUE
        /\ run = Idle
        /\ txs = <<>>
        /\ open = {}
        /\ built = 1
        /\ kills = 0

-----------------------------------------------------------------------------
\* The chain.
Accepted(i) == i # 0 /\ txs[i].status \in {"l2", "l1"}

\* getClassByHash
Declared(class, build) ==
    \E i \in DOMAIN txs : /\ Accepted(i) /\ txs[i].kind = "declare"
                          /\ txs[i].what = class /\ txs[i].build = build

\* getClassHashAt of the anonymizer, whose salt is fixed: one address for ever.
AnonymizerLive == \E i \in DOMAIN txs : Accepted(i) /\ txs[i].kind = "deploy"
                                                   /\ txs[i].what = "anonymizer"

\* A class can be declared once, and the anonymizer's address taken once.
Void(tx) == \/ tx.kind = "declare" /\ Declared(tx.what, tx.build)
            \/ tx.kind = "deploy" /\ tx.what = "anonymizer" /\ AnonymizerLive

Mine == \E i \in DOMAIN txs :
            /\ txs[i].status = "sent"
            /\ \A j \in 1..(i - 1) : txs[j].status # "sent"
            /\ \E s \in {"reverted"} \cup (IF Void(txs[i]) THEN {} ELSE {"l2"}) :
                   txs' = [txs EXCEPT ![i].status = s]
            /\ UNCHANGED <<manifest, sealed, mem, run, open, built, kills>>

\* Blocks reach L1 in their order.
Finalize == \E i \in DOMAIN txs :
                /\ txs[i].status = "l2"
                /\ \A j \in 1..(i - 1) : txs[j].status # "l2"
                /\ txs' = [txs EXCEPT ![i].status = "l1"]
                /\ UNCHANGED <<manifest, sealed, mem, run, open, built, kills>>

-----------------------------------------------------------------------------
\* What every script does.
Persisted(m) == manifest' = m /\ sealed' = TRUE /\ mem' = m

End == run' = Idle /\ mem' = manifest /\ UNCHANGED <<manifest, sealed>>

Start(script, place, m) ==
    /\ run = Idle
    /\ run' = At(script, place)
    /\ mem' = m
    /\ UNCHANGED <<manifest, sealed, txs, open, built, kills>>

\* The hash comes back from the node before anything is written.
Send(kind, what, build) ==
    /\ txs' = Append(txs, [kind |-> kind, what |-> what, build |-> build,
                           router |-> mem.deploy["router"].tx,
                           status |-> "sent", lost |-> FALSE])
    /\ run' = [run EXCEPT !.at = "record", !.kind = kind, !.what = what]
    /\ UNCHANGED <<manifest, sealed, mem, open, built, kills>>

Recorded(m, kind, what, record) ==
    IF kind = "declare" THEN [m EXCEPT !.declare[what] = record]
                        ELSE [m EXCEPT !.deploy[what] = record]

RecordOf(m, kind, what) == IF kind = "declare" THEN m.declare[what] ELSE m.deploy[what]

\* A mutant: the hash is only written down with the block.
RecordTx_InMemory ==
    /\ run.at = "record"
    /\ mem' = Recorded(mem, run.kind, run.what, [tx |-> Len(txs), block |-> FALSE])
    /\ run' = [run EXCEPT !.at = "wait"]
    /\ UNCHANGED <<manifest, sealed, txs, open, built, kills>>

\* persistManifest, before the script waits for the transaction.
RecordTx ==
    /\ run.at = "record"
    /\ Persisted(Recorded(mem, run.kind, run.what, [tx |-> Len(txs), block |-> FALSE]))
    /\ run' = [run EXCEPT !.at = "wait"]
    /\ UNCHANGED <<txs, open, built, kills>>

\* waitForTransaction returns for a reverted transaction too, and only the
\* anonymizer's script looks at the outcome.
Wait ==
    LET tx == RecordOf(mem, run.kind, run.what).tx IN
    /\ run.at = "wait"
    /\ txs[tx].status # "sent"
    /\ IF run.script = "vesu" /\ ~Accepted(tx)
         THEN End
         ELSE /\ Persisted(Recorded(mem, run.kind, run.what, [tx |-> tx, block |-> TRUE]))
              /\ run' = At(run.script, "next")
    /\ UNCHANGED <<txs, open, built, kills>>

\* A process that exits, whatever the reason.  A transaction whose hash was
\* not written down is lost to the manifest.
Kill ==
    /\ run # Idle
    /\ kills < MaxKills
    /\ kills' = kills + 1
    /\ End
    /\ txs' = IF run.at = "record" THEN [txs EXCEPT ![Len(txs)].lost = TRUE] ELSE txs
    /\ UNCHANGED <<open, built>>

\* An error: an RPC that fails, a balance that is too low, an estimate above
\* its ceiling, a class that turns out to be declared.  Nothing is in flight.
Fail ==
    /\ run.at \in {"reconcile", "next"}
    /\ End
    /\ UNCHANGED <<txs, open, built, kills>>

\* Blocks for transactions that were recorded and not waited for.  A receipt
\* that is not as expected ends the run, and nothing found so far is kept.
Reconcile(kind, whats, statuses, place, always) ==
    LET waiting == {w \in whats : LET r == RecordOf(mem, kind, w)
                                  IN r.tx # 0 /\ ~r.block}
        Found(m) == IF kind = "declare"
                      THEN [m EXCEPT !.declare = [w \in DOMAIN @ |->
                               IF w \in waiting THEN [@[w] EXCEPT !.block = TRUE] ELSE @[w]]]
                      ELSE [m EXCEPT !.deploy = [w \in DOMAIN @ |->
                               IF w \in waiting THEN [@[w] EXCEPT !.block = TRUE] ELSE @[w]]]
    IN IF \E w \in waiting : txs[RecordOf(mem, kind, w).tx].status \notin statuses
         THEN End
         ELSE /\ run' = [run EXCEPT !.at = place]
              /\ IF waiting # {} \/ always
                   THEN Persisted(Found(mem))
                   ELSE UNCHANGED <<manifest, sealed, mem>>

-----------------------------------------------------------------------------
\* A mutant: the verdict on the old classes stays.
BaseManifest_KeepsVerified ==
    [manifest EXCEPT !.class = [c \in Classes |-> IF c = "anonymizer" THEN 1 ELSE built],
                     !.earn = FALSE]

\* declare.ts.  The manifest is built anew from the parts it knows: the
\* Vesu row is not among them.
BaseManifest ==
    [manifest EXCEPT !.class = [c \in Classes |-> IF c = "anonymizer" THEN 1 ELSE built],
                     !.verified = FALSE,
                     !.earn = FALSE,
                     !.declare["anonymizer"] = Unsent,
                     !.deploy["anonymizer"] = Unsent]

StartDeclare == Start("declare", "reconcile", BaseManifest)

ReconcileDeclarations ==
    /\ run = At("declare", "reconcile")
    /\ Reconcile("declare", {"router", "pool"}, {"l2"}, "next", FALSE)
    /\ UNCHANGED <<txs, open, built, kills>>

Declare(class) ==
    /\ run = At("declare", "next")
    /\ mem.declare[class].tx = 0
    /\ class = "pool" => mem.declare["router"].tx # 0
    /\ ~Declared(class, mem.class[class])
    /\ Send("declare", class, mem.class[class])

FinishDeclare ==
    /\ run = At("declare", "next")
    /\ \A c \in {"router", "pool"} : mem.declare[c].tx # 0
    /\ Persisted(mem)
    /\ run' = Idle
    /\ UNCHANGED <<txs, open, built, kills>>

-----------------------------------------------------------------------------
\* deploy.ts.  assertMainnetDeployConfig is asked of the manifest.
Deployable(m) == /\ m.approved # {}
                 /\ \A c \in {"router", "pool"} : m.class[c] # 0 /\ m.declare[c].tx # 0

StartDeploy == Deployable(manifest) /\ Start("deploy", "reconcile", manifest)

ReconcileDeployments ==
    /\ run = At("deploy", "reconcile")
    /\ Reconcile("deploy", Wotta, {"l2"}, "next", TRUE)
    /\ UNCHANGED <<txs, open, built, kills>>

\* The salt is random: every deployment is a new contract.
Deploy(part) ==
    /\ run = At("deploy", "next")
    /\ mem.deploy[part].tx = 0
    /\ part \in Pools => part \in mem.approved /\ mem.deploy["router"].tx # 0
    /\ Declared(ClassOf(part), mem.class[ClassOf(part)])
    /\ Send("deploy", part, mem.class[ClassOf(part)])

FinishDeploy ==
    /\ run = At("deploy", "next")
    /\ \A p \in {"router"} \cup mem.approved : mem.deploy[p].tx # 0
    /\ Persisted(mem)
    /\ run' = Idle
    /\ UNCHANGED <<txs, open, built, kills>>

-----------------------------------------------------------------------------
\* verify.ts.
ReceiptOk(record) == record.block /\ Accepted(record.tx)

DeclarationOk(m, class) == /\ ReceiptOk(m.declare[class])
                           /\ txs[m.declare[class].tx].build = m.class[class]

ClassAtOk(m, part) == /\ ReceiptOk(m.deploy[part])
                      /\ txs[m.deploy[part].tx].build = m.class[ClassOf(part)]

RouterOk(m) == /\ DeclarationOk(m, "router")
               /\ ClassAtOk(m, "router")
               /\ m.deploy["router"].tx \in open

PoolOk(m, p) == /\ DeclarationOk(m, "pool")
                /\ ClassAtOk(m, p)
                /\ txs[m.deploy[p].tx].router = m.deploy["router"].tx

Verdict(m, part) ==
    CASE part = "router" -> IF RouterOk(m) THEN "verified" ELSE "failed"
      [] part \in m.approved -> IF PoolOk(m, part) THEN "verified" ELSE "failed"
      [] OTHER -> IF m.deploy[part].tx # 0 THEN "failed" ELSE "skipped"

Verified(m) ==
    [m EXCEPT !.status = [p \in Wotta |-> Verdict(m, p)],
              !.verified = \A p \in Wotta : Verdict(m, p) # "failed"]

StartVerify == sealed /\ Deployable(manifest) /\ Start("verify", "write", Verified(manifest))

WriteVerdict ==
    /\ run = At("verify", "write")
    /\ Persisted(mem)
    /\ run' = Idle
    /\ UNCHANGED <<txs, open, built, kills>>

-----------------------------------------------------------------------------
\* deploy-vesu-anonymizer.ts.
StartVesu == sealed /\ manifest.earn /\ Start("vesu", "reconcile", manifest)

ReconcileVesu ==
    /\ run.script = "vesu"
    /\ \/ /\ run.at = "reconcile"
          /\ Reconcile("declare", {"anonymizer"}, {"l2", "l1"}, "reconcileDeploy", FALSE)
       \/ /\ run.at = "reconcileDeploy"
          /\ Reconcile("deploy", {"anonymizer"}, {"l2", "l1"}, "check", FALSE)
    /\ UNCHANGED <<txs, open, built, kills>>

AnonymizerDeclared == Declared("anonymizer", 1)

\* What is there without a receipt in the manifest is not taken over.
CheckVesu ==
    /\ run = At("vesu", "check")
    /\ IF \/ AnonymizerDeclared /\ mem.declare["anonymizer"].tx = 0
          \/ AnonymizerLive /\ mem.deploy["anonymizer"].tx = 0
         THEN End
         ELSE run' = At("vesu", "next") /\ UNCHANGED <<manifest, sealed, mem>>
    /\ UNCHANGED <<txs, open, built, kills>>

DeclareVesu ==
    /\ run = At("vesu", "next")
    /\ ~AnonymizerDeclared
    /\ Send("declare", "anonymizer", 1)

DeployVesu ==
    /\ run = At("vesu", "next")
    /\ AnonymizerDeclared /\ mem.declare["anonymizer"].tx # 0
    /\ ~AnonymizerLive /\ mem.deploy["anonymizer"].tx = 0
    /\ Send("deploy", "anonymizer", 1)

FinishVesu ==
    /\ run = At("vesu", "next")
    /\ AnonymizerDeclared
    /\ mem.declare["anonymizer"].tx # 0 /\ mem.deploy["anonymizer"].tx # 0
    /\ End
    /\ UNCHANGED <<txs, open, built, kills>>

-----------------------------------------------------------------------------
\* admit-mainnet-router.ts: one transaction of up to three calls.
AdmitRouter ==
    LET router == manifest.deploy["router"].tx IN
    /\ run = Idle
    /\ Accepted(router) /\ router \notin open
    /\ open' = open \cup {router}
    /\ UNCHANGED <<manifest, sealed, mem, run, txs, built, kills>>

\* The owner may pause at any time.
PauseRouter == \E router \in open :
    /\ open' = open \ {router}
    /\ UNCHANGED <<manifest, sealed, mem, run, txs, built, kills>>

\* A denomination is approved by hand, which leaves the old hash in place.
Approve(p) ==
    /\ run = Idle
    /\ p \notin manifest.approved
    /\ manifest' = [manifest EXCEPT !.approved = @ \cup {p}]
    /\ mem' = manifest'
    /\ sealed' = FALSE
    /\ UNCHANGED <<run, txs, open, built, kills>>

\* sync-mainnet-manifest.ts
SyncManifest == /\ run = Idle /\ ~sealed
                /\ sealed' = TRUE
                /\ UNCHANGED <<manifest, mem, run, txs, open, built, kills>>

\* contracts:build
Build == /\ run = Idle /\ built < MaxBuilds
         /\ built' = built + 1
         /\ UNCHANGED <<manifest, sealed, mem, run, txs, open, kills>>

Scripts == \/ StartDeclare \/ ReconcileDeclarations \/ FinishDeclare
           \/ \E c \in {"router", "pool"} : Declare(c)
           \/ StartDeploy \/ ReconcileDeployments \/ FinishDeploy
           \/ \E p \in Wotta : Deploy(p)
           \/ StartVerify \/ WriteVerdict
           \/ StartVesu \/ ReconcileVesu \/ CheckVesu
           \/ DeclareVesu \/ DeployVesu \/ FinishVesu
           \/ RecordTx \/ Wait \/ Fail \/ Kill

Next == \/ Scripts \/ Mine \/ Finalize
        \/ AdmitRouter \/ PauseRouter \/ SyncManifest \/ Build
        \/ \E p \in Pools : Approve(p)

Spec == Init /\ [][Next]_vars

-----------------------------------------------------------------------------
(* Nothing is sent twice: of two transactions for the same class or part   *)
(* the earlier one was cut off between its sending and its entry in the    *)
(* manifest.  The scripts are run again after every death, error and build *)
(* ("a resumed submit run must never pay twice", declare.ts).              *)
NothingPaidTwice ==
    \A i, j \in DOMAIN txs :
        (i < j /\ txs[i].kind = txs[j].kind /\ txs[i].what = txs[j].what) => txs[i].lost

(* A manifest that is marked verified names contracts that exist, in the   *)
(* classes it names, every verified pool bound to the router of the same   *)
(* manifest, whatever was killed, reverted, built or declared since: the   *)
(* API and the web app take addresses from it on that word.                *)
VerifiedIsLive ==
    manifest.verified =>
        /\ ClassAtOk(manifest, "router")
        /\ \A p \in Pools : manifest.status[p] = "verified" =>
               /\ ClassAtOk(manifest, p)
               /\ txs[manifest.deploy[p].tx].router = manifest.deploy["router"].tx
=============================================================================
