---------------------------- MODULE MCEscrowPool ----------------------------
(***************************************************************************)
(* The contracts of Wotta, in two scenes; a behaviour plays one of them    *)
(* and leaves the other where it began.                                    *)
(*   pool        one escrow pool, with enough claims that one can take the *)
(*               tokens of another, two refund hashes, transfers of        *)
(*               nothing, of less than, exactly and more than a            *)
(*               denomination;                                             *)
(*   deployment  the scripts that put the contracts on mainnet.            *)
(***************************************************************************)
EXTENDS EscrowPool, TLC

CONSTANTS MaxBalance,   \* bound: donations stop when the pool holds this much
          Pools, MaxBuilds, MaxKills

VARIABLES scene, manifest, sealed, mem, run, txs, open, built, kills

D == INSTANCE Deployment

ASSUME DeploymentAssumption == D!DeploymentAssumption

deployment == <<manifest, sealed, mem, run, txs, open, built, kills>>

SceneInit == /\ Init /\ D!Init
             /\ scene \in {"pool", "deployment"}

SceneNext == /\ \/ scene = "pool" /\ Next /\ UNCHANGED deployment
                \/ scene = "deployment" /\ D!Next /\ UNCHANGED vars
             /\ UNCHANGED scene

SceneSpec == SceneInit /\ [][SceneNext]_<<vars, deployment, scene>>

\* The states from which TLC goes on; every invariant is checked at the rim.
WithinBounds == balance <= MaxBalance

Hashes == Permutations(ClaimHashes) \cup Permutations(RefundHashes)

(* Of two transactions for one class or part the earlier was cut off       *)
(* between its sending and its entry in the manifest.                      *)
NothingPaidTwice == D!NothingPaidTwice

(* A manifest marked verified names contracts that exist, in the classes   *)
(* it names, bound to one another.                                         *)
VerifiedIsLive == D!VerifiedIsLive
=============================================================================
