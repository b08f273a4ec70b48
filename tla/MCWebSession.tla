---------------------------- MODULE MCWebSession ----------------------------
(***************************************************************************)
(* What a page keeps of a session and of its private account, in three     *)
(* scenes; a behaviour plays one of them and leaves the others where they  *)
(* began.                                                                  *)
(*   session   a tab of the web app, two loads and two connections at      *)
(*             once: what a switch leaves behind and what takes its place; *)
(*   identity  two dialogs of the web app with a copy of the vault each,   *)
(*             or two flows of the smoke app on one copy;                  *)
(*   payments  the buttons of the smoke app, two of them busy at once.     *)
(***************************************************************************)
EXTENDS WebSession, TLC

CONSTANTS f1, f2, v1, v2, Flows, Copies, Apps,
          Margin, MaxHead, MaxIdentities, MaxKeys, MaxReleases, MaxProofs, MaxMishaps,
          MaxBlock, MaxNotes, MaxPayments, MaxReloads, MaxRunning, PublicFunds

VARIABLES scene,
          app, head, identities, release, record, copy, flow, binding, affords, keys,
          overwritten, mishaps,
          block, public, parked, notes, payments, known, page, running, blurred, reloads

I == INSTANCE PrivateIdentity
P == INSTANCE PrivatePayments

ASSUME PrivateAssumption == I!PrivateIdentityAssumption /\ P!PrivatePaymentsAssumption

identity == <<app, head, identities, release, record, copy, flow, binding, affords, keys,
              overwritten, mishaps>>
private == <<block, public, parked, notes, payments, known, page, running, blurred, reloads>>
all == <<vars, identity, private, scene>>

WebApp == [name |-> "web", copyOf |-> (f1 :> v1) @@ (f2 :> v2)]
SmokeApp == [name |-> "smoke", copyOf |-> (f1 :> v1) @@ (f2 :> v1)]
MCApps == {WebApp, SmokeApp}

SceneInit == /\ Init /\ I!Init /\ P!Init
             /\ scene \in {"session", "identity", "payments"}
             /\ scene # "session" => stored = Mainnet
             /\ scene # "identity" => app = WebApp

SceneNext == /\ \/ scene = "session" /\ Next /\ UNCHANGED <<identity, private>>
                \/ scene = "identity" /\ I!Next /\ UNCHANGED <<vars, private>>
                \/ scene = "payments" /\ P!Next /\ UNCHANGED <<vars, identity>>
             /\ UNCHANGED scene

InSession(step) == scene = "session" /\ step /\ UNCHANGED <<identity, private, scene>>

SceneSpec == /\ SceneInit /\ [][SceneNext]_all
             /\ WF_all(InSession(Restore))
             /\ \A l \in Loads : WF_all(InSession(Loaded(l)))

(* The identity that payers are given is registered under the viewing key   *)
(* in local storage.                                                        *)
KeyIsHeld == I!KeyIsHeld

(* The web app's registration proofs are made on a block that has the       *)
(* identity.                                                                *)
ProofSeesIdentity == I!ProofSeesIdentity

(* A claim of the smoke page is aimed at the pool its payment is in.        *)
ClaimIsAimed == P!ClaimIsAimed

(* The smoke page's proofs are made on a block that has its last write.     *)
ProofSeesWrites == P!ProofSeesWrites
=============================================================================
