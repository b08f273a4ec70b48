-------------------------- MODULE PrivateIdentity ---------------------------
(***************************************************************************)
(* How an account on Sepolia gets its private identity: the vault is       *)
(* unlocked, the identity deployed by Ready, registered with the pool under *)
(* the vault's viewing key by a proof that the app's server submits, and   *)
(* published by the API.  The web app does it in the dialog that connects  *)
(* Ready, the smoke app when it connects and on its Register button.       *)
(*                                                                         *)
(* Local storage has one record of the vault.  Each dialog, panel and      *)
(* provider that unlocks or restores it has a copy of its own and writes   *)
(* the whole of it; the flows of the smoke app share one copy.             *)
(* An identity is named by its place in the order of deployment, a class   *)
(* by the release that pins it, a viewing key by a number.                 *)
(***************************************************************************)
EXTENDS Naturals, Sequences, FiniteSets

CONSTANTS Flows, Copies,
          Apps,            \* which app it is, and the copy each flow works on
          Margin,          \* PROVING_BLOCK_MARGIN
          MaxHead, MaxIdentities, MaxKeys, MaxReleases, MaxProofs,
          MaxMishaps       \* bound: pages reloaded, reads of a class that fail

PrivateIdentityAssumption ==
    /\ Apps \subseteq [name : {"web", "smoke"}, copyOf : [Flows -> Copies]]
    /\ {Margin, MaxHead, MaxIdentities, MaxKeys, MaxReleases, MaxProofs, MaxMishaps} \subseteq Nat

VARIABLES
    app,
    head,        \* the latest block
    identities,  \* those deployed: class, block, registered viewing key or 0
    release,     \* the class the deployed apps and the API are configured with
    record,      \* the vault in local storage
    copy,        \* per copy: vault, build of the page, signature in sessionStorage
    flow,
    binding,     \* private_identity_address of the wallet binding, or 0
    affords,     \* the proofs the server's account has STRK to submit
    keys,        \* the viewing keys generated
    overwritten,      \* the record was overwritten by an older copy or cleared by an older build
    mishaps

vars == <<app, head, identities, release, record, copy, flow, binding, affords, keys,
          overwritten, mishaps>>

NoVault == [key |-> 0, identity |-> 0, class |-> 0, block |-> 0]
Locked == [vault |-> NoVault, build |-> 1, session |-> FALSE, fresh |-> TRUE]
Idle == [pc |-> "idle", identity |-> 0, since |-> 0, proof |-> 0]

Init ==
    /\ app \in Apps
    /\ head = 1
    /\ identities = <<>>
    /\ release = 1
    /\ record = NoVault
    /\ copy = [c \in Copies |-> Locked]
    /\ flow = [f \in Flows |-> Idle]
    /\ binding = 0
    /\ affords = MaxProofs
    /\ keys = 0 /\ overwritten = FALSE /\ mishaps = 0

CopyOf(f) == app.copyOf[f]
Vault(f) == copy[CopyOf(f)].vault
Busy(c) == \E f \in Flows : CopyOf(f) = c /\ flow[f].pc # "idle"
world == <<app, head, release>>
chainVars == <<identities, affords>>

-----------------------------------------------------------------------------
(* The vault.  A copy is fresh until another one writes the record.         *)

Written(c, vault) ==
    /\ record' = vault
    /\ copy' = [d \in Copies |->
                  IF d = c THEN [copy[c] EXCEPT !.vault = vault, !.fresh = TRUE]
                           ELSE [copy[d] EXCEPT !.fresh = FALSE]]
    /\ overwritten' = (overwritten \/ ~copy[c].fresh \/ copy[c].build # release)

\* isStalePrivacyState: a vault without an identity is of no class.
IsStale_AnyClass(vault, build) == vault.class # build
IsStale(vault, build) == vault.identity # 0 /\ vault.class # build

\* unlockPrivacyVault: the record as it is found, or a new viewing key, still to
\* be saved.
Unlock(c) ==
    /\ ~Busy(c) /\ copy[c].vault = NoVault
    /\ LET open(vault) == copy' = [copy EXCEPT ![c].vault = vault, ![c].session = TRUE,
                                               ![c].fresh = TRUE]
       IN  IF record # NoVault
           THEN open(record) /\ UNCHANGED keys
           ELSE keys < MaxKeys /\ open([NoVault EXCEPT !.key = keys + 1]) /\ keys' = keys + 1
    /\ UNCHANGED <<world, chainVars, record, flow, binding, overwritten, mishaps>>

\* The first save of a new vault; setInboxSecretKey or rotateInboxSecretKey later on.
Save(c) ==
    /\ copy[c].vault # NoVault
    /\ Written(c, copy[c].vault)
    /\ UNCHANGED <<world, chainVars, flow, binding, keys, mishaps>>

\* restorePrivacyVaultFromSession
Restore(c) ==
    /\ app.name = "web" /\ ~Busy(c)
    /\ copy[c].session /\ record # NoVault
    /\ IF IsStale(record, copy[c].build)
       THEN /\ record' = NoVault
            /\ copy' = [d \in Copies |->
                          IF d = c THEN [Locked EXCEPT !.build = copy[c].build]
                                   ELSE [copy[d] EXCEPT !.fresh = FALSE]]
            /\ overwritten' = (overwritten \/ copy[c].build # release)
       ELSE /\ copy' = [copy EXCEPT ![c].vault = record, ![c].fresh = TRUE]
            /\ UNCHANGED <<record, overwritten>>
    /\ UNCHANGED <<world, chainVars, flow, binding, keys, mishaps>>

\* The page is reloaded, or closed and opened again, whatever its flows are at.
Reload(c) ==
    /\ mishaps < MaxMishaps
    /\ \E session \in {FALSE, copy[c].session /\ app.name = "web"} :
          copy' = [copy EXCEPT ![c] = [Locked EXCEPT !.build = release, !.session = session]]
    /\ flow' = [f \in Flows |-> IF CopyOf(f) = c THEN Idle ELSE flow[f]]
    /\ mishaps' = mishaps + 1
    /\ UNCHANGED <<world, chainVars, record, binding, keys, overwritten>>

-----------------------------------------------------------------------------
(* bindAndRegister of the web app, ensurePrivateIdentity of the smoke app.  *)

Go(f, pc) == flow' = [flow EXCEPT ![f].pc = pc]

\* With the identity of the vault, or none.
Begin(f, vault) ==
    flow' = [flow EXCEPT ![f] = [pc |-> IF vault.identity = 0 THEN "deploying" ELSE "asking",
                                 identity |-> vault.identity, since |-> vault.block,
                                 proof |-> 0]]

\* ensureCurrentIdentityClass: the identity is given up when its class is not the
\* configured one, or cannot be read.
CurrentIdentity(f) ==
    LET v == Vault(f)
        stale == IsStale(v, copy[CopyOf(f)].build)
        kept == [NoVault EXCEPT !.key = v.key]
    IN  \/ ~stale /\ Begin(f, v) /\ UNCHANGED <<record, copy, overwritten, mishaps>>
        \/ stale /\ Begin(f, kept) /\ Written(CopyOf(f), kept) /\ UNCHANGED mishaps
        \/ /\ v.identity # 0 /\ mishaps < MaxMishaps /\ mishaps' = mishaps + 1
           /\ Begin(f, kept) /\ Written(CopyOf(f), kept)

Onboard(f) ==
    /\ flow[f].pc = "idle" /\ Vault(f) # NoVault
    /\ IF app.name = "web"
       THEN CurrentIdentity(f)
       ELSE Begin(f, Vault(f)) /\ UNCHANGED <<record, copy, overwritten, mishaps>>
    /\ UNCHANGED <<world, chainVars, binding, keys>>

\* Ready refuses, a request fails, a transaction is reverted, no block comes.
GiveUp(f) ==
    /\ flow[f].pc # "idle"
    /\ flow' = [flow EXCEPT ![f] = Idle]
    /\ UNCHANGED <<world, chainVars, record, copy, binding, keys, overwritten, mishaps>>

\* deployPrivacyIdentity, under a salt of its own.
Deploy(f) ==
    /\ flow[f].pc = "deploying"
    /\ Len(identities) < MaxIdentities
    /\ identities' = Append(identities, [class |-> copy[CopyOf(f)].build, block |-> head,
                                         key |-> 0])
    /\ flow' = [flow EXCEPT ![f] = [pc |-> "deployed", identity |-> Len(identities'),
                                    since |-> head, proof |-> 0]]
    /\ UNCHANGED <<world, affords, record, copy, binding, keys, overwritten, mishaps>>

\* What setIdentityAddress makes of the vault; the smoke app keeps neither class nor block.
WithIdentity_BlockForgotten(f) ==
    [Vault(f) EXCEPT !.identity = flow[f].identity,
                     !.class = IF app.name = "web" THEN copy[CopyOf(f)].build ELSE 0]
WithIdentity(f) ==
    IF app.name = "web"
    THEN [Vault(f) EXCEPT !.identity = flow[f].identity, !.class = copy[CopyOf(f)].build,
                          !.block = flow[f].since]
    ELSE [Vault(f) EXCEPT !.identity = flow[f].identity]

SetIdentityAddress(f) ==
    /\ flow[f].pc = "deployed"
    /\ Written(CopyOf(f), WithIdentity(f))
    /\ Go(f, "asking")
    /\ UNCHANGED <<world, chainVars, binding, keys, mishaps>>

\* isIdentityRegistered
Registered(f) ==
    /\ flow[f].pc = "asking" /\ identities[flow[f].identity].key # 0
    /\ Go(f, "publish")
    /\ UNCHANGED <<world, chainVars, record, copy, binding, keys, overwritten, mishaps>>

\* selectProofBlock, once there is one.
SelectProofBlock(f) ==
    LET block == IF head > Margin THEN head - Margin ELSE 0
    IN  /\ flow[f].pc = "asking" /\ identities[flow[f].identity].key = 0
        /\ block >= flow[f].since
        /\ flow' = [flow EXCEPT ![f].pc = "proving", ![f].proof = block]
        /\ UNCHANGED <<world, chainVars, record, copy, binding, keys, overwritten, mishaps>>

\* The identity the proof is about is a contract at the block it is made on; the
\* pool registers an identity once.
Provable(f) == /\ identities[flow[f].identity].block <= flow[f].proof
               /\ identities[flow[f].identity].key = 0

\* privacyResourceBounds: the server's account can pay for the least gas there is.
Affordable == affords > 0

\* /privacy/submit
Submit(f) ==
    /\ flow[f].pc = "proving"
    /\ IF Affordable /\ Provable(f)
       THEN /\ affords' = affords - 1
            /\ identities' = [identities EXCEPT ![flow[f].identity].key = Vault(f).key]
            /\ Go(f, "publish")
       ELSE flow' = [flow EXCEPT ![f] = Idle] /\ UNCHANGED chainVars
    /\ UNCHANGED <<world, record, copy, binding, keys, overwritten, mishaps>>

\* bindPrivateIdentity, what the chain says of the identity: registered with the
\* pool, and of the class that is configured.
Admissible(i) == identities[i].key # 0 /\ identities[i].class = release

Publish(f) ==
    /\ flow[f].pc = "publish"
    /\ binding' = IF Admissible(flow[f].identity) THEN flow[f].identity ELSE binding
    /\ flow' = [flow EXCEPT ![f] = Idle]
    /\ UNCHANGED <<world, chainVars, record, copy, keys, overwritten, mishaps>>

-----------------------------------------------------------------------------
NewBlock ==
    /\ head < MaxHead
    /\ head' = head + 1
    /\ UNCHANGED <<app, release, chainVars, record, copy, flow, binding, keys, overwritten,
                   mishaps>>

\* A new identity class is declared and the apps are built with it.
Release ==
    /\ release < MaxReleases
    /\ release' = release + 1
    /\ UNCHANGED <<app, head, chainVars, record, copy, flow, binding, keys, overwritten, mishaps>>

Next ==
    \/ NewBlock \/ Release
    \/ \E c \in Copies : Unlock(c) \/ Save(c) \/ Restore(c) \/ Reload(c)
    \/ \E f \in Flows : \/ Onboard(f) \/ GiveUp(f) \/ Deploy(f) \/ SetIdentityAddress(f)
                        \/ Registered(f) \/ SelectProofBlock(f) \/ Submit(f) \/ Publish(f)

Spec == Init /\ [][Next]_vars

-----------------------------------------------------------------------------
TypeOK ==
    /\ app \in Apps /\ head \in 1..MaxHead /\ release \in 1..MaxReleases \cup {1}
    /\ binding \in 0..Len(identities)
    /\ record.identity \in 0..Len(identities) /\ record.key \in 0..keys
    /\ \A c \in Copies : copy[c].vault.identity \in 0..Len(identities)
    /\ \A f \in Flows : flow[f].identity \in 0..Len(identities)

(* The identity that payers are given, when it is of the class in use, is   *)
(* registered under the viewing key that local storage keeps, whichever     *)
(* step of an onboarding failed, whatever page was reloaded and whichever   *)
(* identity the vault has come to prefer; unless a copy of the vault was    *)
(* written over a newer one, or a page of an older build cleared it.        *)
KeyIsHeld ==
    binding # 0 /\ identities[binding].class = release /\ ~overwritten =>
        identities[binding].key # 0 /\ identities[binding].key = record.key

(* The web app has no proof made on a block older than the identity it      *)
(* registers, not even when the identity was deployed by a page since       *)
(* closed.                                                                  *)
ProofSeesIdentity ==
    app.name = "web" => \A f \in Flows :
        flow[f].pc = "proving" => identities[flow[f].identity].block <= flow[f].proof
=============================================================================
