----------------------------- MODULE WebSession -----------------------------
(***************************************************************************)
(* What a tab of the web app keeps between requests, and how its claim     *)
(* page uses it: the network mode, which local storage shares with the     *)
(* other tabs; the connections to Ready, one per network; the vault        *)
(* unlocked for the network; the payment loaded into the claim view, and   *)
(* the claim that is made of it.                                           *)
(*                                                                         *)
(* Each network holds one payment to this profile, sealed to a key that    *)
(* only the vault of that network has.  An effect of React runs with the   *)
(* change that causes it.  A wallet, a vault, a payment is named by the    *)
(* network it belongs to.                                                  *)
(***************************************************************************)
EXTENDS Naturals, FiniteSets

CONSTANTS Modes, Mainnet, Testnet,
          Loads,         \* bound: loads of the claim view under way at once
          Connects,      \* bound: connections to Ready being made at once
          Nothing,       \* no connection, no vault, no payment
          MaxSwitches,   \* bound: network switches, in this tab and in others
          MaxClears      \* bound: connections dropped, session events

ASSUME WebSessionAssumption ==
    /\ Modes = {Mainnet, Testnet} /\ Mainnet # Testnet
    /\ Nothing \notin Modes \cup Loads \cup Connects
    /\ MaxSwitches \in Nat /\ MaxClears \in Nat

VARIABLES
    stored,      \* the mode in local storage
    mode,        \* the mode of this tab
    vault,       \* PrivacyVaultProvider: vault, sessionReady, the restore under way
    ready,       \* lib/wotta/ready.ts: connections, inFlight, generation
    connect,     \* the connections being made
    since,       \* the generation a connection must not be older than
    unlock,      \* unlockInbox of the claim view
    load,        \* loadFromVault, once per change of the mode or the vault
    view,        \* the claim view: claim, loading, success
    claim,       \* runClaim
    settled,     \* the payments that have been claimed
    astray,      \* history: another tab has switched, or this one in an unlock
    switches, clears

vars == <<stored, mode, vault, ready, connect, since, unlock, load, view, claim,
          settled, astray, switches, clears>>

IdleConnect == [pc |-> "free", mode |-> Mainnet, generation |-> 0, forced |-> FALSE]
IdleUnlock == [pc |-> "idle", mode |-> Mainnet, on |-> Nothing, from |-> Mainnet]
IdleLoad == [pc |-> "free", mode |-> Mainnet, from |-> Mainnet, vault |-> Mainnet,
             aborted |-> FALSE]
IdleClaim == [pc |-> "idle", mode |-> Mainnet, on |-> Nothing, payment |-> Mainnet]

Init ==
    /\ stored \in Modes /\ mode = stored
    /\ vault = [of |-> Nothing, sessionReady |-> FALSE, restoring |-> TRUE]
    /\ ready = [connections |-> [m \in Modes |-> 0],
                inFlight |-> [m \in Modes |-> Nothing], generation |-> 1]
    /\ connect = [k \in Connects |-> IdleConnect]
    /\ since = [m \in Modes |-> 1]
    /\ unlock = IdleUnlock
    /\ load = [l \in Loads |-> IdleLoad]
    /\ view = [claim |-> Nothing, loading |-> FALSE, success |-> Nothing]
    /\ claim = IdleClaim
    /\ settled = {}
    /\ astray = FALSE
    /\ switches = 0 /\ clears = 0

tabVars == <<vault, load, view>>
readyVars == <<ready, connect, since>>
bounds == <<astray, switches, clears>>

-----------------------------------------------------------------------------
(* The effects of the claim view and of the provider of the vault.          *)

\* loadFromVault begins: the session is that of the mode stored by now.
Loading(loads, m, v, from) ==
    {[loads EXCEPT ![l] = [pc |-> "reading", mode |-> m, from |-> from, vault |-> v,
                           aborted |-> FALSE]] : l \in {k \in Loads : loads[k].pc = "free"}}

\* A vault is there, or not, once the session of the tab is.
Unlocked(v) ==
    /\ vault' = [of |-> v, sessionReady |-> TRUE, restoring |-> FALSE]
    /\ IF v = Nothing
       THEN view' = [view EXCEPT !.claim = Nothing] /\ UNCHANGED load
       ELSE view' = [view EXCEPT !.loading = TRUE] /\ load' \in Loading(load, mode, v, stored)

\* The effect of the provider starts over; what it was doing is forgotten.
Restart == vault' = [of |-> Nothing, sessionReady |-> FALSE, restoring |-> TRUE]

\* restorePrivacyVaultFromSession: the tab has the signature still, or has not and
\* the vault stays what an unlock of meanwhile has made it.
Restore ==
    /\ vault.restoring
    /\ \E v \in {mode, vault.of} : Unlocked(v)
    /\ UNCHANGED <<stored, mode, readyVars, unlock, claim, settled, bounds>>

\* AUTH_SESSION_EVENT
SessionChanges ==
    /\ clears < MaxClears
    /\ Restart
    /\ clears' = clears + 1
    /\ UNCHANGED <<stored, mode, readyVars, unlock, load, view, claim, settled, astray, switches>>

\* What is read for the old network is aborted, the claim view loads with the vault
\* it still has, if its session is ready, then the provider takes the vault away.
SetMode(m) ==
    LET aborted == [l \in Loads |-> [load[l] EXCEPT !.aborted = load[l].pc = "reading"]]
    IN  /\ m \notin {stored, mode} /\ switches < MaxSwitches
        /\ claim.pc = "idle" /\ \A k \in Connects : ~connect[k].forced
        /\ stored' = m /\ mode' = m
        /\ Restart
        /\ \/ /\ ~vault.sessionReady
              /\ load' = aborted /\ UNCHANGED view
           \/ /\ vault.sessionReady /\ vault.of = Nothing
              /\ load' = aborted /\ view' = [view EXCEPT !.claim = Nothing]
           \/ /\ vault.sessionReady /\ vault.of # Nothing
              /\ load' \in Loading(aborted, m, vault.of, m)
              /\ view' = [view EXCEPT !.loading = TRUE]
        /\ switches' = switches + 1
        /\ astray' = (astray \/ unlock.pc # "idle")
        /\ UNCHANGED <<readyVars, unlock, claim, settled, clears>>

\* Another tab switches.  This one is not told.
OtherTab ==
    /\ switches < MaxSwitches
    /\ stored' \in Modes \ {stored}
    /\ switches' = switches + 1
    /\ astray' = TRUE
    /\ UNCHANGED <<mode, tabVars, readyVars, unlock, claim, settled, clears>>

-----------------------------------------------------------------------------
(* lib/wotta/ready.ts.                                                      *)

\* clearReadyConnections: sign-out, unlink, a balance that cannot be read.
ClearConnections ==
    /\ clears < MaxClears
    /\ ready' = [connections |-> [m \in Modes |-> 0],
                 inFlight |-> [m \in Modes |-> Nothing],
                 generation |-> ready.generation + 1]
    /\ since' = [m \in Modes |-> ready'.generation]
    /\ clears' = clears + 1
    /\ UNCHANGED <<stored, mode, tabVars, connect, unlock, claim, settled, astray, switches>>

Asking(m, generation, forced) ==
    {k \in Connects : connect[k].pc = "free"} \X
    {[pc |-> "asking", mode |-> m, generation |-> generation, forced |-> forced]}

\* forceReconnect, of a link that is made anew: its operation blocks the network switch.
ForceReconnect ==
    /\ clears < MaxClears
    /\ \E new \in Asking(mode, ready.generation + 1, TRUE) :
          /\ connect' = [connect EXCEPT ![new[1]] = new[2]]
          /\ ready' = [ready EXCEPT !.generation = @ + 1, !.connections[mode] = 0,
                                    !.inFlight[mode] = new[1]]
    /\ since' = [since EXCEPT ![mode] = ready'.generation]
    /\ clears' = clears + 1
    /\ UNCHANGED <<stored, mode, tabVars, unlock, claim, settled, astray, switches>>

\* connectReady: the connection there is, the one being made, or a new one; on is
\* what its caller waits for.
ConnectReady(m) ==
    IF ready.connections[m] # 0 \/ ready.inFlight[m] # Nothing
    THEN {[on |-> IF ready.connections[m] # 0 THEN Nothing ELSE ready.inFlight[m],
           ready |-> ready, connect |-> connect]}
    ELSE {[on |-> new[1], ready |-> [ready EXCEPT !.inFlight[m] = new[1]],
           connect |-> [connect EXCEPT ![new[1]] = new[2]]] :
             new \in Asking(m, ready.generation, FALSE)}

Kept_Always(k) == connect[k].generation
Kept(k) ==
    IF connect[k].generation = ready.generation THEN connect[k].generation
    ELSE ready.connections[connect[k].mode]

\* Ready connects or does not; who waits goes on with the account or fails.
Answered(k, ok) ==
    LET m == connect[k].mode
    IN  /\ connect[k].pc = "asking"
        /\ ready' = [ready EXCEPT !.connections[m] = IF ok THEN Kept(k) ELSE @,
                                  !.inFlight[m] = IF @ = k THEN Nothing ELSE @]
        /\ connect' = [connect EXCEPT ![k] = IdleConnect]
        /\ unlock' = IF unlock.on # k THEN unlock
                     ELSE IF ok THEN [unlock EXCEPT !.on = Nothing] ELSE IdleUnlock
        /\ view' = IF unlock.on = k /\ ~ok THEN [view EXCEPT !.loading = FALSE] ELSE view
        /\ claim' = IF claim.on # k THEN claim
                    ELSE IF ok THEN [claim EXCEPT !.on = Nothing] ELSE IdleClaim
        /\ UNCHANGED <<stored, mode, vault, since, load, settled, bounds>>

-----------------------------------------------------------------------------
(* unlockInbox: not an operation of its network, so nothing aborts it.      *)

PressUnlock ==
    /\ unlock.pc = "idle" /\ vault.sessionReady /\ vault.of = Nothing
    /\ ~view.loading /\ view.claim = Nothing /\ view.success = Nothing
    /\ \E c \in ConnectReady(mode) :
          /\ ready' = c.ready /\ connect' = c.connect
          /\ unlock' = [IdleUnlock EXCEPT !.pc = "connect", !.mode = mode, !.on = c.on]
    /\ view' = [view EXCEPT !.loading = TRUE]
    /\ UNCHANGED <<stored, mode, vault, since, load, claim, settled, bounds>>

\* The message is signed: the vault of the network the button was pressed in.
SignUnlock ==
    /\ unlock.pc = "connect" /\ unlock.on = Nothing
    /\ unlock' = [unlock EXCEPT !.pc = "ensure", !.from = stored]
    /\ IF vault.sessionReady THEN Unlocked(unlock.mode)
       ELSE vault' = [vault EXCEPT !.of = unlock.mode] /\ UNCHANGED <<load, view>>
    /\ UNCHANGED <<stored, mode, readyVars, claim, settled, bounds>>

\* ensureClaimInboxKey finds the published key in the vault of the same network only;
\* loadClaim is for the network stored by now.
EnsureKey ==
    /\ unlock.pc = "ensure" /\ unlock.from = unlock.mode
    /\ unlock' = [unlock EXCEPT !.pc = "load", !.from = stored]
    /\ UNCHANGED <<stored, mode, tabVars, readyVars, claim, settled, bounds>>

Openable(v, from) == v = from /\ from \notin settled

UnlockLoaded ==
    /\ unlock.pc = "load"
    /\ unlock' = IdleUnlock
    /\ view' = [view EXCEPT !.loading = FALSE,
                            !.claim = IF Openable(unlock.mode, unlock.from)
                                      THEN unlock.from ELSE Nothing]
    /\ UNCHANGED <<stored, mode, vault, load, readyVars, claim, settled, bounds>>

UnlockFails ==
    /\ unlock.pc \in {"connect", "ensure", "load"} /\ unlock.on = Nothing
    /\ unlock' = IdleUnlock
    /\ view' = [view EXCEPT !.loading = FALSE,
                            !.claim = IF unlock.pc = "load" THEN Nothing ELSE @]
    /\ UNCHANGED <<stored, mode, vault, load, readyVars, claim, settled, bounds>>

Loaded_SkeletonStays(l) ==
    LET task == load[l]
        active == ~task.aborted /\ stored = task.mode
    IN  /\ task.pc = "reading"
        /\ load' = [load EXCEPT ![l] = IdleLoad]
        /\ IF active THEN view' = [view EXCEPT !.loading = FALSE] ELSE UNCHANGED view
        /\ UNCHANGED <<stored, mode, vault, readyVars, unlock, claim, settled, bounds>>

Found(task) == {Nothing} \cup {n \in Modes : n = task.from /\ Openable(task.vault, n)}

\* What is found is shown, whoever it was looked for.
Loaded_Unchecked(l) ==
    /\ load[l].pc = "reading"
    /\ load' = [load EXCEPT ![l] = IdleLoad]
    /\ \E found \in Found(load[l]) :
          view' = [view EXCEPT !.loading = FALSE, !.claim = found]
    /\ UNCHANGED <<stored, mode, vault, readyVars, unlock, claim, settled, bounds>>

\* assertActive: not aborted, and the mode stored is the one the load began in.  A load
\* that finds nothing fails before it gets there.
Loaded(l) ==
    LET task == load[l]
        active == ~task.aborted /\ stored = task.mode
    IN  /\ task.pc = "reading"
        /\ load' = [load EXCEPT ![l] = IdleLoad]
        /\ \E found \in Found(task) :
              view' = [view EXCEPT !.loading = FALSE,
                                   !.claim = IF active \/ found = Nothing THEN found ELSE @]
        /\ UNCHANGED <<stored, mode, vault, readyVars, unlock, claim, settled, bounds>>

-----------------------------------------------------------------------------
(* runClaim, an operation that blocks the network switch.                   *)

PressClaim ==
    /\ claim.pc = "idle" /\ vault.sessionReady /\ ~view.loading /\ view.success = Nothing
    /\ view.claim # Nothing /\ vault.of # Nothing
    /\ \E c \in ConnectReady(mode) :
          /\ ready' = c.ready /\ connect' = c.connect
          /\ claim' = [pc |-> "connect", mode |-> mode, on |-> c.on,
                       payment |-> view.claim]
    /\ UNCHANGED <<stored, mode, tabVars, since, unlock, settled, bounds>>

\* mainnetEscrowClaimActions: an escrow of the mainnet manifest; claimPrivateFund
\* builds the call of whatever escrow it is given.
Admitted(m, payment) == m = Mainnet => payment = Mainnet

Submit ==
    /\ claim.pc = "connect" /\ claim.on = Nothing
    /\ IF Admitted(claim.mode, claim.payment)
       THEN claim' = [claim EXCEPT !.pc = "sent"]
       ELSE claim' = IdleClaim
    /\ UNCHANGED <<stored, mode, tabVars, readyVars, unlock, settled, bounds>>

\* The escrow pays a payment it holds, once; assertActive comes after that.
Confirm ==
    LET paid == claim.payment = claim.mode /\ claim.payment \notin settled
    IN  /\ claim.pc = "sent"
        /\ settled' = IF paid THEN settled \cup {claim.payment} ELSE settled
        /\ view' = IF paid /\ stored = claim.mode
                   THEN [view EXCEPT !.success = claim.payment] ELSE view
        /\ claim' = IdleClaim
        /\ UNCHANGED <<stored, mode, vault, load, readyVars, unlock, bounds>>

ClaimFails ==
    /\ claim.pc \in {"connect", "sent"} /\ claim.on = Nothing
    /\ claim' = IdleClaim
    /\ UNCHANGED <<stored, mode, tabVars, readyVars, unlock, settled, bounds>>

Next ==
    \/ Restore \/ SessionChanges \/ OtherTab \/ ClearConnections
    \/ ForceReconnect \/ \E m \in Modes : SetMode(m)
    \/ \E k \in Connects, ok \in BOOLEAN : Answered(k, ok)
    \/ PressUnlock \/ SignUnlock \/ EnsureKey \/ UnlockLoaded \/ UnlockFails
    \/ \E l \in Loads : Loaded(l)
    \/ PressClaim \/ Submit \/ Confirm \/ ClaimFails

\* Requests end.  What Ready is asked for may stay unanswered.
Fairness == WF_vars(Restore) /\ \A l \in Loads : WF_vars(Loaded(l))

Spec == Init /\ [][Next]_vars /\ Fairness

-----------------------------------------------------------------------------
TypeOK ==
    /\ stored \in Modes /\ mode \in Modes
    /\ vault \in [of : Modes \cup {Nothing}, sessionReady : BOOLEAN, restoring : BOOLEAN]
    /\ ready \in [connections : [Modes -> Nat],
                  inFlight : [Modes -> Connects \cup {Nothing}], generation : Nat]
    /\ connect \in [Connects -> [pc : {"free", "asking"}, mode : Modes,
                               generation : Nat, forced : BOOLEAN]]
    /\ since \in [Modes -> Nat]
    /\ unlock \in [pc : {"idle", "connect", "ensure", "load"}, mode : Modes,
                    on : Connects \cup {Nothing}, from : Modes]
    /\ load \in [Loads -> [pc : {"free", "reading"}, mode : Modes, from : Modes,
                           vault : Modes, aborted : BOOLEAN]]
    /\ view \in [claim : Modes \cup {Nothing}, loading : BOOLEAN,
                  success : Modes \cup {Nothing}]
    /\ claim \in [pc : {"idle", "connect", "sent"}, mode : Modes,
                   on : Connects \cup {Nothing}, payment : Modes]
    /\ settled \subseteq Modes /\ astray \in BOOLEAN
    /\ switches \in 0 .. MaxSwitches /\ clears \in 0 .. MaxClears

\* ready.ts:302 "An unlink/sign-out or forced reconnect may have invalidated this
\* request while the wallet UI was open. Never let that stale result repopulate
\* cache": the connection a network has was asked for after the last time it was
\* dropped, whatever was being made then.
ClearedStaysCleared ==
    \A m \in Modes : ready.connections[m] # 0 => ready.connections[m] >= since[m]

\* ClaimView.tsx:109 The payment the claim view offers is one of the network the tab is
\* on, or is about to be replaced: whatever was being read, restored or unlocked when
\* the user switched, and however late it ends.  An unlock is no operation of its
\* network, so a switch in the middle of one is left out, as are the switches of
\* other tabs, of which this one is not told.
ViewFollowsMode ==
    ~astray /\ vault.sessionReady =>
        \/ view.claim \in {Nothing, mode}
        \/ \E l \in Loads : load[l].pc = "reading" /\ ~load[l].aborted

\* ClaimView.tsx:117 The claim view does not stay in its skeleton: a load that was
\* cancelled, or whose network is not the stored one any more, ends it too.
LoadingEnds == view.loading ~> (~view.loading \/ unlock.pc # "idle")
=============================================================================
