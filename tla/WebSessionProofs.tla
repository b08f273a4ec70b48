-------------------------- MODULE WebSessionProofs --------------------------
(***************************************************************************)
(* Theorems about the pages.  Of WebSession, for any number of connections, *)
(* loads, network switches and sign-outs: every state is well typed, no    *)
(* connection to Ready outlives the moment it was dropped, and the claim   *)
(* view follows the network of the tab.  Of PrivateIdentity, for any       *)
(* number of copies of the vault, onboardings, releases and reloads: the   *)
(* identity that payers are given has the key that is kept, and the web    *)
(* app's proofs see the identity.  Of PrivatePayments, for any number of   *)
(* payments, blocks and reloads: claims are aimed at the right pool and    *)
(* proofs see the last write.                                              *)
(***************************************************************************)
EXTENDS MCWebSession, Sequences, TLAPS

-----------------------------------------------------------------------------
(* Types of what the actions are built from. *)

LoadTask == [pc : {"free", "reading"}, mode : Modes, from : Modes, vault : Modes,
             aborted : BOOLEAN]
ConnectTask == [pc : {"free", "asking"}, mode : Modes, generation : Nat, forced : BOOLEAN]
ReadyType == [connections : [Modes -> Nat], inFlight : [Modes -> Connects \cup {Nothing}],
              generation : Nat]
UnlockType == [pc : {"idle", "connect", "ensure", "load"}, mode : Modes,
               on : Connects \cup {Nothing}, from : Modes]
ClaimType == [pc : {"idle", "connect", "sent"}, mode : Modes, on : Connects \cup {Nothing},
              payment : Modes]
ViewType == [claim : Modes \cup {Nothing}, loading : BOOLEAN, success : Modes \cup {Nothing}]
VaultType == [of : Modes \cup {Nothing}, sessionReady : BOOLEAN, restoring : BOOLEAN]

Types == /\ stored \in Modes /\ mode \in Modes /\ vault \in VaultType
         /\ ready \in ReadyType /\ connect \in [Connects -> ConnectTask]
         /\ since \in [Modes -> Nat] /\ unlock \in UnlockType
         /\ load \in [Loads -> LoadTask] /\ view \in ViewType /\ claim \in ClaimType
         /\ settled \subseteq Modes /\ astray \in BOOLEAN
         /\ switches \in 0 .. MaxSwitches /\ clears \in 0 .. MaxClears

LEMMA TypesAreTypeOK == TypeOK <=> Types
  BY DEF TypeOK, Types, LoadTask, ConnectTask, ReadyType, UnlockType, ClaimType, ViewType,
     VaultType

LEMMA IdleTypes == /\ IdleConnect \in ConnectTask /\ IdleUnlock \in UnlockType
                   /\ IdleLoad \in LoadTask /\ IdleClaim \in ClaimType
                   /\ Mainnet \in Modes /\ Testnet \in Modes
  BY WebSessionAssumption
     DEF IdleConnect, IdleUnlock, IdleLoad, IdleClaim, ConnectTask, UnlockType, LoadTask, ClaimType

LEMMA LoadingType ==
    ASSUME NEW loads \in [Loads -> LoadTask], NEW m \in Modes, NEW v \in Modes, NEW from \in Modes
    PROVE  Loading(loads, m, v, from) \subseteq [Loads -> LoadTask]
  <1> SUFFICES ASSUME NEW f \in Loading(loads, m, v, from)
               PROVE  f \in [Loads -> LoadTask]
    OBVIOUS
  <1> DEFINE task == [pc |-> "reading", mode |-> m, from |-> from, vault |-> v, aborted |-> FALSE]
  <1>1. task \in LoadTask
    BY DEF LoadTask
  <1> HIDE DEF task
  <1>2. PICK l \in Loads : f = [loads EXCEPT ![l] = task]
    BY DEF Loading, task
  <1>3. QED
    BY <1>1, <1>2

LEMMA UnlockedType ==
    ASSUME Types, NEW v \in Modes \cup {Nothing}, Unlocked(v)
    PROVE  vault' \in VaultType /\ view' \in ViewType /\ load' \in [Loads -> LoadTask]
  <1>1. vault' \in VaultType
    BY DEF Unlocked, VaultType
  <1>2. CASE v = Nothing
    BY <1>1, <1>2 DEF Unlocked, Types, ViewType
  <1>3. CASE v # Nothing
    <2>1. load' \in [Loads -> LoadTask]
      BY <1>3, LoadingType DEF Unlocked, Types
    <2>2. view' \in ViewType
      BY <1>3 DEF Unlocked, Types, ViewType
    <2>3. QED
      BY <1>1, <2>1, <2>2
  <1>4. QED
    BY <1>2, <1>3

LEMMA RestartType == ASSUME Restart PROVE vault' \in VaultType
  BY DEF Restart, VaultType

LEMMA AskingType ==
    ASSUME Types, NEW m \in Modes, NEW generation \in Nat, NEW forced \in BOOLEAN
    PROVE  Asking(m, generation, forced) \subseteq Connects \X ConnectTask
  BY DEF Asking, ConnectTask

LEMMA ConnectReadyType ==
    ASSUME Types, NEW m \in Modes, NEW c \in ConnectReady(m)
    PROVE  /\ c.on \in Connects \cup {Nothing} /\ c.ready \in ReadyType
           /\ c.connect \in [Connects -> ConnectTask]
           /\ c.ready.connections = ready.connections
           /\ c.ready.generation = ready.generation
  <1>1. CASE ready.connections[m] # 0 \/ ready.inFlight[m] # Nothing
    <2>1. c = [on |-> IF ready.connections[m] # 0 THEN Nothing ELSE ready.inFlight[m],
               ready |-> ready, connect |-> connect]
      BY <1>1 DEF ConnectReady
    <2>2. ready \in ReadyType /\ connect \in [Connects -> ConnectTask]
          /\ ready.inFlight[m] \in Connects \cup {Nothing}
      BY DEF Types, ReadyType
    <2>3. c.ready = ready /\ c.connect = connect /\ c.on \in {Nothing, ready.inFlight[m]}
      BY <2>1
    <2>4. QED
      BY <2>2, <2>3
  <1>2. CASE ~(ready.connections[m] # 0 \/ ready.inFlight[m] # Nothing)
    <2>1. PICK new \in Asking(m, ready.generation, FALSE) :
             c = [on |-> new[1], ready |-> [ready EXCEPT !.inFlight[m] = new[1]],
                  connect |-> [connect EXCEPT ![new[1]] = new[2]]]
      BY <1>2 DEF ConnectReady
    <2>2. new \in Connects \X ConnectTask
      BY <2>1, AskingType DEF Types, ReadyType
    <2>3. QED
      BY <2>1, <2>2 DEF Types, ReadyType
  <1>3. QED
    BY <1>1, <1>2

-----------------------------------------------------------------------------
(* Type correctness, one step per action. *)

LEMMA InitTypes == Init => Types
  <1> SUFFICES ASSUME Init PROVE Types
    OBVIOUS
  <1>1. vault \in VaultType /\ view \in ViewType /\ ready \in ReadyType /\ since \in [Modes -> Nat]
    BY DEF Init, VaultType, ViewType, ReadyType
  <1>2. connect \in [Connects -> ConnectTask] /\ load \in [Loads -> LoadTask]
        /\ unlock \in UnlockType /\ claim \in ClaimType
    BY IdleTypes DEF Init
  <1>3. astray \in BOOLEAN
    BY DEF Init
  <1>4. QED
    BY <1>1, <1>2, <1>3, WebSessionAssumption DEF Init, Types

LEMMA NextTypes == Types /\ [Next]_vars => Types'
  <1> SUFFICES ASSUME Types, [Next]_vars PROVE Types'
    OBVIOUS
  <1> USE DEF tabVars, readyVars, bounds
  <1>1. CASE Restore
    <2>1. PICK v \in {mode, vault.of} : Unlocked(v)
      BY <1>1 DEF Restore
    <2>2. v \in Modes \cup {Nothing}
      BY DEF Types, VaultType
    <2>3. vault' \in VaultType /\ view' \in ViewType /\ load' \in [Loads -> LoadTask]
      BY <2>1, <2>2, UnlockedType
    <2>4. QED
      BY <1>1, <2>3 DEF Restore, Types
  <1>2. CASE SessionChanges
    BY <1>2, RestartType, WebSessionAssumption DEF SessionChanges, Types
  <1>3. CASE OtherTab
    BY <1>3, WebSessionAssumption DEF OtherTab, Types
  <1>4. CASE ClearConnections
    <2>1. ready' \in ReadyType /\ since' \in [Modes -> Nat]
      BY <1>4 DEF ClearConnections, Types, ReadyType
    <2>2. QED
      BY <1>4, <2>1, WebSessionAssumption DEF ClearConnections, Types
  <1>5. CASE ForceReconnect
    <2>1. ready.generation + 1 \in Nat /\ mode \in Modes
      BY DEF Types, ReadyType
    <2>2. PICK new \in Asking(mode, ready.generation + 1, TRUE) :
             /\ connect' = [connect EXCEPT ![new[1]] = new[2]]
             /\ ready' = [ready EXCEPT !.generation = @ + 1, !.connections[mode] = 0,
                                       !.inFlight[mode] = new[1]]
      BY <1>5 DEF ForceReconnect
    <2>3. new \in Connects \X ConnectTask
      BY <2>1, <2>2, AskingType
    <2>4. connect' \in [Connects -> ConnectTask]
      BY <2>2, <2>3 DEF Types
    <2>5. ready' \in ReadyType
      BY <2>1, <2>2, <2>3 DEF Types, ReadyType
    <2>6. since' \in [Modes -> Nat]
      BY <1>5, <2>5 DEF ForceReconnect, Types, ReadyType
    <2>7. QED
      BY <1>5, <2>4, <2>5, <2>6, WebSessionAssumption DEF ForceReconnect, Types
  <1>6. ASSUME NEW m \in Modes, SetMode(m)
        PROVE  Types'
    <2> DEFINE aborted == [l \in Loads |-> [load[l] EXCEPT !.aborted = load[l].pc = "reading"]]
    <2>1. aborted \in [Loads -> LoadTask]
      BY DEF Types, LoadTask
    <2>2. load' = aborted \/ (vault.of # Nothing /\ load' \in Loading(aborted, m, vault.of, m))
      BY <1>6 DEF SetMode
    <2> HIDE DEF aborted
    <2>3. load' \in [Loads -> LoadTask]
      BY <2>1, <2>2, LoadingType DEF Types, VaultType
    <2>4. view' \in ViewType
      BY <1>6 DEF SetMode, Types, ViewType
    <2>5. vault' \in VaultType
      BY <1>6, RestartType DEF SetMode
    <2>6. switches' \in 0 .. MaxSwitches
      BY <1>6, WebSessionAssumption DEF SetMode, Types
    <2>7. QED
      BY <1>6, <2>3, <2>4, <2>5, <2>6 DEF SetMode, Types
  <1>7. ASSUME NEW k \in Connects, NEW ok \in BOOLEAN, Answered(k, ok)
        PROVE  Types'
    <2>1. connect[k].mode \in Modes /\ connect[k].generation \in Nat
      BY DEF Types, ConnectTask
    <2>2. Kept(k) \in Nat
      BY <2>1 DEF Kept, Types, ReadyType
    <2>3. ready' \in ReadyType
      BY <1>7, <2>1, <2>2 DEF Answered, Types, ReadyType
    <2>4. connect' \in [Connects -> ConnectTask]
      BY <1>7, IdleTypes DEF Answered, Types
    <2>5. unlock' \in UnlockType
      BY <1>7, IdleTypes DEF Answered, Types, UnlockType
    <2>6. view' \in ViewType
      BY <1>7 DEF Answered, Types, ViewType
    <2>7. claim' \in ClaimType
      BY <1>7, IdleTypes DEF Answered, Types, ClaimType
    <2>8. QED
      BY <1>7, <2>3, <2>4, <2>5, <2>6, <2>7 DEF Answered, Types
  <1>8. CASE PressUnlock
    <2>1. PICK c \in ConnectReady(mode) :
             /\ ready' = c.ready /\ connect' = c.connect
             /\ unlock' = [IdleUnlock EXCEPT !.pc = "connect", !.mode = mode, !.on = c.on]
      BY <1>8 DEF PressUnlock
    <2>2. ready' \in ReadyType /\ connect' \in [Connects -> ConnectTask]
          /\ c.on \in Connects \cup {Nothing} /\ mode \in Modes
      BY <2>1, ConnectReadyType DEF Types
    <2>3. unlock' \in UnlockType
      BY <2>1, <2>2, IdleTypes DEF UnlockType
    <2>4. view' \in ViewType
      BY <1>8 DEF PressUnlock, Types, ViewType
    <2>5. QED
      BY <1>8, <2>2, <2>3, <2>4 DEF PressUnlock, Types
  <1>9. CASE SignUnlock
    <2>1. unlock' \in UnlockType
      BY <1>9 DEF SignUnlock, Types, UnlockType
    <2>2. vault' \in VaultType /\ view' \in ViewType /\ load' \in [Loads -> LoadTask]
      <3>1. unlock.mode \in Modes
        BY DEF Types, UnlockType
      <3>2. CASE vault.sessionReady
        BY <1>9, <3>1, <3>2, UnlockedType DEF SignUnlock
      <3>3. CASE ~vault.sessionReady
        BY <1>9, <3>1, <3>3 DEF SignUnlock, Types, VaultType
      <3>4. QED
        BY <3>2, <3>3
    <2>3. QED
      BY <1>9, <2>1, <2>2 DEF SignUnlock, Types
  <1>10. CASE EnsureKey
    <2>1. unlock' \in UnlockType
      BY <1>10 DEF EnsureKey, Types, UnlockType
    <2>2. QED
      BY <1>10, <2>1 DEF EnsureKey, Types
  <1>11. CASE UnlockLoaded \/ UnlockFails
    <2>1. unlock.from \in Modes
      BY DEF Types, UnlockType
    <2>2. view' \in ViewType
      BY <1>11, <2>1 DEF UnlockLoaded, UnlockFails, Types, ViewType
    <2>3. QED
      BY <1>11, <2>2, IdleTypes DEF UnlockLoaded, UnlockFails, Types
  <1>12. ASSUME NEW l \in Loads, Loaded(l)
         PROVE  Types'
    <2>1. view' \in ViewType
      <3>1. load[l].from \in Modes /\ view \in ViewType
        BY DEF Types, LoadTask
      <3>2. Found(load[l]) \subseteq Modes \cup {Nothing}
        BY <3>1 DEF Found
      <3>3. QED
        BY <1>12, <3>1, <3>2 DEF Loaded, ViewType
    <2>2. load' \in [Loads -> LoadTask]
      BY <1>12, IdleTypes DEF Loaded, Types
    <2>3. QED
      BY <1>12, <2>1, <2>2 DEF Loaded, Types
  <1>13. CASE PressClaim
    <2>1. PICK c \in ConnectReady(mode) :
             /\ ready' = c.ready /\ connect' = c.connect
             /\ claim' = [pc |-> "connect", mode |-> mode, on |-> c.on, payment |-> view.claim]
      BY <1>13 DEF PressClaim
    <2>2. ready' \in ReadyType /\ connect' \in [Connects -> ConnectTask]
          /\ c.on \in Connects \cup {Nothing} /\ mode \in Modes
      BY <2>1, ConnectReadyType DEF Types
    <2>3. view.claim \in Modes
      BY <1>13 DEF PressClaim, Types, ViewType
    <2>4. claim' \in ClaimType
      BY <2>1, <2>2, <2>3 DEF ClaimType
    <2>5. QED
      BY <1>13, <2>2, <2>4 DEF PressClaim, Types
  <1>14. CASE Submit
    <2>1. claim' \in ClaimType
      BY <1>14, IdleTypes DEF Submit, Types, ClaimType
    <2>2. QED
      BY <1>14, <2>1 DEF Submit, Types
  <1>15. CASE Confirm
    <2>1. claim.payment \in Modes
      BY DEF Types, ClaimType
    <2>2. view' \in ViewType /\ settled' \subseteq Modes
      BY <1>15, <2>1 DEF Confirm, Types, ViewType
    <2>3. QED
      BY <1>15, <2>2, IdleTypes DEF Confirm, Types
  <1>16. CASE ClaimFails
    BY <1>16, IdleTypes DEF ClaimFails, Types
  <1>17. CASE UNCHANGED vars
    BY <1>17 DEF vars, Types
  <1>18. QED
    BY <1>1, <1>2, <1>3, <1>4, <1>5, <1>6, <1>7, <1>8, <1>9, <1>10, <1>11, <1>12, <1>13,
       <1>14, <1>15, <1>16, <1>17 DEF Next

\* Every variable of the tab keeps to its type.
THEOREM TypeCorrect == Spec => []TypeOK
  BY InitTypes, NextTypes, TypesAreTypeOK, PTL DEF Spec

-----------------------------------------------------------------------------
(* Connections to Ready. *)

\* What ClearedStaysCleared lacks to be inductive: nothing was dropped in a
\* generation still to come, so a connection of this one may be kept.
DroppedBefore == \A m \in Modes : since[m] <= ready.generation

\* A connection that was asked for before its network was dropped is not kept.
THEOREM ClearedStaysClearedHolds == Spec => []ClearedStaysCleared
  <1> DEFINE Inv == Types /\ DroppedBefore /\ ClearedStaysCleared
  <1>1. Init => Inv
    BY InitTypes DEF Init, DroppedBefore, ClearedStaysCleared
  <1>2. Inv /\ [Next]_vars => Inv'
    <2> SUFFICES ASSUME Inv, [Next]_vars PROVE Inv'
      OBVIOUS
    <2>1. Types'
      BY NextTypes
    <2>2. /\ ready.generation \in Nat /\ since \in [Modes -> Nat]
          /\ ready.connections \in [Modes -> Nat] /\ mode \in Modes
          /\ ready \in ReadyType
      BY DEF Types, ReadyType
    <2>3. CASE /\ ready'.generation = ready.generation
               /\ ready'.connections = ready.connections /\ UNCHANGED since
      BY <2>1, <2>3 DEF DroppedBefore, ClearedStaysCleared
    <2>4. CASE ClearConnections
      BY <2>1, <2>2, <2>4 DEF ClearConnections, DroppedBefore, ClearedStaysCleared
    <2>5. CASE ForceReconnect
      <3>1. /\ ready'.generation = ready.generation + 1
            /\ ready'.connections = [ready.connections EXCEPT ![mode] = 0]
            /\ since' = [since EXCEPT ![mode] = ready'.generation]
        BY <2>2, <2>5 DEF ForceReconnect, ReadyType
      <3>2. QED
        BY <2>1, <2>2, <3>1 DEF DroppedBefore, ClearedStaysCleared
    <2>6. ASSUME NEW k \in Connects, NEW ok \in BOOLEAN, Answered(k, ok)
          PROVE  Inv'
      <3>1. connect[k].mode \in Modes /\ connect[k].generation \in Nat
        BY DEF Types, ConnectTask
      <3>2. /\ ready'.generation = ready.generation /\ UNCHANGED since
            /\ \/ ready'.connections = ready.connections
               \/ ready'.connections = [ready.connections EXCEPT ![connect[k].mode] = Kept(k)]
        BY <2>2, <2>6, <3>1 DEF Answered, ReadyType
      <3>3. Kept(k) = ready.generation \/ Kept(k) = ready.connections[connect[k].mode]
        BY DEF Kept
      <3>4. QED
        BY <2>1, <2>2, <3>1, <3>2, <3>3 DEF DroppedBefore, ClearedStaysCleared
    <2>7. CASE PressUnlock
      <3>1. PICK c \in ConnectReady(mode) : ready' = c.ready
        BY <2>7 DEF PressUnlock
      <3>2. QED
        BY <2>2, <2>3, <2>7, <3>1, ConnectReadyType DEF PressUnlock
    <2>8. CASE PressClaim
      <3>1. PICK c \in ConnectReady(mode) : ready' = c.ready
        BY <2>8 DEF PressClaim
      <3>2. QED
        BY <2>2, <2>3, <2>8, <3>1, ConnectReadyType DEF PressClaim
    <2>9. CASE UNCHANGED <<ready, since>>
      BY <2>3, <2>9
    <2>10. QED
      BY <2>4, <2>5, <2>6, <2>7, <2>8, <2>9 DEF Next, vars, readyVars, Restore, SessionChanges,
         OtherTab, SetMode, SignUnlock, EnsureKey, UnlockLoaded, UnlockFails, Loaded, Submit,
         Confirm, ClaimFails
  <1>3. QED
    BY <1>1, <1>2, PTL DEF Spec

-----------------------------------------------------------------------------
(* The claim view and the network of the tab.  What ViewFollowsMode lacks to *)
(* be inductive: as long as the tab has not gone astray, the vault, the       *)
(* unlock and every load that still counts are of its network.                *)

Reading(l) == load[l].pc = "reading" /\ ~load[l].aborted

TabAgrees == /\ stored = mode /\ vault.of \in {Nothing, mode}
             /\ unlock.pc # "idle" => unlock.mode = mode
             /\ unlock.pc \in {"ensure", "load"} => unlock.from = mode
             /\ \A l \in Loads : Reading(l) => load[l].mode = mode /\ load[l].from = mode

ViewAgrees == vault.sessionReady =>
                 view.claim \in {Nothing, mode} \/ \E l \in Loads : Reading(l)

FollowInv == Types /\ (~astray => TabAgrees /\ ViewAgrees)

\* The loads of a tab that begins another one.
LEMMA LoadingBegins ==
    ASSUME NEW loads \in [Loads -> LoadTask], NEW m \in Modes, NEW v \in Modes,
           load' \in Loading(loads, m, v, m)
    PROVE  \E k \in Loads : /\ load'[k].pc = "reading" /\ ~load'[k].aborted
                            /\ load'[k].mode = m /\ load'[k].from = m
                            /\ \A l \in Loads : l # k => load'[l] = loads[l]
  <1> DEFINE task == [pc |-> "reading", mode |-> m, from |-> m, vault |-> v, aborted |-> FALSE]
  <1>1. PICK k \in Loads : load' = [loads EXCEPT ![k] = task]
    BY DEF Loading
  <1>2. QED
    BY <1>1

LEMMA UnlockedAgrees ==
    ASSUME Types, TabAgrees, NEW v \in {Nothing, mode}, Unlocked(v), UNCHANGED <<stored, mode>>
    PROVE  /\ vault'.of \in {Nothing, mode'} /\ ViewAgrees'
           /\ \A l \in Loads : Reading(l)' => load'[l].mode = mode' /\ load'[l].from = mode'
  <1>1. vault'.of = v /\ mode \in Modes /\ load \in [Loads -> LoadTask]
    BY DEF Unlocked, Types
  <1>2. CASE v = Nothing
    <2>1. UNCHANGED load /\ view' = [view EXCEPT !.claim = Nothing] /\ view \in ViewType
      BY <1>2 DEF Unlocked, Types
    <2>2. view'.claim = Nothing
      BY <2>1 DEF ViewType
    <2>3. QED
      BY <1>1, <1>2, <2>1, <2>2 DEF TabAgrees, ViewAgrees, Reading
  <1>3. CASE v # Nothing
    <2>1. load' \in Loading(load, mode, mode, mode)
      BY <1>3 DEF Unlocked, TabAgrees
    <2>2. PICK k \in Loads : /\ load'[k].pc = "reading" /\ ~load'[k].aborted
                             /\ load'[k].mode = mode /\ load'[k].from = mode
                             /\ \A l \in Loads : l # k => load'[l] = load[l]
      BY <1>1, <2>1, LoadingBegins
    <2>3. QED
      BY <1>1, <2>2 DEF TabAgrees, ViewAgrees, Reading
  <1>4. QED
    BY <1>2, <1>3

LEMMA SetModeAgrees ==
    ASSUME FollowInv, NEW m \in Modes, SetMode(m), ~astray'
    PROVE  TabAgrees' /\ ViewAgrees'
  <1> DEFINE aborted == [l \in Loads |-> [load[l] EXCEPT !.aborted = load[l].pc = "reading"]]
  <1>1. /\ unlock.pc = "idle" /\ UNCHANGED unlock
        /\ stored' = m /\ mode' = m /\ vault'.of = Nothing /\ ~vault'.sessionReady
    BY DEF SetMode, Restart
  <1>2. aborted \in [Loads -> LoadTask]
    BY DEF FollowInv, Types, LoadTask
  <1>3. \A l \in Loads : ~(aborted[l].pc = "reading" /\ ~aborted[l].aborted)
    BY DEF FollowInv, Types, LoadTask
  <1>4. load' = aborted \/ (vault.of \in Modes /\ load' \in Loading(aborted, m, vault.of, m))
    BY DEF SetMode, FollowInv, Types, VaultType
  <1> HIDE DEF aborted
  <1>5. ASSUME NEW l \in Loads, Reading(l)' PROVE load'[l].mode = m /\ load'[l].from = m
    <2>1. load' # aborted
      BY <1>3, <1>5 DEF Reading
    <2>2. PICK k \in Loads : /\ load'[k].mode = m /\ load'[k].from = m
                             /\ \A i \in Loads : i # k => load'[i] = aborted[i]
      BY <1>2, <1>4, <2>1, LoadingBegins
    <2>3. l = k
      BY <1>3, <1>5, <2>2 DEF Reading
    <2>4. QED
      BY <2>2, <2>3
  <1>6. QED
    BY <1>1, <1>5 DEF TabAgrees, ViewAgrees

LEMMA LoadedAgrees ==
    ASSUME FollowInv, NEW l \in Loads, Loaded(l), ~astray
    PROVE  TabAgrees' /\ ViewAgrees'
  <1>1. /\ UNCHANGED <<stored, mode, vault, unlock>> /\ load' = [load EXCEPT ![l] = IdleLoad]
        /\ load \in [Loads -> LoadTask] /\ view \in ViewType
        /\ TabAgrees /\ ViewAgrees /\ load[l].pc = "reading"
    BY DEF Loaded, FollowInv, Types
  <1>2. ~Reading(l)' /\ \A k \in Loads : k # l => load'[k] = load[k]
    BY <1>1 DEF Reading, IdleLoad
  <1>3. TabAgrees'
    BY <1>1, <1>2 DEF TabAgrees, Reading
  <1>4. PICK found \in Found(load[l]) :
           view'.claim = IF (~load[l].aborted /\ stored = load[l].mode) \/ found = Nothing
                         THEN found ELSE view.claim
    BY <1>1 DEF Loaded, ViewType
  <1>5. found \in {Nothing, load[l].from}
    BY DEF Found
  <1>6. CASE Reading(l)
    <2>1. load[l].mode = mode /\ load[l].from = mode /\ stored = mode
      BY <1>1, <1>6 DEF TabAgrees
    <2>2. view'.claim \in {Nothing, mode}
      BY <1>4, <1>5, <1>6, <2>1 DEF Reading
    <2>3. QED
      BY <1>1, <1>3, <2>2 DEF ViewAgrees
  <1>7. CASE ~Reading(l)
    <2>1. view'.claim \in {Nothing, view.claim}
      BY <1>1, <1>4, <1>7 DEF Reading
    <2>2. ASSUME NEW k \in Loads, Reading(k) PROVE Reading(k)'
      BY <1>2, <1>7, <2>2 DEF Reading
    <2>3. QED
      BY <1>1, <1>3, <2>1, <2>2 DEF ViewAgrees
  <1>8. QED
    BY <1>6, <1>7

\* A switch aborts what was begun before it, and a load that was aborted changes nothing.
THEOREM ViewFollowsModeHolds == Spec => []ViewFollowsMode
  <1>1. Init => FollowInv
    <2> SUFFICES ASSUME Init PROVE FollowInv
      OBVIOUS
    <2>1. \A l \in Loads : ~Reading(l)
      BY DEF Init, Reading, IdleLoad
    <2>2. TabAgrees /\ ViewAgrees
      BY <2>1 DEF Init, TabAgrees, ViewAgrees, IdleUnlock
    <2>3. QED
      BY <2>2, InitTypes DEF FollowInv
  <1>2. FollowInv /\ [Next]_vars => FollowInv'
    <2> SUFFICES ASSUME FollowInv, [Next]_vars, ~astray' PROVE TabAgrees' /\ ViewAgrees'
      BY NextTypes DEF FollowInv
    <2> USE DEF tabVars, readyVars, bounds
    <2>1. CASE \E m \in Modes : SetMode(m)
      BY <2>1, SetModeAgrees
    <2>2. CASE ~\E m \in Modes : SetMode(m)
      <3>1. ~OtherTab
        BY DEF OtherTab
      <3>a. UNCHANGED <<stored, mode, astray>>
        BY <2>2, <3>1 DEF Next, vars, Restore, SessionChanges, ClearConnections,
           ForceReconnect, Answered, PressUnlock, SignUnlock, EnsureKey, UnlockLoaded,
           UnlockFails, Loaded, PressClaim, Submit, Confirm, ClaimFails
      <3>2. ~astray /\ UNCHANGED <<stored, mode>>
        BY <3>a
      <3>3. Types /\ TabAgrees /\ ViewAgrees
        BY <3>2 DEF FollowInv
      <3>4. view \in ViewType /\ vault \in VaultType /\ unlock \in UnlockType
        BY <3>3 DEF Types
      <3>5. CASE Restore
        <4>1. PICK v \in {mode, vault.of} : Unlocked(v)
          BY <3>5 DEF Restore
        <4>2. v \in {Nothing, mode}
          BY <3>3 DEF TabAgrees
        <4>3. QED
          BY <3>2, <3>3, <3>5, <4>1, <4>2, UnlockedAgrees DEF Restore, TabAgrees
      <3>6. CASE SessionChanges
        <4>1. vault'.of = Nothing /\ ~vault'.sessionReady /\ UNCHANGED <<load, unlock>>
          BY <3>6 DEF SessionChanges, Restart
        <4>2. QED
          BY <3>2, <3>3, <4>1 DEF TabAgrees, ViewAgrees, Reading
      <3>7. CASE SignUnlock
        <4>1. unlock.mode = mode /\ unlock' = [unlock EXCEPT !.pc = "ensure", !.from = stored]
          BY <3>3, <3>7 DEF SignUnlock, TabAgrees
        <4>2. unlock'.mode = mode /\ unlock'.from = mode
          BY <3>3, <3>4, <4>1 DEF TabAgrees, UnlockType
        <4>3. CASE vault.sessionReady
          <5>1. Unlocked(mode)
            BY <3>7, <4>1, <4>3 DEF SignUnlock
          <5>2. QED
            BY <3>2, <3>3, <4>2, <5>1, UnlockedAgrees DEF TabAgrees
        <4>4. CASE ~vault.sessionReady
          <5>1. /\ vault'.of = mode /\ ~vault'.sessionReady /\ UNCHANGED load
            BY <3>4, <3>7, <4>1, <4>4 DEF SignUnlock, VaultType
          <5>2. QED
            BY <3>2, <3>3, <4>2, <5>1 DEF TabAgrees, ViewAgrees, Reading
        <4>5. QED
          BY <4>3, <4>4
      <3>8. CASE UnlockLoaded \/ UnlockFails
        <4>1. UNCHANGED <<vault, load>> /\ unlock' = IdleUnlock
          BY <3>8 DEF UnlockLoaded, UnlockFails
        <4>2. view'.claim \in {Nothing, mode, view.claim}
          BY <3>3, <3>4, <3>8 DEF UnlockLoaded, UnlockFails, TabAgrees, ViewType
        <4>3. QED
          BY <3>2, <3>3, <4>1, <4>2 DEF TabAgrees, ViewAgrees, Reading, IdleUnlock
      <3>9. CASE \E l \in Loads : Loaded(l)
        BY <3>2, <3>9, LoadedAgrees
      <3>10. CASE PressUnlock
        <4>1. PICK c \in ConnectReady(mode) :
                 unlock' = [IdleUnlock EXCEPT !.pc = "connect", !.mode = mode, !.on = c.on]
          BY <3>10 DEF PressUnlock
        <4>2. unlock'.mode = mode /\ unlock'.pc = "connect"
          BY <4>1 DEF IdleUnlock
        <4>3. view'.claim = view.claim /\ UNCHANGED <<vault, load>>
          BY <3>4, <3>10 DEF PressUnlock, ViewType
        <4>4. QED
          BY <3>2, <3>3, <4>2, <4>3 DEF TabAgrees, ViewAgrees, Reading
      <3>11. CASE EnsureKey
        <4>1. unlock'.mode = unlock.mode /\ unlock'.from = stored /\ unlock.pc = "ensure"
          BY <3>4, <3>11 DEF EnsureKey, UnlockType
        <4>2. UNCHANGED <<vault, load, view>>
          BY <3>11 DEF EnsureKey
        <4>3. QED
          BY <3>2, <3>3, <4>1, <4>2 DEF TabAgrees, ViewAgrees, Reading
      <3>12. CASE \E k \in Connects, ok \in BOOLEAN : Answered(k, ok)
        <4>1. \/ unlock'.pc = "idle"
              \/ unlock'.pc = unlock.pc /\ unlock'.mode = unlock.mode /\ unlock'.from = unlock.from
          BY <3>4, <3>12 DEF Answered, IdleUnlock, UnlockType
        <4>2. view'.claim = view.claim /\ UNCHANGED <<vault, load>>
          BY <3>4, <3>12 DEF Answered, ViewType
        <4>3. QED
          BY <3>2, <3>3, <4>1, <4>2 DEF TabAgrees, ViewAgrees, Reading
      <3>13. CASE UNCHANGED <<vault, load, unlock>> /\ view'.claim = view.claim
        BY <3>2, <3>3, <3>13 DEF TabAgrees, ViewAgrees, Reading
      <3>14. view' = [view EXCEPT !.success = claim.payment] => view'.claim = view.claim
        BY <3>4 DEF ViewType
      <3>15. QED
        BY <2>2, <3>1, <3>5, <3>6, <3>7, <3>8, <3>9, <3>10, <3>11, <3>12, <3>13, <3>14
        DEF Next, vars, ClearConnections, ForceReconnect, PressClaim, Submit, Confirm, ClaimFails
    <2>3. QED
      BY <2>1, <2>2
  <1>3. FollowInv => ViewFollowsMode
    BY DEF FollowInv, ViewAgrees, ViewFollowsMode, Reading
  <1>4. QED
    BY <1>1, <1>2, <1>3, PTL DEF Spec

-----------------------------------------------------------------------------
(* The identity that payers are given.  What KeyIsHeld lacks to be inductive: *)
(* types, what the vaults and the onboardings say of the identities they name, *)
(* which copies are fresh, and that every identity of the released class, in  *)
(* a vault, in an onboarding or registered, is of the key in the record.       *)

VaultRecord == [key : Nat, identity : Nat, class : Nat, block : Nat]
VaultCopy == [vault : VaultRecord, build : Nat, session : BOOLEAN, fresh : BOOLEAN]
Deployed == [class : Nat, block : Nat, key : Nat]
Onboarding == [pc : {"idle", "deploying", "deployed", "asking", "proving", "publish"},
               identity : Nat, since : Nat, proof : Nat]

IdentityTypes ==
    /\ app \in Apps /\ head \in Nat /\ release \in Nat
    /\ identities \in Seq(Deployed)
    /\ record \in VaultRecord /\ copy \in [Copies -> VaultCopy]
    /\ flow \in [Flows -> Onboarding]
    /\ binding \in Nat /\ keys \in Nat /\ overwritten \in BOOLEAN

IsWeb == app.name = "web"

\* A vault has a key, and knows the class and the block of its identity.
VaultOk(v) ==
    /\ v = I!NoVault \/ v.key # 0
    /\ v.identity # 0 =>
          /\ v.identity \in DOMAIN identities
          /\ IsWeb => /\ v.class = identities[v.identity].class
                      /\ identities[v.identity].block <= v.block

VaultsOk == VaultOk(record) /\ \A c \in Copies : VaultOk(copy[c].vault)

BuildsReleased == /\ \A c \in Copies : copy[c].build <= release
                  /\ \A i \in DOMAIN identities : identities[i].class <= release

FlowOk(f, onboarding) ==
    /\ onboarding.pc # "idle" => I!Vault(f).key # 0
    /\ onboarding.pc \in {"deployed", "asking", "proving", "publish"} =>
          onboarding.identity \in DOMAIN identities
    /\ onboarding.pc = "deployed" =>
          identities[onboarding.identity].class = copy[I!CopyOf(f)].build
    /\ IsWeb /\ onboarding.pc \in {"deployed", "asking", "proving"} =>
          identities[onboarding.identity].block <= onboarding.since
    /\ onboarding.pc = "proving" => onboarding.since <= onboarding.proof

FlowsOk == \A f \in Flows : FlowOk(f, flow[f])

FreshIsRecord ==
    \A c \in Copies : copy[c].fresh => copy[c].vault \in {I!NoVault, record} \/ record = I!NoVault

\* The record keeps the key, and no page of the released build clears it.
KeyIs(key) == record.key = key /\ (IsWeb => ~I!IsStale(record, release))

RegisteredHeld == \A i \in DOMAIN identities :
    identities[i].class = release /\ identities[i].key # 0 => KeyIs(identities[i].key)
VaultsHeld == \A c \in Copies :
    LET v == copy[c].vault
    IN  v.identity # 0 /\ identities[v.identity].class = release => KeyIs(v.key)
FlowsHeld == \A f \in Flows :
    flow[f].pc \in {"asking", "proving"} /\ identities[flow[f].identity].class = release =>
        KeyIs(I!Vault(f).key)

CurrentAreHeld == ~overwritten => RegisteredHeld /\ VaultsHeld /\ FlowsHeld

BindingOk == binding # 0 => binding \in DOMAIN identities /\ identities[binding].key # 0

IdentityInv == /\ IdentityTypes /\ VaultsOk /\ BuildsReleased /\ FlowsOk /\ FreshIsRecord
               /\ CurrentAreHeld /\ BindingOk

LEMMA IdentityAt ==
    ASSUME IdentityTypes
    PROVE  /\ Len(identities) \in Nat /\ DOMAIN identities = 1..Len(identities)
           /\ \A i \in DOMAIN identities :
                 /\ identities[i] \in Deployed
                 /\ identities[i].class \in Nat /\ identities[i].block \in Nat
                 /\ identities[i].key \in Nat
  <1>1. identities \in Seq(Deployed)
    BY DEF IdentityTypes
  <1>2. Len(identities) \in Nat /\ DOMAIN identities = 1..Len(identities)
        /\ \A i \in 1..Len(identities) : identities[i] \in Deployed
    BY <1>1
  <1>3. QED
    BY <1>2 DEF Deployed

LEMMA IdentitySuffices == IdentityInv => KeyIsHeld /\ ProofSeesIdentity
  <1> SUFFICES ASSUME IdentityInv PROVE KeyIsHeld /\ ProofSeesIdentity
    OBVIOUS
  <1>1. KeyIsHeld
    BY DEF IdentityInv, CurrentAreHeld, RegisteredHeld, BindingOk, KeyIs, KeyIsHeld, I!KeyIsHeld
  <1>2. ASSUME IsWeb, NEW f \in Flows, flow[f].pc = "proving"
        PROVE  identities[flow[f].identity].block <= flow[f].proof
    <2>1. /\ identities[flow[f].identity].block <= flow[f].since
          /\ flow[f].since <= flow[f].proof /\ flow[f].identity \in DOMAIN identities
      BY <1>2 DEF IdentityInv, FlowsOk, FlowOk
    <2>2. flow[f].since \in Nat /\ flow[f].proof \in Nat
          /\ identities[flow[f].identity].block \in Nat
      BY <2>1, IdentityAt DEF IdentityInv, IdentityTypes, Onboarding
    <2>3. QED
      BY <2>1, <2>2
  <1>3. QED
    BY <1>1, <1>2 DEF ProofSeesIdentity, I!ProofSeesIdentity, IsWeb

LEMMA IdentityInit == I!Init => IdentityInv
  <1> SUFFICES ASSUME I!Init PROVE IdentityInv
    OBVIOUS
  <1>1. I!NoVault \in VaultRecord /\ I!Locked \in VaultCopy /\ I!Idle \in Onboarding
    BY DEF I!NoVault, I!Locked, I!Idle, VaultRecord, VaultCopy, Onboarding
  <1>2. identities = <<>> /\ DOMAIN identities = {} /\ identities \in Seq(Deployed)
    BY DEF I!Init
  <1>3. IdentityTypes
    BY <1>1, <1>2 DEF I!Init, IdentityTypes
  <1>4. VaultsOk /\ FreshIsRecord
    BY <1>2 DEF I!Init, VaultsOk, VaultOk, FreshIsRecord, I!NoVault, I!Locked
  <1>5. BuildsReleased /\ FlowsOk /\ BindingOk
    BY <1>2 DEF I!Init, BuildsReleased, FlowsOk, FlowOk, BindingOk, I!Locked, I!Idle
  <1>6. CurrentAreHeld
    BY <1>2 DEF I!Init, CurrentAreHeld, RegisteredHeld, VaultsHeld, FlowsHeld, I!Locked,
       I!NoVault, I!Idle
  <1>7. QED
    BY <1>3, <1>4, <1>5, <1>6 DEF IdentityInv

LEMMA CopyOfType == ASSUME IdentityTypes, NEW f \in Flows PROVE I!CopyOf(f) \in Copies
  BY PrivateAssumption DEF IdentityTypes, I!CopyOf, I!PrivateIdentityAssumption, PrivateAssumption

\* A vault rewritten by a copy, under the key it has.
LEMMA WrittenIs ==
    ASSUME IdentityInv, NEW c \in Copies, NEW v \in VaultRecord, I!Written(c, v),
           UNCHANGED <<app, identities, release>>,
           copy[c].vault.key # 0, v.key = copy[c].vault.key, VaultOk(v),
           IsWeb => \/ v = copy[c].vault \/ v.identity = 0
                    \/ v.class = copy[c].build
    PROVE  /\ record' = v /\ record' \in VaultRecord
           /\ copy' \in [Copies -> VaultCopy] /\ overwritten' \in BOOLEAN
           /\ VaultsOk' /\ BuildsReleased' /\ FreshIsRecord'
           /\ \A d \in Copies : /\ copy'[d].vault = IF d = c THEN v ELSE copy[d].vault
                                /\ copy'[d].build = copy[d].build
                                /\ copy'[d].vault.key = copy[d].vault.key
           /\ ~overwritten' =>
                 /\ ~overwritten /\ copy[c].build = release
                 /\ \A key \in Nat \ {0} : KeyIs(key) => KeyIs(key)'
                 /\ RegisteredHeld' /\ VaultsHeld'
  <1> USE DEF IdentityInv, IdentityTypes
  <1>1. /\ record' = v
        /\ \A d \in Copies :
              copy'[d] = IF d = c THEN [copy[c] EXCEPT !.vault = v, !.fresh = TRUE]
                                  ELSE [copy[d] EXCEPT !.fresh = FALSE]
        /\ DOMAIN copy' = Copies /\ copy' = [d \in Copies |-> copy'[d]]
        /\ overwritten' = (overwritten \/ ~copy[c].fresh \/ copy[c].build # release)
    BY DEF I!Written
  <1>2. \A d \in Copies :
           /\ copy'[d] \in VaultCopy
           /\ copy'[d].vault = IF d = c THEN v ELSE copy[d].vault
           /\ copy'[d].build = copy[d].build
           /\ copy'[d].fresh => d = c
    <2>1. ASSUME NEW d \in Copies
          PROVE  copy[d] \in VaultCopy
      OBVIOUS
    <2>2. ASSUME NEW d \in Copies
          PROVE  /\ copy'[d] \in VaultCopy
                 /\ copy'[d].vault = IF d = c THEN v ELSE copy[d].vault
                 /\ copy'[d].build = copy[d].build
      <3>1. CASE d = c
        <4>1. copy'[d] = [copy[c] EXCEPT !.vault = v, !.fresh = TRUE] /\ copy[c] \in VaultCopy
          BY <1>1, <2>1, <3>1
        <4>2. QED
          BY <3>1, <4>1 DEF VaultCopy
      <3>2. CASE d # c
        <4>1. copy'[d] = [copy[d] EXCEPT !.fresh = FALSE] /\ copy[d] \in VaultCopy
          BY <1>1, <2>1, <3>2
        <4>2. QED
          BY <3>2, <4>1 DEF VaultCopy
      <3>3. QED
        BY <3>1, <3>2
    <2>3. ASSUME NEW d \in Copies, d # c
          PROVE  ~copy'[d].fresh
      <3>1. copy'[d] = [copy[d] EXCEPT !.fresh = FALSE] /\ copy[d] \in VaultCopy
        BY <1>1, <2>1, <2>3
      <3>2. copy'[d].fresh = FALSE
        BY <3>1 DEF VaultCopy
      <3>3. QED
        BY <3>2
    <2>4. QED
      BY <2>2, <2>3
  <1>3. copy' \in [Copies -> VaultCopy] /\ overwritten' \in BOOLEAN
    BY <1>1, <1>2
  <1>4. \A d \in Copies : copy'[d].vault.key = copy[d].vault.key
    BY <1>2
  <1>5. VaultsOk' /\ BuildsReleased' /\ FreshIsRecord'
    <2>1. VaultOk(v)' /\ VaultOk(record)'
      BY <1>1 DEF VaultOk, IsWeb
    <2>3. ASSUME NEW d \in Copies PROVE VaultOk(copy[d].vault)'
      <3>1. CASE d = c
        BY <1>2, <3>1 DEF VaultOk, IsWeb
      <3>2. CASE d # c
        BY <1>2, <3>2 DEF VaultsOk, VaultOk, IsWeb
      <3>3. QED
        BY <3>1, <3>2
    <2>2. VaultsOk'
      BY <2>1, <2>3 DEF VaultsOk
    <2>4. BuildsReleased'
      BY <1>2 DEF BuildsReleased
    <2>5. FreshIsRecord'
      BY <1>1, <1>2 DEF FreshIsRecord
    <2>6. QED
      BY <2>2, <2>4, <2>5
  <1>6. ASSUME ~overwritten'
        PROVE  /\ ~overwritten /\ copy[c].build = release
               /\ copy[c].vault = record \/ record = I!NoVault
    <2>1. ~overwritten /\ copy[c].fresh /\ copy[c].build = release
      BY <1>6 DEF I!Written
    <2>2. QED
      BY <2>1 DEF FreshIsRecord, I!NoVault
  <1>7. ASSUME ~overwritten', NEW key \in Nat \ {0}, KeyIs(key)
        PROVE  KeyIs(key)'
    <2>1. copy[c].vault = record /\ v.key = key
      BY <1>6, <1>7 DEF KeyIs, I!NoVault
    <2>2. IsWeb => ~I!IsStale(v, release)
      BY <1>6, <1>7, <2>1 DEF KeyIs, I!IsStale
    <2>3. QED
      BY <1>1, <2>1, <2>2 DEF KeyIs, IsWeb, I!IsStale
  <1>8. ASSUME ~overwritten'
        PROVE  RegisteredHeld'
    <2>1. ASSUME NEW i \in DOMAIN identities, identities[i].class = release, identities[i].key # 0
          PROVE  KeyIs(identities[i].key)'
      <3>1. PICK key \in Nat : key = identities[i].key
        BY IdentityAt
      <3>2. KeyIs(key)
        BY <1>6, <1>8, <2>1, <3>1 DEF CurrentAreHeld, RegisteredHeld
      <3>3. KeyIs(key)'
        BY <1>7, <1>8, <2>1, <3>1, <3>2
      <3>4. QED
        BY <3>1, <3>3 DEF KeyIs
    <2>2. QED
      BY <2>1 DEF RegisteredHeld
  <1>9. ASSUME ~overwritten', NEW d \in Copies, copy'[d].vault.identity # 0,
               identities[copy'[d].vault.identity].class = release
        PROVE  KeyIs(copy[d].vault.key)'
    <2>1. PICK key \in Nat : key = copy[d].vault.key /\ key = copy'[d].vault.key
      BY <1>4 DEF VaultCopy, VaultRecord
    <2>2. CASE copy'[d].vault = copy[d].vault
      <3>1. KeyIs(key) /\ key # 0
        BY <1>6, <1>9, <2>1, <2>2 DEF CurrentAreHeld, VaultsHeld, VaultsOk, VaultOk, I!NoVault
      <3>2. KeyIs(key)'
        BY <1>7, <1>9, <3>1
      <3>3. QED
        BY <2>1, <3>2 DEF KeyIs
    <2>3. CASE d = c /\ v # copy[c].vault
      <3>1. v.key = record'.key /\ copy'[d].vault = v
        BY <1>1, <1>2, <2>3
      <3>2. IsWeb => v.class = release
        BY <1>6, <1>9, <2>3, <3>1
      <3>3. QED
        BY <1>1, <3>1, <3>2 DEF KeyIs, IsWeb, I!IsStale
    <2>4. QED
      BY <1>2, <2>2, <2>3
  <1>10. ~overwritten' => VaultsHeld'
    BY <1>9 DEF VaultsHeld
  <1>11. QED
    BY <1>1, <1>2, <1>3, <1>4, <1>5, <1>6, <1>7, <1>8, <1>10

\* Identities are only added, and registered.
LEMMA IdentitiesGrow ==
    ASSUME VaultsOk, UNCHANGED <<app, record, copy>>,
           \A i \in DOMAIN identities : /\ i \in DOMAIN identities'
                                        /\ identities'[i].class = identities[i].class
                                        /\ identities'[i].block = identities[i].block
    PROVE  VaultsOk'
  <1>1. VaultOk(record)'
    BY DEF VaultsOk, VaultOk, IsWeb
  <1>2. ASSUME NEW c \in Copies PROVE VaultOk(copy[c].vault)'
    BY DEF VaultsOk, VaultOk, IsWeb
  <1>3. QED
    BY <1>1, <1>2 DEF VaultsOk

\* A step of an onboarding that writes nothing.
LEMMA FlowOnly ==
    ASSUME IdentityInv, NEW f \in Flows, NEW o \in Onboarding, flow' = [flow EXCEPT ![f] = o],
           UNCHANGED <<app, head, release, identities, record, copy, keys, overwritten>>,
           FlowOk(f, o),
           o.pc \in {"asking", "proving"} =>
              \/ flow[f].pc \in {"asking", "proving"} /\ o.identity = flow[f].identity
              \/ o.identity # 0 /\ o.identity = I!Vault(f).identity,
           binding' \in Nat, BindingOk'
    PROVE  IdentityInv'
  <1> USE DEF IdentityInv
  <1>1. flow \in [Flows -> Onboarding] /\ flow' \in [Flows -> Onboarding] /\ IdentityTypes'
    BY DEF IdentityTypes
  <1>2. VaultsOk' /\ BuildsReleased' /\ FreshIsRecord'
    BY DEF VaultsOk, VaultOk, IsWeb, BuildsReleased, FreshIsRecord
  <1>3. FlowsOk'
    <2>1. ASSUME NEW g \in Flows PROVE FlowOk(g, flow[g])'
      <3>1. CASE g = f
        <4>1. flow'[g] = o
          BY <1>1, <3>1
        <4>2. QED
          BY <3>1, <4>1 DEF FlowOk, IsWeb, I!Vault, I!CopyOf
      <3>2. CASE g # f
        <4>1. flow'[g] = flow[g] /\ FlowOk(g, flow[g])
          BY <1>1, <3>2 DEF FlowsOk
        <4>2. QED
          BY <4>1 DEF FlowOk, IsWeb, I!Vault, I!CopyOf
      <3>3. QED
        BY <3>1, <3>2
    <2>2. QED
      BY <2>1 DEF FlowsOk
  <1>4. CurrentAreHeld'
    <2>1. ASSUME ~overwritten PROVE RegisteredHeld' /\ VaultsHeld'
      BY <2>1 DEF CurrentAreHeld, RegisteredHeld, VaultsHeld, KeyIs, IsWeb
    <2>2. ASSUME ~overwritten, NEW g \in Flows, flow'[g].pc \in {"asking", "proving"},
                 identities[flow'[g].identity].class = release
          PROVE  KeyIs(I!Vault(g).key)'
      <3>1. \/ flow[g].pc \in {"asking", "proving"} /\ flow'[g].identity = flow[g].identity
            \/ flow'[g].identity # 0 /\ flow'[g].identity = I!Vault(g).identity
        BY <1>1, <2>2
      <3>2. KeyIs(I!Vault(g).key)
        BY <2>2, <3>1, CopyOfType DEF CurrentAreHeld, FlowsHeld, VaultsHeld, I!Vault
      <3>3. QED
        BY <3>2 DEF KeyIs, IsWeb, I!Vault, I!CopyOf
    <2>3. ~overwritten => FlowsHeld'
      BY <2>2 DEF FlowsHeld
    <2>4. QED
      BY <2>1, <2>3 DEF CurrentAreHeld
  <1>5. QED
    BY <1>1, <1>2, <1>3, <1>4

LEMMA FlowAt ==
    ASSUME IdentityInv, NEW f \in Flows
    PROVE  /\ flow \in [Flows -> Onboarding] /\ flow[f] \in Onboarding /\ FlowOk(f, flow[f])
           /\ flow[f].identity \in Nat /\ flow[f].since \in Nat /\ flow[f].proof \in Nat
           /\ I!CopyOf(f) \in Copies /\ copy[I!CopyOf(f)] \in VaultCopy
           /\ copy[I!CopyOf(f)].build \in Nat
           /\ I!Vault(f) = copy[I!CopyOf(f)].vault /\ I!Vault(f) \in VaultRecord
           /\ VaultOk(I!Vault(f))
  <1>1. flow \in [Flows -> Onboarding] /\ flow[f] \in Onboarding /\ FlowOk(f, flow[f])
    BY DEF IdentityInv, IdentityTypes, FlowsOk
  <1>2. flow[f].identity \in Nat /\ flow[f].since \in Nat /\ flow[f].proof \in Nat
    BY <1>1 DEF Onboarding
  <1>3. I!CopyOf(f) \in Copies
    BY CopyOfType DEF IdentityInv
  <1>4. copy[I!CopyOf(f)] \in VaultCopy /\ I!Vault(f) = copy[I!CopyOf(f)].vault
    BY <1>3 DEF IdentityInv, IdentityTypes, I!Vault
  <1>5. VaultOk(I!Vault(f))
    BY <1>3, <1>4 DEF IdentityInv, VaultsOk, VaultOk
  <1>6. QED
    BY <1>1, <1>2, <1>3, <1>4, <1>5 DEF VaultCopy

LEMMA QuietFlows ==
    ASSUME IdentityInv, NEW f \in Flows,
           I!GiveUp(f) \/ I!Registered(f) \/ I!SelectProofBlock(f) \/ I!Publish(f)
    PROVE  IdentityInv'
  <1> USE DEF I!world, I!chainVars
  <1>0. binding \in Nat /\ BindingOk /\ DOMAIN identities = 1..Len(identities)
        /\ Len(identities) \in Nat /\ head \in Nat /\ PrivateAssumption
    BY IdentityAt, PrivateAssumption DEF IdentityInv, IdentityTypes
  <1>1. I!Idle \in Onboarding /\ FlowOk(f, I!Idle) /\ I!Idle.pc = "idle"
    BY DEF I!Idle, Onboarding, FlowOk
  <1>2. CASE I!GiveUp(f)
    <2>1. /\ flow' = [flow EXCEPT ![f] = I!Idle] /\ UNCHANGED binding
          /\ UNCHANGED <<app, head, release, identities, record, copy, keys, overwritten>>
      BY <1>2 DEF I!GiveUp
    <2>2. BindingOk'
      BY <1>0, <2>1 DEF BindingOk
    <2> HIDE DEF I!Idle
    <2>3. QED
      BY <1>0, <1>1, <2>1, <2>2, FlowOnly
  <1>3. CASE I!Registered(f)
    <2> DEFINE o == [flow[f] EXCEPT !.pc = "publish"]
    <2>1. /\ flow' = [flow EXCEPT ![f] = o] /\ UNCHANGED binding
          /\ UNCHANGED <<app, head, release, identities, record, copy, keys, overwritten>>
          /\ flow[f].pc = "asking"
      BY <1>3, FlowAt DEF I!Registered, I!Go
    <2>2. o \in Onboarding /\ o.pc = "publish" /\ o.identity = flow[f].identity
      BY FlowAt DEF Onboarding
    <2>3. FlowOk(f, o)
      BY <2>1, <2>2, FlowAt DEF FlowOk
    <2>4. BindingOk'
      BY <1>0, <2>1 DEF BindingOk
    <2> HIDE DEF o
    <2>5. QED
      BY <1>0, <2>1, <2>2, <2>3, <2>4, FlowOnly
  <1>4. CASE I!SelectProofBlock(f)
    <2> DEFINE block0 == IF head > Margin THEN head - Margin ELSE 0
               o == [flow[f] EXCEPT !.pc = "proving", !.proof = block0]
    <2>0. block0 \in Nat
      BY <1>0 DEF PrivateAssumption, I!PrivateIdentityAssumption
    <2>1. /\ flow' = [flow EXCEPT ![f] = o] /\ UNCHANGED binding
          /\ UNCHANGED <<app, head, release, identities, record, copy, keys, overwritten>>
          /\ flow[f].pc = "asking" /\ block0 >= flow[f].since
      BY <1>4, FlowAt DEF I!SelectProofBlock
    <2> HIDE DEF block0
    <2>2. o \in Onboarding /\ o.pc = "proving" /\ o.identity = flow[f].identity
          /\ o.since = flow[f].since /\ o.proof = block0
      BY <2>0, FlowAt DEF Onboarding
    <2>3. o.since <= o.proof
      BY <2>0, <2>1, <2>2, FlowAt
    <2>4. FlowOk(f, o)
      BY <2>1, <2>2, <2>3, FlowAt DEF FlowOk
    <2>5. BindingOk'
      BY <1>0, <2>1 DEF BindingOk
    <2> HIDE DEF o
    <2>6. QED
      BY <1>0, <2>1, <2>2, <2>4, <2>5, FlowOnly
  <1>5. CASE I!Publish(f)
    <2>1. /\ flow' = [flow EXCEPT ![f] = I!Idle]
          /\ UNCHANGED <<app, head, release, identities, record, copy, keys, overwritten>>
          /\ binding' = IF I!Admissible(flow[f].identity) THEN flow[f].identity ELSE binding
          /\ flow[f].pc = "publish"
      BY <1>5 DEF I!Publish
    <2>2. flow[f].identity \in DOMAIN identities /\ flow[f].identity \in Nat
      BY <2>1, FlowAt DEF FlowOk
    <2>3. BindingOk' /\ binding' \in Nat
      BY <1>0, <2>1, <2>2 DEF BindingOk, I!Admissible
    <2> HIDE DEF I!Idle
    <2>4. QED
      BY <1>1, <2>1, <2>3, FlowOnly
  <1>6. QED
    BY <1>2, <1>3, <1>4, <1>5

\* A copy replaced while nothing works on it, or by an empty one.
LEMMA CopyReplaced ==
    ASSUME IdentityInv, NEW c \in Copies, NEW w \in VaultCopy, copy' = [copy EXCEPT ![c] = w],
           UNCHANGED <<app, head, release, identities, record, binding, overwritten>>,
           VaultOk(w.vault), w.build <= release,
           w.vault \in {I!NoVault, record} \/ record = I!NoVault,
           w.vault.identity # 0 => w.vault = record,
           flow' \in [Flows -> Onboarding], keys' \in Nat,
           \A f \in Flows : flow'[f] = flow[f] \/ flow'[f].pc = "idle",
           \A f \in Flows : I!CopyOf(f) = c => flow'[f].pc = "idle"
    PROVE  IdentityInv'
  <1> USE DEF IdentityInv
  <1>1. copy \in [Copies -> VaultCopy] /\ copy' \in [Copies -> VaultCopy] /\ copy'[c] = w
        /\ \A d \in Copies \ {c} : copy'[d] = copy[d]
    BY DEF IdentityTypes
  <1>2. IdentityTypes'
    BY <1>1 DEF IdentityTypes
  <1>3. VaultsOk'
    <2>1. VaultOk(record)'
      BY DEF VaultsOk, VaultOk, IsWeb
    <2>2. ASSUME NEW d \in Copies PROVE VaultOk(copy[d].vault)'
      <3>1. CASE d = c
        BY <1>1, <3>1 DEF VaultOk, IsWeb
      <3>2. CASE d # c
        BY <1>1, <3>2 DEF VaultsOk, VaultOk, IsWeb
      <3>3. QED
        BY <3>1, <3>2
    <2>3. QED
      BY <2>1, <2>2 DEF VaultsOk
  <1>4. BuildsReleased'
    BY <1>1 DEF BuildsReleased
  <1>5. FreshIsRecord'
    BY <1>1 DEF FreshIsRecord
  <1>6. FlowsOk'
    <2>1. ASSUME NEW f \in Flows, flow'[f].pc # "idle"
          PROVE  flow'[f] = flow[f] /\ I!CopyOf(f) \in Copies \ {c} /\ FlowOk(f, flow[f])
      BY <2>1, CopyOfType DEF FlowsOk
    <2>2. ASSUME NEW f \in Flows, flow'[f].pc # "idle" PROVE FlowOk(f, flow[f])'
      BY <1>1, <2>1, <2>2 DEF FlowOk, IsWeb, I!Vault, I!CopyOf
    <2>3. ASSUME NEW f \in Flows, flow'[f].pc = "idle" PROVE FlowOk(f, flow[f])'
      BY <2>3 DEF FlowOk
    <2>4. QED
      BY <2>2, <2>3 DEF FlowsOk
  <1>7. ASSUME ~overwritten PROVE RegisteredHeld' /\ VaultsHeld' /\ FlowsHeld'
    <2>1. RegisteredHeld'
      BY <1>7 DEF CurrentAreHeld, RegisteredHeld, KeyIs, IsWeb
    <2>2. ASSUME NEW d \in Copies, copy'[d].vault.identity # 0,
                 identities[copy'[d].vault.identity].class = release
          PROVE  KeyIs(copy[d].vault.key)'
      <3>1. CASE d = c
        <4>1. copy'[d].vault = record /\ record.identity # 0 /\ VaultOk(record)
          BY <1>1, <2>2, <3>1 DEF VaultsOk
        <4>2. IsWeb => record.class = release
          BY <2>2, <4>1 DEF VaultOk
        <4>3. QED
          BY <4>1, <4>2 DEF KeyIs, IsWeb, I!IsStale
      <3>2. CASE d # c
        BY <1>1, <1>7, <2>2, <3>2 DEF CurrentAreHeld, VaultsHeld, KeyIs, IsWeb
      <3>3. QED
        BY <3>1, <3>2
    <2>3. ASSUME NEW f \in Flows, flow'[f].pc \in {"asking", "proving"},
                 identities[flow'[f].identity].class = release
          PROVE  KeyIs(I!Vault(f).key)'
      <3>1. flow'[f] = flow[f] /\ I!CopyOf(f) \in Copies \ {c}
        BY <2>3, CopyOfType
      <3>2. KeyIs(I!Vault(f).key)
        BY <1>7, <2>3, <3>1 DEF CurrentAreHeld, FlowsHeld
      <3>3. QED
        BY <1>1, <3>1, <3>2 DEF KeyIs, IsWeb, I!Vault, I!CopyOf
    <2>4. QED
      BY <2>1, <2>2, <2>3 DEF VaultsHeld, FlowsHeld
  <1>8. BindingOk'
    BY DEF BindingOk
  <1>9. QED
    BY <1>2, <1>3, <1>4, <1>5, <1>6, <1>7, <1>8 DEF CurrentAreHeld

LEMMA EmptyVaultOk ==
    /\ I!NoVault \in VaultRecord /\ I!NoVault.identity = 0 /\ VaultOk(I!NoVault)
    /\ \A key \in Nat \ {0} :
          /\ [I!NoVault EXCEPT !.key = key] \in VaultRecord
          /\ [I!NoVault EXCEPT !.key = key].identity = 0
          /\ VaultOk([I!NoVault EXCEPT !.key = key])
  BY DEF I!NoVault, VaultRecord, VaultOk

LEMMA UnlockStep ==
    ASSUME IdentityInv, NEW c \in Copies, I!Unlock(c)
    PROVE  IdentityInv'
  <1> USE DEF I!world, I!chainVars
  <1>1. PICK v \in VaultRecord :
           /\ copy' = [copy EXCEPT ![c] = [copy[c] EXCEPT !.vault = v, !.session = TRUE,
                                                          !.fresh = TRUE]]
           /\ \/ v = record /\ UNCHANGED keys
              \/ /\ record = I!NoVault /\ keys' = keys + 1
                 /\ v = [I!NoVault EXCEPT !.key = keys + 1]
    <2>1. CASE record # I!NoVault
      BY <2>1 DEF I!Unlock, IdentityInv, IdentityTypes
    <2>2. CASE record = I!NoVault
      <3>1. keys + 1 \in Nat \ {0}
        BY DEF IdentityInv, IdentityTypes
      <3>2. [I!NoVault EXCEPT !.key = keys + 1] \in VaultRecord
        BY <3>1, EmptyVaultOk
      <3>3. QED
        BY <2>2, <3>2 DEF I!Unlock, IdentityInv, IdentityTypes
    <2>3. QED
      BY <2>1, <2>2
  <1> DEFINE w == [copy[c] EXCEPT !.vault = v, !.session = TRUE, !.fresh = TRUE]
  <1>2. copy[c] \in VaultCopy /\ keys \in Nat /\ keys' \in Nat /\ flow \in [Flows -> Onboarding]
        /\ VaultOk(record)
    BY <1>1 DEF IdentityInv, IdentityTypes, VaultsOk
  <1>3. w \in VaultCopy /\ w.vault = v /\ w.build = copy[c].build
    BY <1>2 DEF VaultCopy
  <1>4. VaultOk(v) /\ (v \in {I!NoVault, record} \/ record = I!NoVault)
        /\ (v.identity # 0 => v = record)
    <2>1. CASE v = record
      BY <1>2, <2>1
    <2>2. CASE record = I!NoVault /\ v = [I!NoVault EXCEPT !.key = keys + 1]
      <3>1. keys + 1 \in Nat \ {0}
        BY <1>2
      <3>2. v.identity = 0 /\ VaultOk(v)
        BY <2>2, <3>1, EmptyVaultOk
      <3>3. QED
        BY <2>2, <3>2
    <2>3. QED
      BY <1>1, <2>1, <2>2
  <1>5. /\ UNCHANGED <<app, head, release, identities, record, binding, overwritten, flow>>
        /\ \A f \in Flows : I!CopyOf(f) = c => flow[f].pc = "idle"
    BY DEF I!Unlock, I!Busy
  <1>6. w.build <= release
    BY <1>3 DEF IdentityInv, BuildsReleased
  <1>7. copy' = [copy EXCEPT ![c] = w]
    BY <1>1
  <1> HIDE DEF w
  <1>8. QED
    BY <1>2, <1>3, <1>4, <1>5, <1>6, <1>7, CopyReplaced

LEMMA ReloadStep ==
    ASSUME IdentityInv, NEW c \in Copies, I!Reload(c)
    PROVE  IdentityInv'
  <1> USE DEF I!world, I!chainVars
  <1>1. PICK session \in BOOLEAN :
           copy' = [copy EXCEPT ![c] = [I!Locked EXCEPT !.build = release, !.session = session]]
    <2>1. copy[c].session \in BOOLEAN
      BY DEF IdentityInv, IdentityTypes, VaultCopy
    <2>2. (copy[c].session /\ app.name = "web") \in BOOLEAN
      OBVIOUS
    <2>3. QED
      BY <2>2 DEF I!Reload
  <1> DEFINE w == [I!Locked EXCEPT !.build = release, !.session = session]
  <1>2. /\ release \in Nat /\ keys \in Nat /\ flow \in [Flows -> Onboarding]
        /\ I!Idle \in Onboarding /\ I!Idle.pc = "idle"
    BY DEF IdentityInv, IdentityTypes, I!Idle, Onboarding
  <1>3. w \in VaultCopy /\ w.vault = I!NoVault /\ w.build = release
    BY <1>2, EmptyVaultOk DEF VaultCopy, I!Locked
  <1>4. /\ UNCHANGED <<app, head, release, identities, record, binding, overwritten, keys>>
        /\ flow' = [f \in Flows |-> IF I!CopyOf(f) = c THEN I!Idle ELSE flow[f]]
    BY DEF I!Reload
  <1>5. copy' = [copy EXCEPT ![c] = w]
    BY <1>1
  <1>6. /\ flow' \in [Flows -> Onboarding]
        /\ \A f \in Flows : flow'[f] = flow[f] \/ flow'[f].pc = "idle"
        /\ \A f \in Flows : I!CopyOf(f) = c => flow'[f].pc = "idle"
    <2> HIDE DEF I!Idle
    <2>1. QED
      BY <1>2, <1>4
  <1> HIDE DEF w
  <1>7. VaultOk(w.vault) /\ w.vault.identity = 0 /\ w.build <= release /\ keys' \in Nat
    BY <1>2, <1>3, <1>4, EmptyVaultOk
  <1>8. QED
    BY <1>3, <1>4, <1>5, <1>6, <1>7, CopyReplaced

LEMMA RestoreStep ==
    ASSUME IdentityInv, NEW c \in Copies, I!Restore(c)
    PROVE  IdentityInv'
  <1> USE DEF I!world, I!chainVars
  <1>1. /\ copy \in [Copies -> VaultCopy] /\ copy[c] \in VaultCopy /\ record \in VaultRecord
        /\ keys \in Nat /\ flow \in [Flows -> Onboarding] /\ VaultOk(record) /\ release \in Nat
    BY DEF IdentityInv, IdentityTypes, VaultsOk
  <1>2. /\ UNCHANGED <<app, head, release, identities, binding, flow, keys>> /\ IsWeb
        /\ \A f \in Flows : I!CopyOf(f) = c => flow[f].pc = "idle"
    BY DEF I!Restore, I!Busy, IsWeb
  <1>3. CASE ~I!IsStale(record, copy[c].build)
    <2> DEFINE w == [copy[c] EXCEPT !.vault = record, !.fresh = TRUE]
    <2>1. copy' = [copy EXCEPT ![c] = w] /\ UNCHANGED <<record, overwritten>>
      BY <1>1, <1>3 DEF I!Restore
    <2>2. w \in VaultCopy /\ w.vault = record /\ w.build = copy[c].build
      BY <1>1 DEF VaultCopy
    <2>3. w.build <= release
      BY <2>2 DEF IdentityInv, BuildsReleased
    <2> HIDE DEF w
    <2>4. QED
      BY <1>1, <1>2, <2>1, <2>2, <2>3, CopyReplaced
  <1>4. CASE I!IsStale(record, copy[c].build)
    <2> USE DEF IdentityInv
    <2>1. /\ record' = I!NoVault
          /\ copy' = [d \in Copies |->
                        IF d = c THEN [I!Locked EXCEPT !.build = copy[c].build]
                                 ELSE [copy[d] EXCEPT !.fresh = FALSE]]
      BY <1>4 DEF I!Restore
    <2>2. ASSUME NEW d \in Copies
          PROVE  /\ copy'[d] \in VaultCopy /\ copy'[d].build = copy[d].build
                 /\ copy'[d].vault = IF d = c THEN I!NoVault ELSE copy[d].vault
      <3>1. CASE d = c
        <4>1. copy'[d] = [I!Locked EXCEPT !.build = copy[c].build]
          BY <2>1, <3>1
        <4>2. I!Locked \in VaultCopy /\ copy[c].build \in Nat /\ I!Locked.vault = I!NoVault
          BY <1>1, EmptyVaultOk DEF VaultCopy, I!Locked
        <4>3. QED
          BY <3>1, <4>1, <4>2 DEF VaultCopy
      <3>2. CASE d # c
        <4>1. copy'[d] = [copy[d] EXCEPT !.fresh = FALSE] /\ copy[d] \in VaultCopy
          BY <1>1, <2>1, <3>2
        <4>2. QED
          BY <3>2, <4>1 DEF VaultCopy
      <3>3. QED
        BY <3>1, <3>2
    <2>3. overwritten' \in BOOLEAN /\ (~overwritten' => ~overwritten /\ copy[c].build = release)
      <3>1. overwritten' = (overwritten \/ copy[c].build # release)
        BY <1>4 DEF I!Restore
      <3>2. QED
        BY <3>1
    <2>4. IdentityTypes'
      <3>1. copy' \in [Copies -> VaultCopy]
        BY <2>1, <2>2
      <3>2. QED
        BY <1>2, <2>1, <2>3, <3>1, EmptyVaultOk DEF IdentityTypes
    <2>5. VaultsOk'
      <3>1. VaultOk(record)'
        BY <2>1 DEF VaultOk, I!NoVault
      <3>2. ASSUME NEW d \in Copies PROVE VaultOk(copy[d].vault)'
        <4>1. CASE d = c
          BY <2>2, <4>1 DEF VaultOk, I!NoVault
        <4>2. CASE d # c
          BY <1>2, <2>2, <4>2 DEF VaultsOk, VaultOk, IsWeb
        <4>3. QED
          BY <4>1, <4>2
      <3>3. QED
        BY <3>1, <3>2 DEF VaultsOk
    <2>6. BuildsReleased' /\ FreshIsRecord'
      BY <1>2, <2>1, <2>2 DEF BuildsReleased, FreshIsRecord
    <2>7. FlowsOk'
      <3>1. ASSUME NEW f \in Flows PROVE FlowOk(f, flow[f])'
        <4>1. CASE flow[f].pc = "idle"
          BY <1>2, <4>1 DEF FlowOk
        <4>2. CASE flow[f].pc # "idle"
          <5>1. I!CopyOf(f) \in Copies \ {c} /\ FlowOk(f, flow[f])
            BY <1>2, <4>2, FlowAt
          <5>2. QED
            BY <1>2, <2>2, <5>1 DEF FlowOk, IsWeb, I!Vault, I!CopyOf
        <4>3. QED
          BY <4>1, <4>2
      <3>2. QED
        BY <3>1 DEF FlowsOk
    <2>8. ASSUME ~overwritten' PROVE RegisteredHeld' /\ VaultsHeld' /\ FlowsHeld'
      <3>1. ~overwritten /\ \A key : ~KeyIs(key)
        BY <1>2, <1>4, <2>3, <2>8 DEF KeyIs
      <3>2. RegisteredHeld'
        BY <1>2, <3>1 DEF CurrentAreHeld, RegisteredHeld
      <3>3. ASSUME NEW d \in Copies, copy'[d].vault.identity # 0,
                   identities[copy'[d].vault.identity].class = release
            PROVE  FALSE
        BY <2>2, <3>1, <3>3 DEF CurrentAreHeld, VaultsHeld, I!NoVault
      <3>4. QED
        BY <1>2, <3>1, <3>2, <3>3 DEF CurrentAreHeld, VaultsHeld, FlowsHeld
    <2>9. BindingOk'
      BY <1>2 DEF BindingOk
    <2>10. QED
      BY <2>4, <2>5, <2>6, <2>7, <2>8, <2>9 DEF CurrentAreHeld
  <1>5. QED
    BY <1>3, <1>4

\* The same with what happens to the onboardings meanwhile.
LEMMA WrittenStep ==
    ASSUME IdentityInv, NEW c \in Copies, NEW v \in VaultRecord, I!Written(c, v),
           UNCHANGED <<app, head, identities, release, binding, keys>>,
           copy[c].vault.key # 0, v.key = copy[c].vault.key, VaultOk(v),
           IsWeb => \/ v = copy[c].vault \/ v.identity = 0
                    \/ v.class = copy[c].build,
           flow' \in [Flows -> Onboarding],
           \A g \in Flows :
              \/ flow'[g] = flow[g]
              \/ /\ I!CopyOf(g) = c /\ FlowOk(g, flow'[g])
                 /\ flow'[g].pc \in {"deploying", "asking"}
                 /\ flow'[g].pc = "asking" =>
                       v.identity # 0 /\ flow'[g].identity = v.identity
    PROVE  IdentityInv'
  <1>1. /\ record' = v /\ record' \in VaultRecord
        /\ copy' \in [Copies -> VaultCopy] /\ overwritten' \in BOOLEAN
        /\ VaultsOk' /\ BuildsReleased' /\ FreshIsRecord'
        /\ \A d \in Copies : /\ copy'[d].vault = IF d = c THEN v ELSE copy[d].vault
                             /\ copy'[d].build = copy[d].build
                             /\ copy'[d].vault.key = copy[d].vault.key
        /\ ~overwritten' =>
              /\ ~overwritten /\ copy[c].build = release
              /\ \A key \in Nat \ {0} : KeyIs(key) => KeyIs(key)'
              /\ RegisteredHeld' /\ VaultsHeld'
    BY WrittenIs
  <1> USE DEF IdentityInv
  <1>2. IdentityTypes'
    BY <1>1 DEF IdentityTypes
  <1>3. FlowsOk'
    <2>1. ASSUME NEW g \in Flows PROVE FlowOk(g, flow[g])'
      <3>1. FlowOk(g, flow'[g]) /\ I!CopyOf(g) \in Copies
        BY CopyOfType DEF FlowsOk
      <3>2. copy'[I!CopyOf(g)].vault.key = copy[I!CopyOf(g)].vault.key
            /\ copy'[I!CopyOf(g)].build = copy[I!CopyOf(g)].build
        BY <1>1, <3>1
      <3>3. QED
        BY <3>1, <3>2 DEF FlowOk, IsWeb, I!Vault, I!CopyOf
    <2>2. QED
      BY <2>1 DEF FlowsOk
  <1>4. ASSUME ~overwritten', NEW g \in Flows, flow'[g].pc \in {"asking", "proving"},
               identities[flow'[g].identity].class = release
        PROVE  KeyIs(I!Vault(g).key)'
    <2>1. I!CopyOf(g) \in Copies /\ I!Vault(g) = copy[I!CopyOf(g)].vault
          /\ copy'[I!CopyOf(g)].vault.key = I!Vault(g).key
      BY <1>1, CopyOfType DEF I!Vault
    <2>2. CASE flow'[g] = flow[g]
      <3>1. PICK key \in Nat : key = I!Vault(g).key
        BY FlowAt DEF VaultRecord
      <3>2. key # 0
        BY <1>4, <2>2, <3>1, FlowAt DEF FlowOk
      <3>3. KeyIs(key)
        BY <1>1, <1>4, <2>2, <3>1 DEF CurrentAreHeld, FlowsHeld
      <3>4. KeyIs(key)'
        BY <1>1, <1>4, <3>2, <3>3
      <3>5. QED
        BY <2>1, <3>1, <3>4 DEF KeyIs, I!Vault, I!CopyOf
    <2>3. CASE flow'[g] # flow[g]
      <3>1. I!CopyOf(g) = c /\ v.identity # 0 /\ flow'[g].identity = v.identity
        BY <1>4, <2>3
      <3>2. copy'[c].vault = v
        BY <1>1
      <3>3. KeyIs(copy[c].vault.key)'
        BY <1>1, <1>4, <3>1, <3>2 DEF VaultsHeld
      <3>4. QED
        BY <2>1, <3>1, <3>3 DEF KeyIs, I!Vault, I!CopyOf
    <2>4. QED
      BY <2>2, <2>3
  <1>5. BindingOk'
    BY DEF BindingOk
  <1>6. QED
    BY <1>1, <1>2, <1>3, <1>4, <1>5 DEF CurrentAreHeld, FlowsHeld

LEMMA SaveStep ==
    ASSUME IdentityInv, NEW c \in Copies, I!Save(c)
    PROVE  IdentityInv'
  <1> USE DEF I!world, I!chainVars
  <1>1. PICK v \in VaultRecord : v = copy[c].vault /\ VaultOk(v)
    BY DEF IdentityInv, IdentityTypes, VaultsOk, VaultCopy
  <1>2. v # I!NoVault /\ I!Written(c, v)
        /\ UNCHANGED <<app, head, identities, release, binding, keys, flow>>
    BY <1>1 DEF I!Save
  <1>3. v.key # 0
    BY <1>1, <1>2 DEF VaultOk
  <1>4. flow \in [Flows -> Onboarding]
    BY DEF IdentityInv, IdentityTypes
  <1>5. QED
    BY <1>1, <1>2, <1>3, <1>4, WrittenStep

\* Where an onboarding begins: at the identity of the vault, or at none.
LEMMA BeginIs ==
    ASSUME IdentityInv, NEW f \in Flows, NEW v \in VaultRecord, I!Begin(f, v),
           VaultOk(v), I!Vault(f).key # 0
    PROVE  \E o \in Onboarding :
              /\ flow' = [flow EXCEPT ![f] = o] /\ FlowOk(f, o)
              /\ o.pc \in {"deploying", "asking"}
              /\ o.pc = "asking" => v.identity # 0 /\ o.identity = v.identity
  <1> DEFINE o == [pc |-> IF v.identity = 0 THEN "deploying" ELSE "asking",
                   identity |-> v.identity, since |-> v.block, proof |-> 0]
  <1>1. flow' = [flow EXCEPT ![f] = o]
    BY DEF I!Begin
  <1>2. /\ o \in Onboarding /\ o.pc \in {"deploying", "asking"}
        /\ o.pc = "asking" => v.identity # 0 /\ o.identity = v.identity
    BY DEF Onboarding, VaultRecord
  <1>3. o.identity = v.identity /\ o.since = v.block
    OBVIOUS
  <1> HIDE DEF o
  <1>4. FlowOk(f, o)
    BY <1>2, <1>3 DEF FlowOk, VaultOk
  <1>5. QED
    BY <1>1, <1>2, <1>4

LEMMA OnboardStep ==
    ASSUME IdentityInv, NEW f \in Flows, I!Onboard(f)
    PROVE  IdentityInv'
  <1> USE DEF I!world, I!chainVars
  <1>1. PICK v \in VaultRecord : v = I!Vault(f) /\ VaultOk(v)
    BY FlowAt
  <1>2. v.key # 0
    BY <1>1 DEF I!Onboard, VaultOk
  <1>3. /\ UNCHANGED <<app, head, identities, release, binding, keys>>
        /\ binding \in Nat /\ flow \in [Flows -> Onboarding] /\ BindingOk
    BY DEF I!Onboard, IdentityInv, IdentityTypes
  <1>4. CASE I!Begin(f, v) /\ UNCHANGED <<record, copy, overwritten>>
    <2>1. PICK o \in Onboarding :
              /\ flow' = [flow EXCEPT ![f] = o] /\ FlowOk(f, o)
              /\ o.pc \in {"deploying", "asking"}
              /\ o.pc = "asking" => v.identity # 0 /\ o.identity = v.identity
      BY <1>1, <1>2, <1>4, BeginIs
    <2>2. BindingOk'
      BY <1>3 DEF BindingOk
    <2>3. QED
      BY <1>1, <1>3, <1>4, <2>1, <2>2, FlowOnly
  <1> DEFINE kept == [I!NoVault EXCEPT !.key = v.key]
  <1>5. CASE I!Begin(f, kept) /\ I!Written(I!CopyOf(f), kept)
    <2>1. v.key \in Nat \ {0}
      BY <1>2 DEF VaultRecord
    <2>2. PICK w \in VaultRecord : w = kept /\ w.identity = 0 /\ VaultOk(w)
                                       /\ w.key = v.key
      <3>1. kept.key = v.key
        BY DEF I!NoVault
      <3>2. QED
        BY <2>1, <3>1, EmptyVaultOk
    <2> HIDE DEF kept
    <2>3. PICK o \in Onboarding :
              /\ flow' = [flow EXCEPT ![f] = o] /\ FlowOk(f, o)
              /\ o.pc \in {"deploying", "asking"}
              /\ o.pc = "asking" => w.identity # 0 /\ o.identity = w.identity
      BY <1>1, <1>2, <1>5, <2>2, BeginIs
    <2>4. PICK c \in Copies : c = I!CopyOf(f) /\ copy[c].vault = v
      BY <1>1, FlowAt
    <2>5. I!Written(c, w)
      BY <1>5, <2>2, <2>4
    <2>6. /\ flow' \in [Flows -> Onboarding]
          /\ \A g \in Flows :
                \/ flow'[g] = flow[g]
                \/ /\ I!CopyOf(g) = c /\ FlowOk(g, flow'[g])
                   /\ flow'[g].pc \in {"deploying", "asking"}
                   /\ flow'[g].pc = "asking" =>
                         w.identity # 0 /\ flow'[g].identity = w.identity
      BY <1>3, <2>3, <2>4
    <2>7. QED
      BY <1>2, <1>3, <2>2, <2>4, <2>5, <2>6, WrittenStep
  <1>6. QED
    BY <1>1, <1>4, <1>5 DEF I!Onboard, I!CurrentIdentity

LEMMA SetIdentityAddressStep ==
    ASSUME IdentityInv, NEW f \in Flows, I!SetIdentityAddress(f)
    PROVE  IdentityInv'
  <1> USE DEF I!world, I!chainVars
  <1>1. PICK c \in Copies : c = I!CopyOf(f) /\ copy[c].vault = I!Vault(f)
    BY FlowAt
  <1>2. /\ UNCHANGED <<app, head, identities, release, binding, keys>>
        /\ flow[f].pc = "deployed" /\ flow' = [flow EXCEPT ![f].pc = "asking"]
        /\ I!Written(c, I!WithIdentity(f))
    BY <1>1 DEF I!SetIdentityAddress, I!Go
  <1>3. /\ flow[f].identity \in DOMAIN identities
        /\ identities[flow[f].identity].class = copy[c].build
        /\ IsWeb => identities[flow[f].identity].block <= flow[f].since
        /\ I!Vault(f).key # 0
        /\ flow[f].identity \in Nat /\ flow[f].identity # 0
    BY <1>1, <1>2, FlowAt, IdentityAt DEF FlowOk, IdentityInv
  <1>4. PICK v \in VaultRecord :
           /\ v = I!WithIdentity(f) /\ v.key = copy[c].vault.key
           /\ v.identity = flow[f].identity
           /\ IsWeb => v.class = copy[c].build /\ v.block = flow[f].since
    <2>1. CASE IsWeb
      <3>1. I!WithIdentity(f) = [copy[c].vault EXCEPT !.identity = flow[f].identity,
                                                     !.class = copy[c].build,
                                                     !.block = flow[f].since]
        BY <1>1, <2>1 DEF I!WithIdentity, IsWeb
      <3>2. copy[c].vault \in VaultRecord /\ copy[c].build \in Nat /\ flow[f].since \in Nat
        BY <1>1, FlowAt
      <3>3. QED
        BY <1>3, <3>1, <3>2 DEF VaultRecord
    <2>2. CASE ~IsWeb
      <3>1. I!WithIdentity(f) = [copy[c].vault EXCEPT !.identity = flow[f].identity]
        BY <1>1, <2>2 DEF I!WithIdentity, IsWeb
      <3>2. copy[c].vault \in VaultRecord
        BY <1>1, FlowAt
      <3>3. QED
        BY <1>3, <2>2, <3>1, <3>2 DEF VaultRecord
    <2>3. QED
      BY <2>1, <2>2
  <1>5. VaultOk(v)
    BY <1>1, <1>3, <1>4 DEF VaultOk
  <1> DEFINE o == [flow[f] EXCEPT !.pc = "asking"]
  <1>6. /\ o \in Onboarding /\ o.pc = "asking" /\ o.identity = flow[f].identity
        /\ o.since = flow[f].since /\ flow \in [Flows -> Onboarding]
        /\ flow' = [flow EXCEPT ![f] = o]
    BY <1>2, FlowAt DEF Onboarding
  <1> HIDE DEF o
  <1>7. FlowOk(f, o)
    BY <1>3, <1>6 DEF FlowOk
  <1>8. /\ flow' \in [Flows -> Onboarding]
        /\ \A g \in Flows :
              \/ flow'[g] = flow[g]
              \/ /\ I!CopyOf(g) = c /\ FlowOk(g, flow'[g])
                 /\ flow'[g].pc \in {"deploying", "asking"}
                 /\ flow'[g].pc = "asking" =>
                       v.identity # 0 /\ flow'[g].identity = v.identity
    BY <1>1, <1>3, <1>4, <1>6, <1>7
  <1>9. I!Written(c, v)
    BY <1>2, <1>4
  <1>10. QED
    BY <1>1, <1>2, <1>3, <1>4, <1>5, <1>8, <1>9, WrittenStep

\* Deploy and Submit: an identity is added, or registered, and a flow goes on.
LEMMA IdentitiesStep ==
    ASSUME IdentityInv, NEW f \in Flows, NEW o \in Onboarding, flow' = [flow EXCEPT ![f] = o],
           UNCHANGED <<app, head, release, record, copy, keys, binding, overwritten>>,
           identities' \in Seq(Deployed),
           \A i \in DOMAIN identities : /\ i \in DOMAIN identities'
                                        /\ identities'[i].class = identities[i].class
                                        /\ identities'[i].block = identities[i].block
                                        /\ identities[i].key # 0 => identities'[i].key # 0
           , o.pc \notin {"asking", "proving"}, FlowOk(f, o)',
           \A i \in DOMAIN identities' : identities'[i].class <= release,
           ~overwritten => RegisteredHeld'
    PROVE  IdentityInv'
  <1> USE DEF IdentityInv
  <1>1. flow \in [Flows -> Onboarding] /\ flow' \in [Flows -> Onboarding] /\ IdentityTypes'
    BY DEF IdentityTypes
  <1>2. VaultsOk'
    BY IdentitiesGrow
  <1>3. BuildsReleased' /\ FreshIsRecord'
    BY DEF BuildsReleased, FreshIsRecord
  <1>4. FlowsOk'
    <2>1. ASSUME NEW g \in Flows PROVE FlowOk(g, flow[g])'
      <3>1. CASE g = f
        <4>1. flow'[g] = o
          BY <1>1, <3>1
        <4>2. QED
          BY <3>1, <4>1 DEF FlowOk
      <3>2. CASE g # f
        <4>1. flow'[g] = flow[g] /\ FlowOk(g, flow[g])
          BY <1>1, <3>2 DEF FlowsOk
        <4>2. QED
          BY <4>1 DEF FlowOk, IsWeb, I!Vault, I!CopyOf
      <3>3. QED
        BY <3>1, <3>2
    <2>2. QED
      BY <2>1 DEF FlowsOk
  <1>5. ASSUME ~overwritten PROVE VaultsHeld' /\ FlowsHeld'
    <2>1. ASSUME NEW d \in Copies, copy[d].vault.identity # 0,
                 identities'[copy[d].vault.identity].class = release
          PROVE  KeyIs(copy[d].vault.key)'
      <3>1. copy[d].vault.identity \in DOMAIN identities
        BY <2>1 DEF VaultsOk, VaultOk
      <3>2. KeyIs(copy[d].vault.key)
        BY <1>5, <2>1, <3>1 DEF CurrentAreHeld, VaultsHeld
      <3>3. QED
        BY <3>2 DEF KeyIs, IsWeb
    <2>2. ASSUME NEW g \in Flows, flow'[g].pc \in {"asking", "proving"},
                 identities'[flow'[g].identity].class = release
          PROVE  KeyIs(I!Vault(g).key)'
      <3>1. flow'[g] = flow[g]
        BY <1>1, <2>2
      <3>2. flow[g].identity \in DOMAIN identities
        BY <2>2, <3>1 DEF FlowsOk, FlowOk
      <3>3. KeyIs(I!Vault(g).key)
        BY <1>5, <2>2, <3>1, <3>2 DEF CurrentAreHeld, FlowsHeld
      <3>4. QED
        BY <3>3 DEF KeyIs, IsWeb, I!Vault, I!CopyOf
    <2>3. QED
      BY <2>1, <2>2 DEF VaultsHeld, FlowsHeld
  <1>6. BindingOk'
    BY DEF BindingOk
  <1>7. QED
    BY <1>1, <1>2, <1>3, <1>4, <1>5, <1>6 DEF CurrentAreHeld

LEMMA DeployStep ==
    ASSUME IdentityInv, NEW f \in Flows, I!Deploy(f)
    PROVE  IdentityInv'
  <1> DEFINE new == [class |-> copy[I!CopyOf(f)].build, block |-> head, key |-> 0]
             last == Len(identities) + 1
  <1>1. /\ identities \in Seq(Deployed) /\ head \in Nat /\ release \in Nat
        /\ DOMAIN identities = 1..Len(identities) /\ Len(identities) \in Nat
    BY IdentityAt DEF IdentityInv, IdentityTypes
  <1>2. /\ new \in Deployed /\ new.class = copy[I!CopyOf(f)].build /\ new.block = head
        /\ new.key = 0
    BY <1>1, FlowAt DEF Deployed
  <1>3. /\ identities' = Append(identities, new)
        /\ UNCHANGED <<app, head, release, record, copy, keys, binding, overwritten>>
        /\ flow[f].pc = "deploying"
    BY DEF I!Deploy, I!world
  <1> HIDE DEF new
  <1>4. /\ identities' \in Seq(Deployed) /\ Len(identities') = last
        /\ DOMAIN identities' = 1..last /\ identities'[last] = new
        /\ \A i \in DOMAIN identities : identities'[i] = identities[i]
    BY <1>1, <1>2, <1>3
  <1>13. PICK o \in Onboarding :
             o = [pc |-> "deployed", identity |-> last, since |-> head, proof |-> 0]
    <2>1. [pc |-> "deployed", identity |-> last, since |-> head, proof |-> 0] \in Onboarding
      BY <1>1 DEF Onboarding
    <2>2. QED
      BY <2>1, Zenon
  <1>5. flow' = [flow EXCEPT ![f] = o]
    BY <1>4, <1>13 DEF I!Deploy
  <1>6. o.pc = "deployed" /\ o.identity = last /\ o.since = head
    BY <1>13
  <1>7. last \in DOMAIN identities' /\ DOMAIN identities \subseteq DOMAIN identities'
    BY <1>1, <1>4
  <1> HIDE DEF last
  <1>8. FlowOk(f, o)'
    <2>1. I!Vault(f).key # 0
      BY <1>3, FlowAt DEF FlowOk
    <2>2. QED
      BY <1>1, <1>2, <1>3, <1>4, <1>6, <1>7, <2>1 DEF FlowOk, IsWeb, I!Vault, I!CopyOf
  <1>9. \A i \in DOMAIN identities' : i = last \/ i \in DOMAIN identities
    BY <1>1, <1>4 DEF last
  <1>10. \A i \in DOMAIN identities' : identities'[i].class <= release
    BY <1>2, <1>4, <1>9, FlowAt DEF IdentityInv, BuildsReleased
  <1>11. ~overwritten => RegisteredHeld'
    BY <1>2, <1>3, <1>4, <1>9 DEF IdentityInv, CurrentAreHeld, RegisteredHeld, KeyIs, IsWeb
  <1>12. QED
    BY <1>3, <1>4, <1>5, <1>6, <1>7, <1>8, <1>10, <1>11, IdentitiesStep

LEMMA SubmitStep ==
    ASSUME IdentityInv, NEW f \in Flows, I!Submit(f)
    PROVE  IdentityInv'
  <1> USE DEF I!world, I!chainVars
  <1>1. /\ UNCHANGED <<app, head, release, record, copy, keys, binding, overwritten>>
        /\ flow[f].pc = "proving" /\ binding \in Nat /\ BindingOk
    BY DEF I!Submit, IdentityInv, IdentityTypes
  <1>2. CASE ~(I!Affordable /\ I!Provable(f))
    <2>1. flow' = [flow EXCEPT ![f] = I!Idle] /\ UNCHANGED identities
      BY <1>2 DEF I!Submit
    <2>2. I!Idle \in Onboarding /\ FlowOk(f, I!Idle) /\ I!Idle.pc = "idle" /\ BindingOk'
      BY <1>1, <2>1 DEF I!Idle, Onboarding, FlowOk, BindingOk
    <2> HIDE DEF I!Idle
    <2>3. QED
      BY <1>1, <2>1, <2>2, FlowOnly
  <1>3. CASE I!Affordable /\ I!Provable(f)
    <2>10. PICK o \in Onboarding : o = [flow[f] EXCEPT !.pc = "publish"]
      BY FlowAt DEF Onboarding
    <2>11. PICK j \in Nat : j = flow[f].identity
      BY FlowAt
    <2>1. PICK key \in Nat \ {0} : key = I!Vault(f).key
      BY <1>1, FlowAt DEF FlowOk, VaultRecord
    <2>2. identities' = [identities EXCEPT ![j].key = key] /\ flow' = [flow EXCEPT ![f] = o]
      BY <1>3, <2>10, <2>11, <2>1, FlowAt DEF I!Submit, I!Go
    <2>3. j \in DOMAIN identities /\ o \in Onboarding /\ o.pc = "publish" /\ o.identity = j
      BY <1>1, <2>10, <2>11, FlowAt DEF FlowOk, Onboarding
    <2>4. /\ \A i \in DOMAIN identities :
                /\ identities'[i] \in Deployed
                /\ identities'[i].class = identities[i].class
                /\ identities'[i].block = identities[i].block
                /\ identities'[i].key = IF i = j THEN key ELSE identities[i].key
          /\ DOMAIN identities' = DOMAIN identities
      <3>1. \A i \in DOMAIN identities : identities[i] \in Deployed
        BY IdentityAt DEF IdentityInv
      <3>2. ASSUME NEW i \in DOMAIN identities
            PROVE  /\ identities'[i] \in Deployed
                   /\ identities'[i].class = identities[i].class
                   /\ identities'[i].block = identities[i].block
                   /\ identities'[i].key = IF i = j THEN key ELSE identities[i].key
        <4>1. CASE i = j
          <5>1. identities'[i] = [identities[i] EXCEPT !.key = key] /\ identities[i] \in Deployed
            BY <2>2, <2>3, <3>1, <4>1
          <5>2. QED
            BY <4>1, <5>1 DEF Deployed
        <4>2. CASE i # j
          BY <2>2, <2>3, <3>1, <4>2
        <4>3. QED
          BY <4>1, <4>2
      <3>3. QED
        BY <2>2, <3>2
    <2>5. identities' \in Seq(Deployed)
      <3>1. /\ DOMAIN identities' = 1..Len(identities) /\ Len(identities) \in Nat
            /\ identities' = [i \in 1..Len(identities) |-> identities'[i]]
        BY <2>2, IdentityAt DEF IdentityInv
      <3>2. \A i \in 1..Len(identities) : identities'[i] \in Deployed
        BY <2>4, <3>1
      <3>3. QED
        BY <3>1, <3>2
    <2>6. FlowOk(f, o)'
      <3>1. I!Vault(f).key # 0
        BY <2>1
      <3>2. QED
        BY <1>1, <2>3, <2>4, <3>1 DEF FlowOk, I!Vault, I!CopyOf
    <2>7. \A i \in DOMAIN identities' : identities'[i].class <= release
      BY <2>4 DEF IdentityInv, BuildsReleased
    <2>8. ASSUME ~overwritten PROVE RegisteredHeld'
      <3>1. ASSUME NEW i \in DOMAIN identities, identities[i].class = release,
                   identities'[i].key # 0
            PROVE  KeyIs(identities[i].key)'
        <4>1. CASE i = j
          <5>1. KeyIs(key)
            BY <1>1, <2>11, <2>1, <2>8, <3>1, <4>1 DEF IdentityInv, CurrentAreHeld, FlowsHeld
          <5>2. QED
            BY <1>1, <2>4, <4>1, <5>1 DEF KeyIs, IsWeb
        <4>2. CASE i # j
          BY <1>1, <2>4, <2>8, <3>1, <4>2
             DEF IdentityInv, CurrentAreHeld, RegisteredHeld, KeyIs, IsWeb
        <4>3. QED
          BY <4>1, <4>2
      <3>2. QED
        BY <1>1, <2>4, <3>1 DEF RegisteredHeld
    <2>9. QED
      BY <1>1, <2>2, <2>3, <2>4, <2>5, <2>6, <2>7, <2>8, IdentitiesStep
  <1>4. QED
    BY <1>2, <1>3

LEMMA ReleaseStep ==
    ASSUME IdentityInv, I!Release \/ I!NewBlock \/ UNCHANGED I!vars
    PROVE  IdentityInv'
  <1> USE DEF IdentityInv, I!world, I!chainVars
  <1>1. /\ UNCHANGED <<app, identities, record, copy, flow, binding, keys, overwritten>>
        /\ release \in Nat /\ head \in Nat
    BY DEF I!Release, I!NewBlock, I!vars, IdentityTypes
  <1>2. release' \in Nat /\ head' \in Nat /\ release' >= release
        /\ (release' = release \/ release' = release + 1)
    BY <1>1 DEF I!Release, I!NewBlock, I!vars
  <1>3. IdentityTypes'
    BY <1>1, <1>2 DEF IdentityTypes
  <1>4. VaultsOk' /\ FlowsOk' /\ FreshIsRecord' /\ BindingOk'
    BY <1>1 DEF VaultsOk, VaultOk, FlowsOk, FlowOk, FreshIsRecord, BindingOk, IsWeb,
       I!Vault, I!CopyOf
  <1>5. /\ \A c \in Copies : copy[c].build \in Nat /\ copy[c].build <= release
        /\ \A i \in DOMAIN identities : identities[i].class \in Nat /\ identities[i].class <= release
    BY IdentityAt DEF IdentityTypes, VaultCopy, BuildsReleased
  <1>6. BuildsReleased'
    BY <1>1, <1>2, <1>5 DEF BuildsReleased
  <1>7. CurrentAreHeld'
    <2>1. CASE release' = release
      BY <1>1, <2>1 DEF CurrentAreHeld, RegisteredHeld, VaultsHeld, FlowsHeld, KeyIs, IsWeb,
         I!Vault, I!CopyOf
    <2>2. CASE release' = release + 1
      <3>1. \A i \in DOMAIN identities : identities'[i].class # release'
        BY <1>1, <1>5, <2>2
      <3>2. /\ \A c \in Copies : copy[c].vault.identity # 0 =>
                                    copy[c].vault.identity \in DOMAIN identities
            /\ \A f \in Flows : flow[f].pc \in {"asking", "proving"} =>
                                    flow[f].identity \in DOMAIN identities
        BY DEF VaultsOk, VaultOk, FlowsOk, FlowOk
      <3>3. QED
        BY <1>1, <3>1, <3>2 DEF CurrentAreHeld, RegisteredHeld, VaultsHeld, FlowsHeld
    <2>3. QED
      BY <1>2, <2>1, <2>2
  <1>8. QED
    BY <1>3, <1>4, <1>6, <1>7

LEMMA IdentityNext == IdentityInv /\ (I!Next \/ UNCHANGED I!vars) => IdentityInv'
  BY ReleaseStep, UnlockStep, SaveStep, RestoreStep, ReloadStep, OnboardStep, QuietFlows,
     DeployStep, SetIdentityAddressStep, SubmitStep DEF I!Next

LEMMA SceneIdentity == SceneSpec => []IdentityInv
  <1>1. SceneInit => IdentityInv
    BY IdentityInit DEF SceneInit
  <1>2. IdentityInv /\ [SceneNext]_all => IdentityInv'
    <2>1. [SceneNext]_all => I!Next \/ UNCHANGED I!vars
      BY DEF SceneNext, all, identity, I!vars
    <2>2. QED
      BY <2>1, IdentityNext
  <1>3. QED
    BY <1>1, <1>2, PTL DEF SceneSpec

\* The identity payers are given is registered under the viewing key local
\* storage keeps.
THEOREM KeyIsHeldHolds == SceneSpec => []KeyIsHeld
  BY SceneIdentity, IdentitySuffices, PTL

\* The web app's proofs are made on a block that has the identity.
THEOREM ProofSeesIdentityHolds == SceneSpec => []ProofSeesIdentity
  BY SceneIdentity, IdentitySuffices, PTL

-----------------------------------------------------------------------------
(* The payments of the smoke page.  ClaimIsAimed needs what the fields and  *)
(* the shown secrets say of the payments they name; ProofSeesWrites, that   *)
(* the page remembers the block of its last write and that, while nothing   *)
(* has blurred it, one flow runs at most.                                   *)

Pools == {"direct", "cctp"}
Statuses == {"promised", "burnt", "held", "gone"}
Payment == [pool : Pools, status : Statuses, inbox : BOOLEAN]
Task == [pc : {"idle", "waiting", "proving", "landed"}, since : Nat, proof : Nat,
         payment : Nat, pool : Pools, at : Nat]
PageState == [minimum : Nat, secret : Nat, inbox : BOOLEAN, loading : BOOLEAN,
              burning : BOOLEAN, wrote : Nat]

PaymentTypes ==
    /\ block \in Nat /\ payments \in Seq(Payment) /\ known \subseteq DOMAIN payments
    /\ page \in PageState /\ running \in [P!Buttons -> Task] /\ blurred \in BOOLEAN

In(p, pool) == p \in DOMAIN payments /\ payments[p].pool = pool

InboxIsCctp == \A p \in DOMAIN payments : payments[p].inbox => payments[p].pool = "cctp"
KnownAreDirect == \A p \in known : In(p, "direct")
FieldsAgree == page.secret # 0 => In(page.secret, IF page.inbox THEN "cctp" ELSE "direct")
TaskAimed(b, task) ==
    /\ b = "claim" /\ task.pc # "idle" => In(task.payment, task.pool)
    /\ b = "fund" /\ task.pc = "landed" => In(task.payment, "direct")
TasksAimed == \A b \in P!Buttons : TaskAimed(b, running[b])

AimInv == InboxIsCctp /\ KnownAreDirect /\ FieldsAgree /\ TasksAimed

TaskSees(task) == /\ task.pc = "waiting" => page.wrote <= task.since
                  /\ task.pc = "proving" => page.wrote <= task.proof
Alone(b) == \A c \in P!Buttons : running[c].pc # "idle" => c = b

WritesInv ==
    /\ page.wrote = page.minimum /\ page.wrote <= block
    /\ \A b \in P!Buttons : running[b].pc = "landed" => running[b].at <= block
    /\ ~blurred => \A b \in P!Buttons : running[b].pc # "idle" =>
                       Alone(b) /\ TaskSees(running[b])

PaymentsInv == PaymentTypes /\ AimInv /\ WritesInv

LEMMA PaymentsSuffice == PaymentsInv => ClaimIsAimed /\ ProofSeesWrites
  <1>1. "claim" \in P!Buttons
    BY DEF P!Buttons
  <1>2. PaymentsInv => ClaimIsAimed
    BY <1>1 DEF PaymentsInv, AimInv, TasksAimed, TaskAimed, In, ClaimIsAimed, P!ClaimIsAimed
  <1>3. PaymentsInv => ProofSeesWrites
    BY DEF PaymentsInv, WritesInv, TaskSees, ProofSeesWrites, P!ProofSeesWrites
  <1>4. QED
    BY <1>2, <1>3

LEMMA PaymentsInit == P!Init => PaymentsInv
  <1> SUFFICES ASSUME P!Init PROVE PaymentsInv
    OBVIOUS
  <1>1. P!Idle \in Task /\ P!NewPage \in PageState
    BY DEF P!Idle, P!NewPage, Task, PageState, Pools
  <1>2. payments = <<>> /\ DOMAIN payments = {} /\ payments \in Seq(Payment)
    BY DEF P!Init
  <1>3. PaymentTypes
    BY <1>1, <1>2 DEF P!Init, PaymentTypes
  <1>4. AimInv
    BY <1>2 DEF P!Init, AimInv, InboxIsCctp, KnownAreDirect, FieldsAgree, TasksAimed, TaskAimed,
       P!NewPage, P!Idle
  <1>5. WritesInv
    BY DEF P!Init, WritesInv, P!NewPage, P!Idle
  <1>6. QED
    BY <1>3, <1>4, <1>5 DEF PaymentsInv

-----------------------------------------------------------------------------
\* Payments are added and change their status; their pool stays.
PoolsKept ==
    /\ payments' \in Seq(Payment)
    /\ \A p \in DOMAIN payments : /\ p \in DOMAIN payments'
                                  /\ payments'[p].pool = payments[p].pool
    /\ InboxIsCctp'

LEMMA PaymentAt ==
    ASSUME PaymentsInv
    PROVE  /\ payments \in Seq(Payment) /\ Len(payments) \in Nat
           /\ DOMAIN payments = 1..Len(payments)
           /\ \A p \in DOMAIN payments : payments[p] \in Payment
  <1>1. payments \in Seq(Payment)
    BY DEF PaymentsInv, PaymentTypes
  <1>2. QED
    BY <1>1

LEMMA PaymentsSame == ASSUME PaymentsInv, UNCHANGED payments PROVE PoolsKept
  BY DEF PaymentsInv, PaymentTypes, AimInv, InboxIsCctp, PoolsKept

LEMMA PaymentAdded ==
    ASSUME PaymentsInv, NEW new \in Payment, new.inbox => new.pool = "cctp",
           payments' = Append(payments, new)
    PROVE  PoolsKept /\ Len(payments') \in DOMAIN payments' /\ payments'[Len(payments')] = new
  <1>1. /\ payments \in Seq(Payment) /\ Len(payments) \in Nat
        /\ DOMAIN payments = 1..Len(payments) /\ InboxIsCctp
    BY PaymentAt DEF PaymentsInv, AimInv
  <1>2. /\ payments' \in Seq(Payment) /\ Len(payments') = Len(payments) + 1
        /\ DOMAIN payments' = 1..(Len(payments) + 1)
        /\ payments'[Len(payments) + 1] = new
        /\ \A p \in DOMAIN payments : payments'[p] = payments[p]
    BY <1>1
  <1>3. \A p \in DOMAIN payments' : p \in DOMAIN payments \/ p = Len(payments) + 1
    BY <1>1, <1>2
  <1>4. InboxIsCctp'
    BY <1>1, <1>2, <1>3 DEF InboxIsCctp
  <1>5. QED
    BY <1>1, <1>2, <1>4 DEF PoolsKept

\* A rewriting of the statuses.
LEMMA StatusesOnly ==
    ASSUME PaymentsInv, DOMAIN payments' = DOMAIN payments,
           payments' = [p \in DOMAIN payments |-> payments'[p]],
           \A p \in DOMAIN payments :
              \E status \in Statuses : payments'[p] = [payments[p] EXCEPT !.status = status]
    PROVE  PoolsKept
  <1>1. ASSUME NEW p \in DOMAIN payments
        PROVE  /\ payments'[p] \in Payment /\ payments'[p].pool = payments[p].pool
               /\ payments'[p].inbox = payments[p].inbox
    <2>1. PICK status \in Statuses : payments'[p] = [payments[p] EXCEPT !.status = status]
      OBVIOUS
    <2>2. payments[p] \in Payment
      BY PaymentAt
    <2>3. QED
      BY <2>1, <2>2 DEF Payment
  <1>2. payments' \in Seq(Payment)
    <2>1. /\ DOMAIN payments = 1..Len(payments) /\ Len(payments) \in Nat
          /\ payments' = [p \in 1..Len(payments) |-> payments'[p]]
      BY PaymentAt
    <2>2. \A p \in 1..Len(payments) : payments'[p] \in Payment
      BY <1>1, <2>1
    <2>3. QED
      BY <2>1, <2>2
  <1>3. InboxIsCctp
    BY DEF PaymentsInv, AimInv
  <1>4. InboxIsCctp'
    BY <1>1, <1>3 DEF InboxIsCctp
  <1>5. QED
    BY <1>1, <1>2, <1>4 DEF PoolsKept

LEMMA StatusOnly ==
    ASSUME PaymentsInv, NEW p \in DOMAIN payments, NEW status \in Statuses,
           payments' = [payments EXCEPT ![p].status = status]
    PROVE  PoolsKept
  <1>1. DOMAIN payments' = DOMAIN payments
        /\ payments' = [q \in DOMAIN payments |-> payments'[q]]
    BY PaymentAt
  <1>2. ASSUME NEW q \in DOMAIN payments
        PROVE  \E s \in Statuses : payments'[q] = [payments[q] EXCEPT !.status = s]
    <2>1. CASE q = p
      BY <2>1
    <2>2. CASE q # p
      <3>1. payments'[q] = payments[q] /\ payments[q] \in Payment
        BY <2>2, PaymentAt
      <3>2. payments[q].status \in Statuses
            /\ payments[q] = [payments[q] EXCEPT !.status = payments[q].status]
        BY <3>1 DEF Payment
      <3>3. QED
        BY <3>1, <3>2
    <2>3. QED
      BY <2>1, <2>2
  <1>3. QED
    BY <1>1, <1>2, StatusesOnly

LEMMA InKept ==
    ASSUME PoolsKept, NEW p, NEW pool, In(p, pool) PROVE In(p, pool)'
  BY DEF PoolsKept, In

LEMMA KnownKept ==
    ASSUME PaymentsInv, PoolsKept, UNCHANGED known
    PROVE  known' \subseteq DOMAIN payments' /\ KnownAreDirect'
  BY DEF PaymentsInv, PaymentTypes, AimInv, KnownAreDirect, PoolsKept, In

\* The flow of one button takes a step.
LEMMA TaskStep ==
    ASSUME PaymentsInv, NEW b \in P!Buttons, NEW task \in Task,
           running' = [running EXCEPT ![b] = task], UNCHANGED <<block, known, page>>,
           PoolsKept, blurred' \in BOOLEAN, TaskAimed(b, task)',
           task.pc = "landed" => task.at <= block,
           ~blurred' => /\ ~blurred /\ Alone(b)
                        /\ task.pc # "idle" => TaskSees(task)
    PROVE  PaymentsInv'
  <1> USE DEF PaymentsInv
  <1>1. /\ running \in [P!Buttons -> Task] /\ running' \in [P!Buttons -> Task]
        /\ running'[b] = task /\ \A c \in P!Buttons : c # b => running'[c] = running[c]
    BY DEF PaymentTypes
  <1>2. PaymentTypes'
    BY <1>1, KnownKept DEF PaymentTypes, PoolsKept
  <1>3. FieldsAgree'
    BY InKept DEF AimInv, FieldsAgree
  <1>4. TasksAimed'
    <2>1. ASSUME NEW c \in P!Buttons PROVE TaskAimed(c, running[c])'
      <3>1. CASE c = b
        BY <1>1, <3>1 DEF TaskAimed
      <3>2. CASE c # b
        <4>1. TaskAimed(c, running[c]) /\ running'[c] = running[c]
          BY <1>1, <3>2 DEF AimInv, TasksAimed
        <4>2. QED
          BY <4>1, InKept DEF TaskAimed
      <3>3. QED
        BY <3>1, <3>2
    <2>2. QED
      BY <2>1 DEF TasksAimed
  <1>5. AimInv'
    BY <1>3, <1>4, KnownKept DEF AimInv, PoolsKept
  <1>6. WritesInv'
    <2>1. ASSUME ~blurred', NEW c \in P!Buttons, running'[c].pc # "idle"
          PROVE  Alone(c)' /\ TaskSees(running[c])'
      <3>1. c = b
        BY <1>1, <2>1 DEF Alone
      <3>2. Alone(c)' /\ TaskSees(running[c])'
        BY <1>1, <2>1, <3>1 DEF Alone, TaskSees
      <3>3. QED
        BY <3>2
    <2>2. \A c \in P!Buttons : running'[c].pc = "landed" => running'[c].at <= block'
      BY <1>1 DEF WritesInv
    <2>3. QED
      BY <2>1, <2>2 DEF WritesInv
  <1>7. QED
    BY <1>2, <1>5, <1>6

\* The fields or the inbox of the page change, or the payments outside.
LEMMA PageStep ==
    ASSUME PaymentsInv, PoolsKept, UNCHANGED <<block, known, running, blurred>>,
           page' \in PageState, page'.wrote = page.wrote, page'.minimum = page.minimum,
           FieldsAgree'
    PROVE  PaymentsInv'
  <1> USE DEF PaymentsInv
  <1>1. PaymentTypes'
    BY KnownKept DEF PaymentTypes, PoolsKept
  <1>2. TasksAimed'
    BY InKept DEF AimInv, TasksAimed, TaskAimed
  <1>3. AimInv'
    BY <1>2, KnownKept DEF AimInv, PoolsKept
  <1>4. WritesInv'
    BY DEF WritesInv, Alone, TaskSees
  <1>5. QED
    BY <1>1, <1>3, <1>4

-----------------------------------------------------------------------------
LEMMA TaskAt ==
    ASSUME PaymentsInv, NEW b \in P!Buttons
    PROVE  /\ running[b] \in Task /\ running[b].since \in Nat /\ running[b].proof \in Nat
           /\ running[b].at \in Nat /\ running[b].payment \in Nat /\ running[b].pool \in Pools
           /\ block \in Nat /\ page.wrote \in Nat /\ page.minimum \in Nat /\ page.secret \in Nat
           /\ page.wrote = page.minimum /\ page.wrote <= block
           /\ blurred \in BOOLEAN
  <1>1. running[b] \in Task /\ page \in PageState /\ block \in Nat /\ blurred \in BOOLEAN
    BY DEF PaymentsInv, PaymentTypes
  <1>2. QED
    BY <1>1 DEF Task, PageState, PaymentsInv, WritesInv

\* A flow begins: its secret is of a payment in the pool it aims at, and it
\* waits for the block of the last write at least.
LEMMA BeginStep ==
    ASSUME PaymentsInv, NEW b \in P!Buttons, NEW start \in Nat, NEW p \in Nat,
           NEW pool \in Pools, P!Begin(b, start, p, pool), page.wrote <= start,
           b = "claim" => In(p, pool)
    PROVE  PaymentsInv'
  <1>1. PICK task \in Task :
           task = [pc |-> "waiting", since |-> start, proof |-> 0, payment |-> p,
                   pool |-> pool, at |-> 0]
    <2>1. [pc |-> "waiting", since |-> start, proof |-> 0, payment |-> p, pool |-> pool,
           at |-> 0] \in Task
      BY DEF Task
    <2>2. QED
      BY <2>1, Zenon
  <1>2. /\ task.pc = "waiting" /\ task.since = start /\ task.payment = p /\ task.pool = pool
        /\ running' = [running EXCEPT ![b] = task]
        /\ UNCHANGED <<block, payments, known, page>>
    BY <1>1 DEF P!Begin
  <1>3. blurred' \in BOOLEAN
    BY DEF P!Begin
  <1>4. ~blurred' => ~blurred /\ Alone(b)
    BY DEF P!Begin, P!Running, Alone
  <1>5. PoolsKept
    BY <1>2, PaymentsSame
  <1>6. TaskAimed(b, task)'
    BY <1>2 DEF TaskAimed, In
  <1>7. TaskSees(task)
    BY <1>2 DEF TaskSees
  <1>8. QED
    BY <1>2, <1>3, <1>4, <1>5, <1>6, <1>7, TaskStep

LEMMA BeginSteps ==
    ASSUME PaymentsInv,
           \/ P!ShieldUsdc \/ P!PrivateTransfer \/ P!PrivateFund \/ P!ClaimPrivateFund
           \/ \E p \in DOMAIN payments : P!RefundPrivateFund(p)
    PROVE  PaymentsInv'
  <1>1. {"shield", "transfer", "fund", "claim", "refund"} = P!Buttons /\ "direct" \in Pools
        /\ "cctp" \in Pools
    BY DEF P!Buttons, Pools
  <1>2. /\ block \in Nat /\ page.wrote \in Nat /\ page.minimum \in Nat /\ page.secret \in Nat
        /\ page.wrote = page.minimum /\ page.wrote <= block
    BY <1>1, TaskAt
  <1>3. page.wrote <= page.minimum
    BY <1>2
  <1>4. CASE P!ShieldUsdc
    BY <1>1, <1>2, <1>4, BeginStep DEF P!ShieldUsdc
  <1>5. CASE P!PrivateTransfer
    BY <1>1, <1>2, <1>3, <1>5, BeginStep DEF P!PrivateTransfer
  <1>6. CASE P!PrivateFund
    BY <1>1, <1>2, <1>3, <1>6, BeginStep DEF P!PrivateFund
  <1>7. CASE P!ClaimPrivateFund
    <2>1. PICK pool \in Pools : pool = IF page.inbox THEN "cctp" ELSE "direct"
      BY <1>1
    <2>2. PICK p \in Nat : p = page.secret
      BY <1>2
    <2>3. In(p, pool)
      BY <1>7, <2>1, <2>2 DEF P!ClaimPrivateFund, PaymentsInv, AimInv, FieldsAgree
    <2>4. P!Begin("claim", page.minimum, p, pool)
      BY <1>7, <2>1, <2>2 DEF P!ClaimPrivateFund
    <2>5. QED
      BY <1>1, <1>2, <1>3, <2>3, <2>4, BeginStep
  <1>8. ASSUME NEW p \in DOMAIN payments, P!RefundPrivateFund(p) PROVE PaymentsInv'
    <2>1. p \in Nat
      BY PaymentAt
    <2>2. QED
      BY <1>1, <1>2, <1>3, <1>8, <2>1, BeginStep DEF P!RefundPrivateFund
  <1>9. QED
    BY <1>4, <1>5, <1>6, <1>7, <1>8

\* The proof is made on a block that is late enough.
LEMMA ProofSafeBlockStep ==
    ASSUME PaymentsInv, NEW b \in P!Buttons, P!ProofSafeBlock(b), P!PrivatePaymentsAssumption
    PROVE  PaymentsInv'
  <1>1. Margin \in Nat
    BY DEF P!PrivatePaymentsAssumption
  <1>2. PICK safe \in Nat : safe = IF block > Margin THEN block - Margin ELSE 0
    BY <1>1, TaskAt
  <1>3. /\ running[b].pc = "waiting" /\ safe >= running[b].since
        /\ running' = [running EXCEPT ![b] = [running[b] EXCEPT !.pc = "proving",
                                                                !.proof = safe]]
        /\ UNCHANGED <<block, payments, known, page, blurred>>
    BY <1>2, TaskAt DEF P!ProofSafeBlock, P!chainVars, PaymentsInv, PaymentTypes
  <1>4. PICK task \in Task : task = [running[b] EXCEPT !.pc = "proving", !.proof = safe]
    BY TaskAt DEF Task
  <1>5. /\ task.pc = "proving" /\ task.proof = safe /\ task.payment = running[b].payment
        /\ task.pool = running[b].pool
    BY <1>4, TaskAt DEF Task
  <1>6. PoolsKept
    BY <1>3, PaymentsSame
  <1>7. TaskAimed(b, running[b])
    BY DEF PaymentsInv, AimInv, TasksAimed
  <1>8. TaskAimed(b, task)'
    BY <1>3, <1>5, <1>7 DEF TaskAimed, In
  <1>9. ASSUME ~blurred PROVE Alone(b) /\ TaskSees(task)
    <2>1. Alone(b) /\ TaskSees(running[b])
      BY <1>3, <1>9 DEF PaymentsInv, WritesInv
    <2>2. page.wrote <= running[b].since /\ page.wrote \in Nat /\ running[b].since \in Nat
      BY <1>3, <2>1, TaskAt DEF TaskSees
    <2>3. page.wrote <= safe
      BY <1>3, <2>2
    <2>4. QED
      BY <1>5, <2>1, <2>3 DEF TaskSees
  <1>10. blurred \in BOOLEAN
    BY TaskAt
  <1>11. QED
    BY <1>3, <1>4, <1>5, <1>6, <1>8, <1>9, <1>10, TaskStep

\* The transaction of a flow lands, with what it does to the payments.
LEMMA SubmitPayments ==
    ASSUME PaymentsInv, NEW b \in P!Buttons, P!Effect(b)
    PROVE  PoolsKept /\ (b = "fund" => Len(payments') \in Nat /\ In(Len(payments), "direct")')
  <1>1. CASE b \in {"shield", "transfer"}
    <2>1. UNCHANGED payments
      BY <1>1 DEF P!Effect
    <2>2. QED
      BY <1>1, <2>1, PaymentsSame
  <1>2. CASE b = "fund"
    <2>1. PICK new \in Payment : /\ new.pool = "direct" /\ ~new.inbox
                                 /\ payments' = Append(payments, new)
      BY <1>2 DEF P!Effect, Payment, Pools, Statuses
    <2>2. PoolsKept /\ Len(payments') \in DOMAIN payments' /\ payments'[Len(payments')] = new
      BY <2>1, PaymentAdded
    <2>3. Len(payments') \in Nat
      BY <2>2 DEF PoolsKept
    <2>4. QED
      BY <2>1, <2>2, <2>3 DEF In
  <1>3. CASE b \in {"claim", "refund"}
    <2>1. PICK p \in Nat : p = running[b].payment
      BY TaskAt
    <2>2. payments' = [payments EXCEPT ![p].status = "gone"]
      BY <1>3, <2>1 DEF P!Effect, P!Settles
    <2>3. CASE p \in DOMAIN payments
      <3>1. "gone" \in Statuses
        BY DEF Statuses
      <3>2. PoolsKept
        BY <2>2, <2>3, <3>1, StatusOnly
      <3>3. QED
        BY <1>3, <3>2
    <2>4. CASE p \notin DOMAIN payments
      <3>1. payments' = payments
        BY <2>2, <2>4, PaymentAt
      <3>2. QED
        BY <1>3, <3>1, PaymentsSame
    <2>5. QED
      BY <2>3, <2>4
  <1>4. QED
    BY <1>1, <1>2, <1>3 DEF P!Buttons

LEMMA LandStep ==
    ASSUME PaymentsInv, NEW b \in P!Buttons, P!Submit(b)
    PROVE  PaymentsInv'
  <1>1. /\ running[b].pc = "proving" /\ P!Effect(b)
        /\ UNCHANGED <<block, known, page, blurred>>
    BY DEF P!Submit
  <1>2. PoolsKept /\ (b = "fund" => Len(payments') \in Nat /\ In(Len(payments), "direct")')
    BY <1>1, SubmitPayments
  <1>3. PICK p \in Nat : p = IF b = "fund" THEN Len(payments') ELSE running[b].payment
    BY <1>2, TaskAt
  <1>4. PICK now \in Nat : now = block
    BY TaskAt
  <1>5. PICK task \in Task :
           task = [running[b] EXCEPT !.pc = "landed", !.at = now, !.payment = p]
    BY TaskAt DEF Task
  <1>6. running' = [running EXCEPT ![b] = task]
    BY <1>3, <1>4, <1>5 DEF P!Submit, PaymentsInv, PaymentTypes
  <1>7. /\ task.pc = "landed" /\ task.at = now /\ task.payment = p
        /\ task.pool = running[b].pool
    BY <1>5, TaskAt DEF Task
  <1>8. TaskAimed(b, task)'
    <2>1. ASSUME b = "claim" PROVE In(p, running[b].pool)'
      <3>1. In(running[b].payment, running[b].pool) /\ p = running[b].payment
        BY <1>1, <1>3, <2>1 DEF PaymentsInv, AimInv, TasksAimed, TaskAimed
      <3>2. PICK pool \in Pools : pool = running[b].pool
        BY TaskAt
      <3>3. In(p, pool)'
        BY <1>2, <3>1, <3>2, InKept
      <3>4. In(p, running[b].pool)' <=> p \in DOMAIN payments'
                                        /\ payments'[p].pool = running'[b].pool
        BY DEF In
      <3>5. running'[b].pool = pool
        BY <1>6, <1>7, <3>2 DEF PaymentsInv, PaymentTypes
      <3>6. QED
        BY <3>3, <3>4, <3>5 DEF In
    <2>2. running'[b].pool = task.pool
      BY <1>6 DEF PaymentsInv, PaymentTypes
    <2>3. b = "fund" => In(p, "direct")'
      BY <1>2, <1>3 DEF In
    <2>4. QED
      BY <1>7, <2>1, <2>2, <2>3 DEF TaskAimed, In
  <1>9. ASSUME ~blurred PROVE Alone(b) /\ TaskSees(task)
    BY <1>1, <1>7, <1>9 DEF PaymentsInv, WritesInv, TaskSees
  <1>10. blurred \in BOOLEAN /\ task.at <= block
    BY <1>4, <1>7, TaskAt
  <1>11. QED
    BY <1>1, <1>2, <1>6, <1>8, <1>9, <1>10, TaskStep

LEMMA GiveUpTaskStep ==
    ASSUME PaymentsInv, NEW b \in P!Buttons, P!GiveUp(b)
    PROVE  PaymentsInv'
  <1>1. PICK task \in Task : task = P!Idle
    BY DEF P!Idle, Task, Pools
  <1>2. /\ running[b].pc # "idle" /\ task.pc = "idle"
        /\ running' = [running EXCEPT ![b] = task]
        /\ UNCHANGED <<block, payments, known, page>>
    BY <1>1 DEF P!GiveUp, P!chainVars, P!Idle
  <1>3. blurred' \in BOOLEAN /\ (~blurred' => ~blurred)
    BY DEF P!GiveUp
  <1>4. ~blurred => Alone(b)
    BY <1>2 DEF PaymentsInv, WritesInv
  <1>5. TaskAimed(b, task)'
    BY <1>2 DEF TaskAimed
  <1>6. PoolsKept
    BY <1>2, PaymentsSame
  <1>7. QED
    BY <1>2, <1>3, <1>4, <1>5, <1>6, TaskStep

\* The page takes note of the block of its write.
LEMMA RememberStep ==
    ASSUME PaymentsInv, NEW b \in P!Buttons, P!Remember(b)
    PROVE  PaymentsInv'
  <1> USE DEF PaymentsInv
  <1>1. /\ running[b].pc = "landed"
        /\ page' = [page EXCEPT !.minimum = running[b].at, !.wrote = running[b].at]
        /\ running' = [running EXCEPT ![b] = P!Idle]
        /\ known' = known \cup (IF b = "fund" THEN {running[b].payment} ELSE {})
        /\ UNCHANGED <<block, payments, blurred>>
    BY DEF P!Remember, P!Remembered, P!chainVars
  <1>2. P!Idle \in Task /\ P!Idle.pc = "idle"
    BY DEF P!Idle, Task, Pools
  <1>3. page \in PageState /\ running \in [P!Buttons -> Task] /\ running[b].at \in Nat
    BY TaskAt DEF PaymentTypes
  <1>4. /\ page' \in PageState /\ page'.minimum = running[b].at /\ page'.wrote = running[b].at
        /\ page'.secret = page.secret /\ page'.inbox = page.inbox
    BY <1>1, <1>3 DEF PageState
  <1>5. /\ running' \in [P!Buttons -> Task] /\ running'[b] = P!Idle
        /\ \A c \in P!Buttons : c # b => running'[c] = running[c]
    BY <1>1, <1>2, <1>3
  <1>6. b = "fund" => In(running[b].payment, "direct")
    BY <1>1 DEF AimInv, TasksAimed, TaskAimed
  <1>7. \A p \in known' : p \in known \/ (b = "fund" /\ p = running[b].payment)
    BY <1>1
  <1>8. \A p \in known' : In(p, "direct")
    BY <1>6, <1>7 DEF AimInv, KnownAreDirect
  <1>9. PaymentTypes'
    BY <1>1, <1>4, <1>5, <1>8 DEF PaymentTypes, In
  <1>10. InboxIsCctp' /\ KnownAreDirect' /\ FieldsAgree'
    BY <1>1, <1>4, <1>8 DEF AimInv, InboxIsCctp, KnownAreDirect, FieldsAgree, In
  <1>11. TasksAimed'
    BY <1>1, <1>2, <1>5 DEF AimInv, TasksAimed, TaskAimed, In
  <1>12. \A c \in P!Buttons : running'[c].pc = "landed" => running'[c].at <= block
    BY <1>2, <1>5 DEF WritesInv
  <1>13. page'.wrote = page'.minimum /\ page'.wrote <= block
    BY <1>1, <1>4 DEF WritesInv
  <1>14. ASSUME ~blurred, NEW c \in P!Buttons, running'[c].pc # "idle" PROVE FALSE
    <2>1. Alone(b)
      BY <1>1, <1>14 DEF WritesInv
    <2>2. c # b
      BY <1>2, <1>5, <1>14
    <2>3. QED
      BY <1>5, <1>14, <2>1, <2>2 DEF Alone
  <1>15. WritesInv'
    BY <1>1, <1>12, <1>13, <1>14 DEF WritesInv
  <1>16. QED
    BY <1>9, <1>10, <1>11, <1>15 DEF AimInv

\* What the user types, and what the inbox loads.
LEMMA PageSteps ==
    ASSUME PaymentsInv,
           \/ \E p \in DOMAIN payments : P!TypeSecret(p)
           \/ P!LoadInbox \/ P!LoadLatestClaim
    PROVE  PaymentsInv'
  <1>1. page \in PageState /\ UNCHANGED <<block, payments, known, running, blurred>>
    BY DEF PaymentsInv, PaymentTypes, P!TypeSecret, P!LoadInbox, P!LoadLatestClaim, P!PageOnly,
       P!chainVars
  <1>2. PoolsKept
    BY <1>1, PaymentsSame
  <1>3. FieldsAgree
    BY DEF PaymentsInv, AimInv
  <1>4. ASSUME NEW p \in DOMAIN payments, P!TypeSecret(p) PROVE PaymentsInv'
    <2>1. p \in known /\ page' = [page EXCEPT !.secret = p, !.inbox = FALSE]
      BY <1>4 DEF P!TypeSecret
    <2>6. p \in Nat
      <3>1. DOMAIN payments = 1..Len(payments) /\ Len(payments) \in Nat
        BY PaymentAt
      <3>2. QED
        BY <3>1
    <2>2. /\ page' \in PageState /\ page'.wrote = page.wrote /\ page'.minimum = page.minimum
          /\ page'.secret = p /\ ~page'.inbox
      BY <1>1, <2>1, <2>6 DEF PageState
    <2>3. In(p, "direct")
      BY <2>1 DEF PaymentsInv, AimInv, KnownAreDirect
    <2>4. FieldsAgree'
      BY <1>1, <2>2, <2>3 DEF FieldsAgree, In
    <2>5. QED
      BY <1>1, <1>2, <2>2, <2>4, PageStep
  <1>5. ASSUME NEW loading \in BOOLEAN, page' = [page EXCEPT !.loading = loading]
        PROVE  PaymentsInv'
    <2>1. /\ page' \in PageState /\ page'.wrote = page.wrote /\ page'.minimum = page.minimum
          /\ page'.secret = page.secret /\ page'.inbox = page.inbox
      BY <1>1, <1>5 DEF PageState
    <2>2. FieldsAgree'
      BY <1>1, <1>3, <2>1 DEF FieldsAgree, In
    <2>3. QED
      BY <1>1, <1>2, <2>1, <2>2, PageStep
  <1>6. ASSUME NEW p \in DOMAIN payments, payments[p].inbox,
               page' = [page EXCEPT !.loading = FALSE, !.secret = p, !.inbox = TRUE]
        PROVE  PaymentsInv'
    <2>1. p \in Nat
      BY PaymentAt
    <2>2. /\ page' \in PageState /\ page'.wrote = page.wrote /\ page'.minimum = page.minimum
          /\ page'.secret = p /\ page'.inbox
      BY <1>1, <1>6, <2>1 DEF PageState
    <2>3. In(p, "cctp")
      BY <1>6 DEF PaymentsInv, AimInv, InboxIsCctp, In
    <2>4. FieldsAgree'
      BY <1>1, <2>2, <2>3 DEF FieldsAgree, In
    <2>5. QED
      BY <1>1, <1>2, <2>2, <2>4, PageStep
  <1>7. CASE P!LoadInbox
    BY <1>5, <1>7 DEF P!LoadInbox
  <1>8. CASE P!LoadLatestClaim
    BY <1>5, <1>6, <1>8 DEF P!LoadLatestClaim
  <1>9. QED
    BY <1>4, <1>7, <1>8

\* A payment from another chain: its note, its burn, its settlement.
LEMMA ChainSteps ==
    ASSUME PaymentsInv, P!Deliver \/ P!Burn \/ P!Settle
    PROVE  PaymentsInv'
  <1>1. page \in PageState /\ UNCHANGED <<block, known, running, blurred>>
    BY DEF PaymentsInv, PaymentTypes, P!Deliver, P!Burn, P!Settle
  <1>2. PoolsKept
    <2>1. "burnt" \in Statuses /\ "gone" \in Statuses /\ "held" \in Statuses
      BY DEF Statuses
    <2>2. CASE P!Deliver
      <3>1. PICK new \in Payment : new.pool = "cctp" /\ payments' = Append(payments, new)
        BY <2>2 DEF P!Deliver, Payment, Pools, Statuses
      <3>2. QED
        BY <3>1, PaymentAdded
    <2>3. CASE P!Burn
      BY <2>1, <2>3, StatusOnly DEF P!Burn
    <2>4. CASE P!Settle
      BY <2>1, <2>4, StatusOnly DEF P!Settle
    <2>5. QED
      BY <2>2, <2>3, <2>4
  <1>3. /\ page' \in PageState /\ page'.wrote = page.wrote /\ page'.minimum = page.minimum
        /\ page'.secret = page.secret /\ page'.inbox = page.inbox
    <2>1. page' = page \/ \E burning \in BOOLEAN : page' = [page EXCEPT !.burning = burning]
      BY DEF P!Deliver, P!Burn, P!Settle
    <2>2. QED
      BY <1>1, <2>1 DEF PageState
  <1>4. FieldsAgree'
    <2>1. FieldsAgree
      BY DEF PaymentsInv, AimInv
    <2>2. PICK secret \in Nat, inbox \in BOOLEAN : secret = page.secret /\ inbox = page.inbox
      BY <1>1 DEF PageState
    <2>3. secret # 0 => In(secret, IF inbox THEN "cctp" ELSE "direct")'
      BY <1>2, <2>1, <2>2, InKept DEF FieldsAgree
    <2>4. QED
      BY <1>3, <2>2, <2>3 DEF FieldsAgree, In
  <1>5. QED
    BY <1>1, <1>2, <1>3, <1>4, PageStep

LEMMA NewBlockStep ==
    ASSUME PaymentsInv, P!NewBlock \/ UNCHANGED P!vars
    PROVE  PaymentsInv'
  <1>1. /\ UNCHANGED <<payments, known, page, running, blurred>>
        /\ block' = block + 1 \/ block' = block
    BY DEF P!NewBlock, P!vars, P!chainVars
  <1>2. block \in Nat /\ block' \in Nat /\ block <= block'
    BY <1>1 DEF PaymentsInv, PaymentTypes
  <1>3. PaymentTypes'
    BY <1>1, <1>2 DEF PaymentsInv, PaymentTypes
  <1>4. AimInv'
    BY <1>1 DEF PaymentsInv, AimInv, InboxIsCctp, KnownAreDirect, FieldsAgree, TasksAimed,
       TaskAimed, In
  <1>5. ASSUME NEW b \in P!Buttons, running[b].pc = "landed" PROVE running[b].at <= block'
    BY <1>2, <1>5, TaskAt DEF PaymentsInv, WritesInv
  <1>6. page.wrote <= block'
    <2>1. page.wrote \in Nat /\ page.wrote <= block
      BY DEF PaymentsInv, WritesInv, PaymentTypes, PageState
    <2>2. QED
      BY <1>2, <2>1
  <1>7. WritesInv'
    BY <1>1, <1>5, <1>6 DEF PaymentsInv, WritesInv, Alone, TaskSees
  <1>8. QED
    BY <1>3, <1>4, <1>7 DEF PaymentsInv

\* A reload forgets the fields and the flows; a payment not burnt never is.
LEMMA ReloadPageStep ==
    ASSUME PaymentsInv, P!Reload
    PROVE  PaymentsInv'
  <1> USE DEF PaymentsInv
  <1>1. /\ page' = P!NewPage /\ running' = [b \in P!Buttons |-> P!Idle]
        /\ payments' = [p \in DOMAIN payments |->
                          [payments[p] EXCEPT !.status = IF @ = "promised" THEN "gone" ELSE @]]
        /\ UNCHANGED <<block, known, blurred>>
    BY DEF P!Reload
  <1>2. PoolsKept
    <2>1. DOMAIN payments' = DOMAIN payments
          /\ payments' = [p \in DOMAIN payments |-> payments'[p]]
      BY <1>1
    <2>2. ASSUME NEW p \in DOMAIN payments
          PROVE  \E s \in Statuses : payments'[p] = [payments[p] EXCEPT !.status = s]
      <3>1. payments[p].status \in Statuses /\ "gone" \in Statuses
        BY PaymentAt DEF Payment, Statuses
      <3>2. QED
        BY <1>1, <3>1
    <2>3. QED
      BY <2>1, <2>2, StatusesOnly
  <1>3. P!Idle \in Task /\ P!Idle.pc = "idle" /\ P!NewPage \in PageState
        /\ P!NewPage.secret = 0 /\ P!NewPage.wrote = 0 /\ P!NewPage.minimum = 0
    BY DEF P!Idle, P!NewPage, Task, PageState, Pools
  <1>4. PaymentTypes'
    BY <1>1, <1>2, <1>3, KnownKept DEF PaymentTypes, PoolsKept
  <1>5. FieldsAgree' /\ TasksAimed'
    BY <1>1, <1>3 DEF FieldsAgree, TasksAimed, TaskAimed
  <1>6. AimInv'
    BY <1>1, <1>2, <1>5, KnownKept DEF AimInv, PoolsKept
  <1>7. WritesInv'
    BY <1>1, <1>3 DEF WritesInv, PaymentTypes
  <1>8. QED
    BY <1>4, <1>6, <1>7

LEMMA PaymentsNext ==
    P!PrivatePaymentsAssumption /\ PaymentsInv /\ (P!Next \/ UNCHANGED P!vars) => PaymentsInv'
  BY BeginSteps, ProofSafeBlockStep, LandStep, GiveUpTaskStep, RememberStep, PageSteps,
     ChainSteps, NewBlockStep, ReloadPageStep DEF P!Next

LEMMA ScenePayments == SceneSpec => []PaymentsInv
  <1>1. SceneInit => PaymentsInv
    BY PaymentsInit DEF SceneInit
  <1>2. PaymentsInv /\ [SceneNext]_all => PaymentsInv'
    <2>1. [SceneNext]_all => P!Next \/ UNCHANGED P!vars
      BY DEF SceneNext, all, private, P!vars
    <2>2. QED
      BY <2>1, PaymentsNext, PrivateAssumption DEF PrivateAssumption
  <1>3. QED
    BY <1>1, <1>2, PTL DEF SceneSpec

\* A claim of the smoke page is aimed at the pool its payment is in, whatever
\* was loaded from the inbox or typed into the field since.
THEOREM ClaimIsAimedHolds == SceneSpec => []ClaimIsAimed
  BY ScenePayments, PaymentsSuffice, PTL

\* A proof of the smoke page is made on a block that has what the page last
\* wrote, unless flows overlapped or one lost sight of its transaction.
THEOREM ProofSeesWritesHolds == SceneSpec => []ProofSeesWrites
  BY ScenePayments, PaymentsSuffice, PTL
=============================================================================
