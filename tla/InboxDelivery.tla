--------------------------- MODULE InboxDelivery ---------------------------
(***************************************************************************)
(* How an encrypted claim reaches an inbox that can open it: the binding   *)
(* of a profile to a Ready account and to the public key of its inbox, the *)
(* secrets the browsers keep, the notes sealed to a published key, and the *)
(* claims that wait, sealed to the server, for a recipient to sign up.     *)
(*                                                                         *)
(* A tab runs one flow of the web app at a time; its task takes the steps  *)
(* of the requests it awaits too, one statement of the API each.  A key    *)
(* pair is named by its secret.  The pair derived from a Ready signature   *)
(* is the same in every browser and named by its account; a browser that   *)
(* linked before keys were derived holds a random one, OldKey.             *)
(*                                                                         *)
(* One network.  Challenges and signatures are taken to succeed; an        *)
(* identity, once synchronised, is not unlinked, and the class of private  *)
(* identities does not change (a vault of an older class is thrown away).  *)
(***************************************************************************)
EXTENDS Naturals, FiniteSets

CONSTANTS Profiles, Wallets, Browsers, Tabs, Intents,
          BrowserOf,    \* the browser a tab is open in
          OldKey,       \* the random key of a browser that linked long ago
          ServerKey,    \* pendingDeliveryPublicKey
          Nothing,      \* no row, no secret, nobody
          MaxRows,      \* bound: the number of the last row of wallet_bindings
          MaxFaults     \* bound: tasks that die, leases that expire under one

ASSUME InboxDeliveryAssumption ==
    /\ BrowserOf \in [Tabs -> Browsers]
    /\ {OldKey, ServerKey, Nothing} \cap Wallets = {} /\ Nothing \notin Profiles
    /\ OldKey # ServerKey /\ Nothing \notin {OldKey, ServerKey}
    /\ MaxRows \in Nat \ {0} /\ MaxFaults \in Nat

VARIABLES
    known,      \* a verified identity of the profile is on record
    binding,    \* wallet_bindings: the active row of a profile
    rows,       \* the number of the last row
    intent,     \* how far the sender of a payment is, and what it has read
    note,       \* encrypted_notes: the row, version and key it is sealed for
    pending,    \* pending_claims: its state, who took it, whether that lease holds
    vault,      \* the inbox secrets in the local storage of a browser, by account
    tab,        \* what every tab is about to do
    faults

vars == <<known, binding, rows, intent, note, pending, vault, tab, faults>>

Secret == Wallets \cup {OldKey}
Derived(w) == w

Keyring == [current: Secret \cup {Nothing}, previous: SUBSET Secret]
Empty == [current |-> Nothing, previous |-> {}]
Secrets(keys) == ({keys.current} \cup keys.previous) \ {Nothing}

Binding == [row: 1..MaxRows, wallet: Wallets, key: Secret, version: Nat \ {0}]
Note == [row: 1..MaxRows, version: Nat \ {0}, key: Secret]

ASSUME NothingIsNoRow == Nothing \notin Binding /\ Nothing \notin Note

PCs == {"idle", "identity", "wallet", "claims", "note", "finish", "me", "ensure",
        "link", "relink", "reclaim", "reclaimCheck", "reclaimRevoke", "revoke",
        "insert", "save", "open", "unlinkCheck", "unlinkRevoke", "clear"}

\* then: what follows the next /v1/session/sync; save: what becomes of the
\* keyring when the link is made; row, holder: the server's copy of a binding.
Idle == [pc |-> "idle", claims |-> FALSE, p |-> Nothing, w |-> Nothing,
         keys |-> Empty, then |-> "idle", save |-> "none", rotate |-> FALSE,
         row |-> Nothing, holder |-> Nothing, batch |-> {}, at |-> Nothing]

Task == [pc: PCs, claims: BOOLEAN, p: Profiles \cup {Nothing}, w: Wallets \cup {Nothing},
         keys: Keyring, then: {"idle", "me", "load", "open"},
         save: {"none", "set", "rotate"}, rotate: BOOLEAN,
         row: Binding \cup {Nothing}, holder: Profiles \cup {Nothing},
         batch: SUBSET Intents, at: Intents \cup {Nothing}]

Sending == {"new", "resolved", "sealed", "held", "live", "claimed",
            "expired", "failed"}

TypeOK ==
    /\ known \in [Profiles -> BOOLEAN]
    /\ binding \in [Profiles -> Binding \cup {Nothing}]
    /\ rows \in 0..MaxRows
    /\ intent \in [Intents -> [pc: Sending, to: Profiles \cup {Nothing},
                               seen: Secret \cup {ServerKey, Nothing},
                               row: Binding \cup {Nothing}]]
    /\ note \in [Intents -> Note \cup {Nothing}]
    /\ pending \in [Intents -> [state: {"none", "waiting", "done"},
                                token: Tabs \cup {Nothing}, leased: BOOLEAN]]
    /\ vault \in [Browsers -> [Wallets -> Keyring]]
    /\ tab \in [Tabs -> Task]
    /\ faults \in 0..MaxFaults

\* Nobody has linked anything; or a profile has, long ago, in some browser, its
\* row is 1, and some claims sent before that wait for it still.
Init ==
    /\ note = [i \in Intents |-> Nothing]
    /\ tab = [t \in Tabs |-> Idle]
    /\ faults = 0
    /\ rows = 1
    /\ \E owner \in Profiles \cup {Nothing}, account \in Wallets, home \in Browsers,
          early \in SUBSET Intents :
          /\ owner = Nothing => early = {}
          /\ known = [p \in Profiles |-> p = owner]
          /\ binding = [p \in Profiles |->
                IF p = owner THEN [row |-> 1, wallet |-> account, key |-> OldKey,
                                   version |-> 1]
                             ELSE Nothing]
          /\ vault = [b \in Browsers |-> [w \in Wallets |->
                [Empty EXCEPT !.current =
                    IF owner # Nothing /\ b = home /\ w = account THEN OldKey ELSE @]]]
          /\ intent = [i \in Intents |->
                [pc |-> IF i \in early THEN "live" ELSE "new", seen |-> Nothing,
                 to |-> IF i \in early THEN owner ELSE Nothing, row |-> Nothing]]
          /\ pending = [i \in Intents |->
                [state |-> IF i \in early THEN "waiting" ELSE "none",
                 token |-> Nothing, leased |-> FALSE]]

-----------------------------------------------------------------------------
(* What the steps of a tab have in common. *)

At(t, pc) == tab[t].pc = pc
Become(t, new) == tab' = [tab EXCEPT ![t] = new]
GoTo(t, pc) == Become(t, [tab[t] EXCEPT !.pc = pc])
End(t) == Become(t, Idle)

\* syncSession, and what to do when it has returned.  An identity already on
\* record is written again as it is.  What no later step reads is forgotten.
Sync(task, then) ==
    [Idle EXCEPT !.pc = IF known[task.p] THEN "wallet" ELSE "identity",
                 !.then = then, !.p = task.p,
                 !.keys = IF then = "idle" THEN Empty ELSE task.keys,
                 !.w = IF then = "me" THEN task.w ELSE Nothing,
                 !.claims = then = "me" /\ task.claims]

\* The row is gone or another one when it has been revoked since it was read.
StillActive(p, row) == binding[p] # Nothing /\ binding[p].row = row.row

HolderOf(w) == {p \in Profiles : binding[p] # Nothing /\ binding[p].wallet = w}

\* assertNoLiveClaimsBeforeKeyChange: no note of an open payment.
NoLiveClaims(p) ==
    \A i \in Intents : note[i] # Nothing /\ intent[i].to = p
                           => intent[i].pc \in {"claimed", "expired"}

sending == <<intent, note, pending>>
server == <<known, binding, rows, sending>>

-----------------------------------------------------------------------------
(* What a tab starts.  The flows that touch secrets unlock the vault first; *)
(* what they read then is what they write back in the end.                  *)

Start(t) ==
    /\ At(t, "idle")
    /\ \E p \in Profiles, w \in Wallets :
          LET keys == vault[BrowserOf[t]][w]
              task == [Idle EXCEPT !.p = p, !.w = w, !.keys = keys]
          IN  \/ Become(t, Sync(task, "me"))
              \/ Become(t, [task EXCEPT !.claims = TRUE, !.pc = "ensure"])
              \/ Become(t, Sync([Idle EXCEPT !.p = p], "idle"))
              \/ /\ binding[p] # Nothing /\ binding[p].wallet = w
                 /\ Become(t, [Idle EXCEPT !.p = p, !.w = w, !.pc = "unlinkCheck",
                                            !.row = binding[p]])
    /\ UNCHANGED <<server, vault, faults>>

-----------------------------------------------------------------------------
(* /v1/session/sync: identities first, then deliverPendingForProfile.       *)

Synced(task) ==
    CASE task.then = "idle" -> Idle
      [] task.then = "load" -> Sync(task, "open")
      [] OTHER -> [task EXCEPT !.pc = task.then, !.then = "idle"]

SyncIdentity(t) ==
    /\ At(t, "identity")
    /\ known' = [known EXCEPT ![tab[t].p] = TRUE]
    /\ GoTo(t, "wallet")
    /\ UNCHANGED <<binding, rows, sending, vault, faults>>

ReadWallet(t) ==
    LET row == binding[tab[t].p]
    IN  /\ At(t, "wallet")
        /\ Become(t, IF row = Nothing THEN Synced(tab[t])
                     ELSE [tab[t] EXCEPT !.pc = "claims", !.row = row])
        /\ UNCHANGED <<server, vault, faults>>

\* claim_pending_claims: the statement locks the rows it takes.
Takeable_Unclaimed(i) == pending[i].token = Nothing
Takeable(i) == ~pending[i].leased

\* The batch is worked off; the row it was sealed for is forgotten with it.
Onward(task) == IF task.batch = {} THEN Synced([task EXCEPT !.row = Nothing])
                ELSE [task EXCEPT !.pc = "note"]

ClaimPending(t) ==
    LET batch == {i \in Intents : /\ pending[i].state = "waiting"
                                  /\ intent[i].to = tab[t].p /\ intent[i].pc # "expired"
                                  /\ Takeable(i)}
    IN  /\ At(t, "claims")
        /\ pending' = [i \in Intents |->
              IF i \in batch THEN [pending[i] EXCEPT !.token = t, !.leased = TRUE]
                             ELSE pending[i]]
        /\ Become(t, Onward([tab[t] EXCEPT !.batch = batch]))
        /\ UNCHANGED <<known, binding, rows, intent, note, vault, faults>>

Sealed(row) == [row |-> row.row, version |-> row.version, key |-> row.key]

\* The key is the copy's; a version read afresh would name another key.
Reseal_FreshVersion(t) ==
    /\ At(t, "note")
    /\ \E i \in tab[t].batch :
          /\ note' = [note EXCEPT ![i] =
                [Sealed(tab[t].row) EXCEPT !.version =
                    IF binding[tab[t].p] = Nothing THEN @ ELSE binding[tab[t].p].version]]
          /\ Become(t, [tab[t] EXCEPT !.pc = "finish", !.at = i])
    /\ UNCHANGED <<known, binding, rows, intent, pending, vault, faults>>

Reseal(t) ==
    /\ At(t, "note")
    /\ \E i \in tab[t].batch :
          /\ note' = [note EXCEPT ![i] = Sealed(tab[t].row)]
          /\ Become(t, [tab[t] EXCEPT !.pc = "finish", !.at = i])
    /\ UNCHANGED <<known, binding, rows, intent, pending, vault, faults>>

Finish(t) ==
    LET i == tab[t].at
    IN  /\ At(t, "finish")
        /\ pending' = IF pending[i].token = t /\ pending[i].state # "done"
                      THEN [pending EXCEPT ![i] = [state |-> "done", token |-> Nothing,
                                                   leased |-> FALSE]]
                      ELSE pending
        /\ Become(t, Onward([tab[t] EXCEPT !.batch = @ \ {i}, !.at = Nothing]))
        /\ UNCHANGED <<known, binding, rows, intent, note, vault, faults>>

-----------------------------------------------------------------------------
(* bindReadyAndIdentity and ensureClaimInboxKey.                            *)

Matches(task, row) == task.keys.current = row.key

\* A claim goes on to load its note when the binding is made.
Last(task) == IF task.claims THEN "load" ELSE "idle"

\* The request to link, and what becomes of the keyring when it is granted.
Ask(task, rotate, save) ==
    [task EXCEPT !.pc = "link", !.rotate = rotate, !.save = save, !.then = Last(task),
                 !.claims = FALSE]

Bound(task, row, flow) ==
    LET local == Matches(task, row)
        derived == row.key = Derived(task.w)
    IN  IF row.wallet # task.w THEN Idle
        ELSE CASE local /\ flow = "link" -> Sync(task, Last(task))
               [] flow = "upgrade" -> Ask(task, TRUE, "rotate")
               [] flow = "reconnect" /\ local /\ derived -> Ask(task, FALSE, "none")
               [] flow = "reconnect" /\ local /\ ~derived -> Ask(task, TRUE, "rotate")
               [] flow # "upgrade" /\ ~local /\ derived -> Ask(task, FALSE, "set")
               [] OTHER -> Idle

\* Whether it is to link, to reconnect or to upgrade matters from here on.
ReadMe(t) ==
    LET row == binding[tab[t].p]
    IN  /\ At(t, "me")
        /\ \E flow \in IF tab[t].claims THEN {"link"} ELSE {"link", "reconnect", "upgrade"} :
              Become(t, IF row = Nothing THEN Ask(tab[t], FALSE, "set")
                        ELSE Bound(tab[t], row, flow))
        /\ UNCHANGED <<server, vault, faults>>

\* The secret is there; or it can be had again; or it is in another browser.
EnsureKey(t) ==
    LET row == binding[tab[t].p]
    IN  /\ At(t, "ensure")
        /\ Become(t, IF row = Nothing THEN Sync(tab[t], "me")
                     ELSE IF Matches(tab[t], row) THEN Sync(tab[t], "open")
                     ELSE IF row.key = Derived(tab[t].w)
                     THEN [tab[t] EXCEPT !.pc = "save", !.save = "set", !.then = "open"]
                     ELSE Idle)
        /\ UNCHANGED <<server, vault, faults>>

Kept(keys, save, w) ==
    LET old == keys.current
    IN  [current |-> Derived(w),
         previous |-> IF save = "rotate" /\ old \notin {Nothing, Derived(w)}
                      THEN keys.previous \cup {old} ELSE keys.previous]

\* The tab writes its whole copy of the vault back.
Save(t) ==
    LET task == tab[t]
        keys == IF task.save = "none" THEN task.keys ELSE Kept(task.keys, task.save, task.w)
    IN  /\ At(t, "save")
        /\ vault' = IF task.save = "none" THEN vault
                    ELSE [vault EXCEPT ![BrowserOf[t]][task.w] = keys]
        /\ Become(t, Sync([task EXCEPT !.keys = keys, !.save = "none"], task.then))
        /\ UNCHANGED <<server, faults>>

\* loadClaim and the claim: with any secret of the ring, or not at all.
OpenNote(t) ==
    /\ At(t, "open")
    /\ \/ UNCHANGED intent
       \/ \E i \in Intents :
             /\ intent[i].pc = "live" /\ intent[i].to = tab[t].p /\ note[i] # Nothing
             /\ note[i].key \in Secrets(tab[t].keys)
             /\ intent' = [intent EXCEPT ![i].pc = "claimed"]
    /\ End(t)
    /\ UNCHANGED <<known, binding, rows, note, pending, vault, faults>>

-----------------------------------------------------------------------------
(* /v1/wallet/link, after the challenge: reconnectExistingWalletBinding,    *)
(* or else the binding is taken over from whoever holds the account.        *)

ReadExisting(t) ==
    LET task == tab[t]
        row == binding[task.p]
        key == Derived(task.w)
    IN  /\ At(t, "link")
        /\ Become(t, IF row = Nothing \/ row.wallet # task.w
                     THEN [task EXCEPT !.pc = "reclaim"]
                     ELSE IF row.key # key /\ ~task.rotate THEN Idle
                     ELSE [task EXCEPT !.pc = "relink", !.row = row])
        /\ UNCHANGED <<server, vault, faults>>

Relinked(row, key) ==
    IF row.key = key THEN row ELSE [row EXCEPT !.key = key, !.version = @ + 1]

\* By id: nobody asks whether the row still is what was read.  A refresh
\* writes no key.
Relink(t) ==
    LET task == tab[t]
    IN  /\ At(t, "relink")
        /\ binding' = IF StillActive(task.p, task.row) /\ task.row.key # Derived(task.w)
                      THEN [binding EXCEPT ![task.p] = Relinked(task.row, Derived(task.w))]
                      ELSE binding
        /\ Become(t, [task EXCEPT !.pc = "save", !.row = Nothing, !.rotate = FALSE])
        /\ UNCHANGED <<known, rows, sending, vault, faults>>

FindHolder(t) ==
    /\ At(t, "reclaim")
    /\ IF HolderOf(tab[t].w) = {} THEN GoTo(t, "revoke")
       ELSE \E q \in HolderOf(tab[t].w) :
               Become(t, [tab[t] EXCEPT !.pc = "reclaimCheck", !.holder = q,
                                        !.row = binding[q]])
    /\ UNCHANGED <<server, vault, faults>>

CheckHolder(t) ==
    /\ At(t, "reclaimCheck")
    /\ IF NoLiveClaims(tab[t].holder) THEN GoTo(t, "reclaimRevoke") ELSE End(t)
    /\ UNCHANGED <<server, vault, faults>>

RevokeHolder(t) ==
    LET task == tab[t]
    IN  /\ At(t, "reclaimRevoke")
        /\ binding' = IF StillActive(task.holder, task.row)
                      THEN [binding EXCEPT ![task.holder] = Nothing] ELSE binding
        /\ Become(t, [task EXCEPT !.pc = "revoke", !.row = Nothing, !.holder = Nothing])
        /\ UNCHANGED <<known, rows, sending, vault, faults>>

RevokeOwn(t) ==
    /\ At(t, "revoke")
    /\ binding' = [binding EXCEPT ![tab[t].p] = Nothing]
    /\ GoTo(t, "insert")
    /\ UNCHANGED <<known, rows, sending, vault, faults>>

\* Active rows are unique by profile and by account; an insert may also fail
\* for reasons of its own, and with the bound it does.
Insert(t) ==
    LET task == tab[t]
    IN  /\ At(t, "insert")
        /\ IF binding[task.p] = Nothing /\ HolderOf(task.w) = {} /\ rows < MaxRows
           THEN /\ rows' = rows + 1
                /\ binding' = [binding EXCEPT ![task.p] =
                      [row |-> rows + 1, wallet |-> task.w, key |-> Derived(task.w),
                       version |-> 1]]
                /\ Become(t, [task EXCEPT !.pc = "save", !.rotate = FALSE])
           ELSE UNCHANGED <<rows, binding>> /\ End(t)
        /\ UNCHANGED <<known, sending, vault, faults>>

-----------------------------------------------------------------------------
(* /v1/wallet/unlink; when it has succeeded the panel clears the vault.     *)

CheckOwn_ClearsAnyway(t) ==
    /\ At(t, "unlinkCheck")
    /\ IF binding[tab[t].p] = Nothing \/ NoLiveClaims(tab[t].p)
       THEN Become(t, [tab[t] EXCEPT !.pc = "unlinkRevoke", !.row = Nothing])
       ELSE Become(t, [tab[t] EXCEPT !.pc = "clear", !.row = Nothing])
    /\ UNCHANGED <<server, vault, faults>>

CheckOwn(t) ==
    /\ At(t, "unlinkCheck")
    /\ IF binding[tab[t].p] = Nothing \/ NoLiveClaims(tab[t].p)
       THEN Become(t, [tab[t] EXCEPT !.pc = "unlinkRevoke", !.row = Nothing])
       ELSE End(t)
    /\ UNCHANGED <<server, vault, faults>>

Unlink(t) ==
    /\ At(t, "unlinkRevoke")
    /\ binding' = [binding EXCEPT ![tab[t].p] = Nothing]
    /\ GoTo(t, "clear")
    /\ UNCHANGED <<known, rows, sending, vault, faults>>

ClearVault(t) ==
    /\ At(t, "clear")
    /\ vault' = [vault EXCEPT ![BrowserOf[t]][tab[t].w] = Empty]
    /\ End(t)
    /\ UNCHANGED <<server, faults>>

-----------------------------------------------------------------------------
(* The sender of a payment: resolveDescriptor, then storeDelivery.          *)

Sender(i, new) == intent' = [intent EXCEPT ![i] = new]

Resolve(i) ==
    /\ intent[i].pc = "new"
    /\ \E p \in Profiles :
          Sender(i, [intent[i] EXCEPT !.pc = "resolved", !.to = p, !.seen =
                IF known[p] /\ binding[p] # Nothing THEN binding[p].key ELSE ServerKey])
    /\ UNCHANGED <<known, binding, rows, note, pending, vault, tab, faults>>

\* assertRecipientInboxKey: the payment was encrypted for a key read before.
CheckRecipient(i) ==
    LET to == intent[i].to
        seen == intent[i].seen
        row == binding[to]
        now == IF row = Nothing THEN Nothing ELSE row.key
        read == [intent[i] EXCEPT !.seen = Nothing]
    IN  /\ intent[i].pc = "resolved"
        /\ Sender(i, CASE known[to] /\ now = seen -> [read EXCEPT !.pc = "sealed", !.row = row]
                       [] ~known[to] /\ seen = ServerKey -> [read EXCEPT !.pc = "held"]
                       [] OTHER -> [read EXCEPT !.pc = "failed"])
        /\ UNCHANGED <<known, binding, rows, note, pending, vault, tab, faults>>

StoreNote(i) ==
    /\ intent[i].pc = "sealed"
    /\ note' = [note EXCEPT ![i] = Sealed(intent[i].row)]
    /\ Sender(i, [intent[i] EXCEPT !.pc = "live", !.row = Nothing])
    /\ UNCHANGED <<known, binding, rows, pending, vault, tab, faults>>

StorePending(i) ==
    /\ intent[i].pc = "held"
    /\ pending' = [pending EXCEPT ![i].state = "waiting"]
    /\ Sender(i, [intent[i] EXCEPT !.pc = "live"])
    /\ UNCHANGED <<known, binding, rows, note, vault, tab, faults>>

\* From then on the sender may have it back.
Expire(i) == /\ intent[i].pc = "live"
             /\ Sender(i, [intent[i] EXCEPT !.pc = "expired"])
             /\ UNCHANGED <<known, binding, rows, note, pending, vault, tab, faults>>

-----------------------------------------------------------------------------
(* Failures, and time.                                                      *)

\* The tab is closed, or a request of it fails.
Die(t) == /\ ~At(t, "idle")
          /\ faults < MaxFaults /\ faults' = faults + 1
          /\ End(t)
          /\ UNCHANGED <<server, vault>>

\* Five minutes: as a rule the one who took the claim is gone by then.
ExpireLease(i) ==
    LET late == pending[i].token \in Tabs /\ i \in tab[pending[i].token].batch
    IN  /\ pending[i].leased
        /\ late => faults < MaxFaults
        /\ faults' = IF late THEN faults + 1 ELSE faults
        /\ pending' = [pending EXCEPT ![i].leased = FALSE]
        /\ UNCHANGED <<known, binding, rows, intent, note, vault, tab>>

Continue(t) == \/ SyncIdentity(t) \/ ReadWallet(t) \/ ClaimPending(t)
               \/ Reseal(t) \/ Finish(t)
               \/ ReadMe(t) \/ EnsureKey(t) \/ Save(t) \/ OpenNote(t)
               \/ ReadExisting(t) \/ Relink(t) \/ FindHolder(t) \/ CheckHolder(t)
               \/ RevokeHolder(t) \/ RevokeOwn(t) \/ Insert(t)
               \/ CheckOwn(t) \/ Unlink(t) \/ ClearVault(t)

Send(i) == Resolve(i) \/ CheckRecipient(i) \/ StoreNote(i) \/ StorePending(i)

Next == \/ \E t \in Tabs : Start(t) \/ Continue(t) \/ Die(t)
        \/ \E i \in Intents : Send(i) \/ Expire(i) \/ ExpireLease(i)

Spec == Init /\ [][Next]_vars

\* What a tab has begun comes to an end, and leases run out.  Nobody has to begin.
\* (As Continue is enabled until then and no task is endless, this is what weak
\* fairness of it and of ExpireLease amounts to.)
FairSpec == /\ Spec
            /\ \A t \in Tabs : []<>At(t, "idle")
            /\ \A i \in Intents : []<>~pending[i].leased

-----------------------------------------------------------------------------
Held(key) == \E b \in Browsers, w \in Wallets : key \in Secrets(vault[b][w])

\* New payments are sealed to the published key, so its secret is never lost:
\* it can be derived again, or some browser still has it.  No order of
\* linking, reconnecting, upgrading, claiming and unlinking, in several tabs
\* with stale copies of the vault, changes that.
PublishedKeyHeld ==
    \A p \in Profiles :
        binding[p] # Nothing => binding[p].key = Derived(binding[p].wallet)
                                \/ Held(binding[p].key)

\* A note says truly for which generation of the key it was sealed: under the
\* binding it was made for, the version it carries is the current one exactly
\* when its key is.
NoteNamesItsKey ==
    \A i \in Intents, p \in Profiles :
        LET current == binding[p]
        IN  note[i] # Nothing /\ current # Nothing /\ current.row = note[i].row
            => /\ note[i].version <= current.version
               /\ note[i].version = current.version <=> note[i].key = current.key

\* A claim is struck off the waiting list only once its recipient has a note.
DoneHasNote == \A i \in Intents : pending[i].state = "done" => note[i] # Nothing

\* A claim that waits for a recipient who comes back again and again with an
\* account linked does not wait for ever, whoever dies with it in hand.
PendingArrives ==
    \A i \in Intents :
        []<>(\E t \in Tabs : At(t, "claims") /\ tab[t].p = intent[i].to) =>
            (pending[i].state = "waiting" ~>
                (pending[i].state = "done" \/ intent[i].pc = "expired"))
=============================================================================
