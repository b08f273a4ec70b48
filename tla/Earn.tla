-------------------------------- MODULE Earn --------------------------------
(***************************************************************************)
(* Private writes of a mainnet account through Ready: deposits into Vesu,  *)
(* redemptions and claims of escrowed payments, each one press in a panel  *)
(* of a tab.  What they share is the STRK20 submission of the tab, which   *)
(* keeps a second prompt from opening and a repeated request from being    *)
(* sent twice, the write gate of the Earn panels, and the cost basis that  *)
(* the local storage keeps of the position, the same for every tab.        *)
(*                                                                         *)
(* A token of private USDC buys one share.  One account; the checks of the *)
(* deployed classes, of the connected account and of the allowed amounts   *)
(* either pass or end the press.  The signal of an operation that blocks   *)
(* the network switch is never aborted.                                    *)
(***************************************************************************)
EXTENDS Integers, Sequences, FiniteSets, TLC

CONSTANTS EarnPanels, ClaimViews, Tabs,
          Layouts,       \* which panels are mounted, in which tabs
          Amounts,       \* allowedDepositAmounts
          Denomination,  \* of the payment the claim views show
          Funds,         \* private USDC in the beginning
          Nobody,        \* no submission in flight; not mounted
          Masked,        \* a balance not revealed
          MaxTxs,        \* bound: transactions sent
          MaxFaults      \* bound: reloads, reads that fail after a transaction is sent

Panels == EarnPanels \cup ClaimViews

ASSUME EarnAssumption ==
    /\ Layouts \subseteq [Panels -> Tabs \cup {Nobody}]
    /\ EarnPanels \cap ClaimViews = {} /\ Nobody \notin Panels \cup Tabs
    /\ Amounts \subseteq Nat \ {0} /\ Denomination \in Nat \ {0}
    /\ Funds \in Nat /\ MaxTxs \in Nat /\ MaxFaults \in Nat

VARIABLES
    tabOf,      \* the layout, which never changes
    held,       \* what Ready holds of the account: usdc, shares
    claimed,    \* the payment has left the escrow
    txs,        \* the transactions sent, a hash being a place in this sequence
    ledger,     \* costBasisAssets, 0 without an entry
    rt,         \* per tab: the write gate, the hashes handled, the submissions done
    panel,      \* what every panel is doing and shows
    astray,     \* the ledger has missed a transaction, or two tabs have overlapped
    faults

vars == <<tabOf, held, claimed, txs, ledger, rt, panel, astray, faults>>

Keys == [kind: {"deposit", "redeem", "claim"}, amount: Nat]
NoKey == [kind |-> "claim", amount |-> 0]
ClaimKey == [kind |-> "claim", amount |-> Denomination]

PCs == {"idle", "revealing", "connecting", "following", "checking", "prompt", "sent",
        "verifying"}

\* Of a withdrawal key.amount is the percentage until the shares are read; before
\* is freshShares.
Fresh == [pc |-> "idle", key |-> NoKey, before |-> 0, hash |-> 0,
          usdc |-> Masked, shares |-> Masked]
Runtime == [gate |-> FALSE, handled |-> {}, completed |-> {}, inFlight |-> Nobody]

Init ==
    /\ tabOf \in Layouts
    /\ held = [usdc |-> Funds, shares |-> 0]
    /\ claimed = FALSE
    /\ txs = <<>>
    /\ ledger = 0
    /\ rt = [t \in Tabs |-> Runtime]
    /\ panel = [p \in Panels |-> Fresh]
    /\ astray = FALSE
    /\ faults = 0

Hashes == 1..Len(txs)
At(p, pc) == panel[p].pc = pc
Go(p, pc) == panel' = [panel EXCEPT ![p].pc = pc]
Wallet == <<tabOf, held, claimed, txs>>

\* The finally block of every press.
Ended(view) == [view EXCEPT !.pc = "idle", !.key = NoKey, !.before = 0, !.hash = 0]
Release(t, ps) == [rt[t] EXCEPT !.gate = @ /\ ps \cap EarnPanels = {}]

End(p) ==
    /\ panel' = [panel EXCEPT ![p] = Ended(@)]
    /\ rt' = [rt EXCEPT ![tabOf[p]] = Release(tabOf[p], {p})]

-----------------------------------------------------------------------------
(* A press, and what is checked and read before anything is asked of Ready. *)

TakeGate(p) ==
    /\ p \in EarnPanels /\ tabOf[p] # Nobody /\ At(p, "idle")
    /\ ~rt[tabOf[p]].gate
    /\ rt' = [rt EXCEPT ![tabOf[p]].gate = TRUE]

Reveal(p) ==
    /\ TakeGate(p)
    /\ Go(p, "revealing")
    /\ UNCHANGED <<Wallet, ledger, astray, faults>>

\* loadPrivatePosition reads what the panel's tab shows, or fails or times out.
Revealed(p) ==
    /\ At(p, "revealing")
    /\ \E view \in {panel[p], [panel[p] EXCEPT !.usdc = held.usdc],
                    [panel[p] EXCEPT !.shares = held.shares]} :
          panel' = [panel EXCEPT ![p] = Ended(view)]
    /\ rt' = [rt EXCEPT ![tabOf[p]] = Release(tabOf[p], {p})]
    /\ UNCHANGED <<Wallet, ledger, astray, faults>>

Press(p, kind, amount) ==
    panel' = [panel EXCEPT ![p].pc = "connecting",
                           ![p].key = [kind |-> kind, amount |-> amount]]

Deposit(p) ==
    /\ TakeGate(p)
    /\ panel[p].usdc # Masked
    /\ \E a \in Amounts : a <= panel[p].usdc /\ Press(p, "deposit", a)
    /\ UNCHANGED <<Wallet, ledger, astray, faults>>

Withdraw(p) ==
    /\ TakeGate(p)
    /\ panel[p].shares # Masked /\ panel[p].shares # 0
    /\ \E percent \in {50, 100} : Press(p, "redeem", percent)
    /\ UNCHANGED <<Wallet, ledger, astray, faults>>

Claim(p) ==
    /\ p \in ClaimViews /\ tabOf[p] # Nobody /\ At(p, "idle")
    /\ Press(p, "claim", Denomination)
    /\ UNCHANGED <<Wallet, ledger, rt, astray, faults>>

-----------------------------------------------------------------------------
(* submitMainnetStrk20Actions.                                              *)

Recent(t) == {h \in rt[t].completed : txs[h].age = "recent"}

Enter_SameKeyOnly(p, key, before) ==
    LET t == tabOf[p]
        mine == [panel[p] EXCEPT !.key = key, !.before = before]
        done == {h \in Recent(t) : txs[h].key = key}
        first == rt[t].inFlight
    IN  /\ rt' = [rt EXCEPT ![t].completed = Recent(t),
                            ![t].inFlight = IF done = {} /\ @ = Nobody THEN p ELSE @]
        /\ panel' = [panel EXCEPT ![p] =
              IF done # {} THEN [mine EXCEPT !.pc = "verifying",
                                             !.hash = CHOOSE h \in done : TRUE]
              ELSE IF first # Nobody /\ panel[first].key = key
                   THEN [mine EXCEPT !.pc = "following"]
              ELSE [mine EXCEPT !.pc = "checking"]]

Enter_NoSharing(p, key, before) ==
    LET t == tabOf[p]
        mine == [panel[p] EXCEPT !.key = key, !.before = before]
        done == {h \in Recent(t) : txs[h].key = key}
    IN  /\ rt' = [rt EXCEPT ![t].completed = Recent(t), ![t].inFlight = p]
        /\ panel' = [panel EXCEPT ![p] =
              IF done # {} THEN [mine EXCEPT !.pc = "verifying",
                                             !.hash = CHOOSE h \in done : TRUE]
              ELSE [mine EXCEPT !.pc = "checking"]]

\* A submission done less than 30 seconds ago is not made again; one in flight is
\* shared by who asks for the same, and refused to who asks for another.
Enter(p, key, before) ==
    LET t == tabOf[p]
        mine == [panel[p] EXCEPT !.key = key, !.before = before]
        done == {h \in Recent(t) : txs[h].key = key}
        first == rt[t].inFlight
        Swept == [rt EXCEPT ![t].completed = Recent(t)]
    IN  \/ /\ done # {}
           /\ panel' = [panel EXCEPT ![p] = [mine EXCEPT !.pc = "verifying",
                                             !.hash = CHOOSE h \in done : TRUE]]
           /\ rt' = Swept
        \/ /\ done = {} /\ first # Nobody /\ panel[first].key = key
           /\ panel' = [panel EXCEPT ![p] = [mine EXCEPT !.pc = "following"]]
           /\ rt' = Swept
        \/ /\ done = {} /\ first # Nobody /\ panel[first].key # key
           /\ panel' = [panel EXCEPT ![p] = Ended(@)]
           /\ rt' = [Swept EXCEPT ![t] = [Release(t, {p}) EXCEPT !.completed = Recent(t)]]
        \/ /\ done = {} /\ first = Nobody
           /\ panel' = [panel EXCEPT ![p] = [mine EXCEPT !.pc = "checking"]]
           /\ rt' = [Swept EXCEPT ![t].inFlight = p]

\* Two tabs at the same position at once, one of them redeeming.
Overlaps(p) ==
    \E q \in EarnPanels \ {p} :
        /\ panel[q].pc \in {"checking", "prompt", "sent", "verifying"}
        /\ "redeem" \in {panel[p].key.kind, panel[q].key.kind}

Connected(p) ==
    LET asked == panel[p].key
        shares == (held.shares * asked.amount) \div 100
    IN  /\ At(p, "connecting")
        /\ \/ asked.kind # "redeem" /\ Enter(p, asked, 0)
           \/ /\ asked.kind = "redeem" /\ shares # 0
              /\ Enter(p, [asked EXCEPT !.amount = shares], held.shares)
           \/ asked.kind = "redeem" /\ shares = 0 /\ End(p)
        /\ astray' = (astray \/ (p \in EarnPanels /\ Overlaps(p)))
        /\ UNCHANGED <<Wallet, ledger, faults>>

Refused(p) ==
    /\ At(p, "connecting")
    /\ End(p)
    /\ UNCHANGED <<Wallet, ledger, astray, faults>>

\* Who waits for the submission of p, p itself among them.
Waiting(p) ==
    {p} \cup {q \in Panels : At(q, "following") /\ tabOf[q] = tabOf[p]
                                /\ panel[q].key = panel[p].key}

\* The promise is rejected.
Reject(p) ==
    LET t == tabOf[p]
    IN  /\ panel' = [q \in Panels |->
              IF q \in Waiting(p) THEN Ended(panel[q]) ELSE panel[q]]
        /\ rt' = [rt EXCEPT ![t] = [Release(t, Waiting(p)) EXCEPT !.inFlight = Nobody]]

\* assertMainnetPrivacyRuntime; then strk20InvokeTransaction opens the prompt.
CheckRuntime(p) ==
    /\ At(p, "checking")
    /\ \/ Go(p, "prompt") /\ UNCHANGED rt
       \/ Reject(p)
    /\ UNCHANGED <<Wallet, ledger, astray, faults>>

Approve(p) ==
    /\ At(p, "prompt") /\ Len(txs) < MaxTxs
    /\ txs' = Append(txs, [key |-> panel[p].key, tab |-> tabOf[p],
                           status |-> "sent", age |-> "unseen"])
    /\ panel' = [panel EXCEPT ![p].pc = "sent", ![p].hash = Len(txs')]
    /\ UNCHANGED <<tabOf, held, claimed, ledger, rt, astray, faults>>

Decline(p) ==
    /\ At(p, "prompt")
    /\ Reject(p)
    /\ UNCHANGED <<Wallet, ledger, astray, faults>>

Settled(t, p, h) ==
    [rt[t] EXCEPT !.inFlight = Nobody,
                  !.completed = {j \in @ : txs[j].key # txs[h].key} \cup {h}]

\* waitForTransaction has the receipt.
Receipt(p) ==
    LET t == tabOf[p]
        h == panel[p].hash
    IN  /\ At(p, "sent")
        /\ \/ /\ txs[h].status = "ok"
              /\ txs' = [txs EXCEPT ![h].age = "recent"]
              /\ rt' = [rt EXCEPT ![t] = Settled(t, p, h)]
              /\ panel' = [q \in Panels |->
                    IF q \in Waiting(p)
                    THEN [panel[q] EXCEPT !.pc = "verifying", !.hash = h]
                    ELSE panel[q]]
           \/ /\ txs[h].status = "reverted"
              /\ Reject(p)
              /\ UNCHANGED txs
        /\ UNCHANGED <<tabOf, held, claimed, ledger, astray, faults>>

\* It cannot be had: the press ends in an error whatever becomes of it.
ReceiptLost(p) ==
    /\ At(p, "sent") /\ faults < MaxFaults
    /\ Reject(p)
    /\ astray' = (astray \/ p \in EarnPanels)
    /\ faults' = faults + 1
    /\ UNCHANGED <<Wallet, ledger>>

-----------------------------------------------------------------------------
(* What follows a submission: the receipt is verified, the ledger written.  *)

recordRedeem_Removed(before, after) == 0

recordRedeem(before, after) == (ledger * after) \div before

\* What the panel shows next; the balance of the other tab is masked.
Shown(view) ==
    IF view.key.kind = "deposit"
    THEN [view EXCEPT !.shares = Masked,
                      !.usdc = IF @ = Masked THEN Masked
                               ELSE IF @ > view.key.amount THEN @ - view.key.amount ELSE 0]
    ELSE [view EXCEPT !.usdc = Masked, !.shares = view.before - view.key.amount]

Handle_Always(p) ==
    LET view == panel[p]
    IN  /\ rt' = [rt EXCEPT ![tabOf[p]] = Release(tabOf[p], {p})]
        /\ ledger' = IF view.key.kind = "deposit" THEN ledger + view.key.amount
                     ELSE recordRedeem(view.before, view.before - view.key.amount)
        /\ panel' = [panel EXCEPT ![p] = Ended(Shown(view))]

\* claimEarnTxHandled: a hash counts once, who comes with it again ends in silence.
Handle(p) ==
    LET t == tabOf[p]
        view == panel[p]
    IN  IF view.hash \in rt[t].handled
        THEN End(p) /\ UNCHANGED ledger
        ELSE /\ rt' = [rt EXCEPT ![t] = [Release(t, {p}) EXCEPT !.handled = @ \cup {view.hash}]]
             /\ ledger' = IF view.key.kind = "deposit" THEN ledger + view.key.amount
                          ELSE recordRedeem(view.before, view.before - view.key.amount)
             /\ panel' = [panel EXCEPT ![p] = Ended(Shown(view))]

Verified(p) ==
    /\ At(p, "verifying")
    /\ IF p \in EarnPanels THEN Handle(p) ELSE End(p) /\ UNCHANGED ledger
    /\ UNCHANGED <<Wallet, astray, faults>>

\* The receipt or the residue of the anonymizer cannot be read, or is not right.
VerificationFails(p) ==
    /\ p \in EarnPanels /\ At(p, "verifying") /\ faults < MaxFaults
    /\ End(p)
    /\ astray' = (astray \/ panel[p].hash \notin rt[tabOf[p]].handled)
    /\ faults' = faults + 1
    /\ UNCHANGED <<Wallet, ledger>>

-----------------------------------------------------------------------------
(* The chain, the time and the browser.                                     *)

\* A private transaction spends notes that are there, or reverts.
Execute(h) ==
    LET key == txs[h].key
        covered == CASE key.kind = "deposit" -> held.usdc >= key.amount
                     [] key.kind = "redeem" -> held.shares >= key.amount
                     [] OTHER -> ~claimed
        in == IF key.kind = "deposit" THEN - key.amount ELSE key.amount
        out == IF key.kind = "claim" THEN 0 ELSE - in
    IN  /\ txs[h].status = "sent"
        /\ txs' = [txs EXCEPT ![h].status = IF covered THEN "ok" ELSE "reverted"]
        /\ held' = IF covered THEN [usdc |-> held.usdc + in, shares |-> held.shares + out]
                   ELSE held
        /\ claimed' = (claimed \/ key.kind = "claim")
        /\ UNCHANGED <<tabOf, ledger, rt, panel, astray, faults>>

\* STRK20_REPLAY_WINDOW_MS is over.
Lapse(h) ==
    /\ txs[h].age = "recent"
    /\ txs' = [txs EXCEPT ![h].age = "old"]
    /\ UNCHANGED <<tabOf, held, claimed, ledger, rt, panel, astray, faults>>

\* A reload forgets what the tab keeps in memory, and the window starts anew.
Reload(t) ==
    LET mine == {p \in Panels : tabOf[p] = t}
    IN  /\ faults < MaxFaults
        /\ \E p \in mine : ~At(p, "idle")
        /\ rt' = [rt EXCEPT ![t] = Runtime]
        /\ panel' = [p \in Panels |-> IF p \in mine THEN Fresh ELSE panel[p]]
        /\ txs' = [h \in Hashes |->
              IF txs[h].tab = t /\ txs[h].age = "recent" THEN [txs[h] EXCEPT !.age = "old"]
              ELSE txs[h]]
        /\ astray' = (astray \/ \E p \in mine \cap EarnPanels :
                                    panel[p].pc \in {"sent", "verifying"})
        /\ faults' = faults + 1
        /\ UNCHANGED <<tabOf, held, claimed, ledger>>

Next ==
    \/ \E p \in Panels :
          \/ Reveal(p) \/ Revealed(p) \/ Deposit(p) \/ Withdraw(p) \/ Claim(p)
          \/ Connected(p) \/ Refused(p) \/ CheckRuntime(p) \/ Approve(p) \/ Decline(p)
          \/ Receipt(p) \/ Verified(p) \/ ReceiptLost(p) \/ VerificationFails(p)
    \/ \E h \in Hashes : Execute(h) \/ Lapse(h)
    \/ \E t \in Tabs : Reload(t)

Spec == Init /\ [][Next]_vars

-----------------------------------------------------------------------------
(* Properties.                                                              *)

TypeOK ==
    /\ tabOf \in Layouts
    /\ held \in [usdc: Nat, shares: Nat] /\ claimed \in BOOLEAN /\ astray \in BOOLEAN
    /\ txs \in Seq([key: Keys, tab: Tabs, status: {"sent", "ok", "reverted"},
                    age: {"unseen", "recent", "old"}])
    /\ ledger \in Nat /\ faults \in 0..MaxFaults
    /\ rt \in [Tabs -> [gate: BOOLEAN, handled: SUBSET Hashes, completed: SUBSET Hashes,
                        inFlight: Panels \cup {Nobody}]]
    /\ panel \in [Panels -> [pc: PCs, key: Keys, before: Nat, hash: 0..MaxTxs,
                             usdc: Nat \cup {Masked}, shares: Nat \cup {Masked}]]

\* Ready is never asked for two confirmations by one tab at a time, whatever
\* panels of it are pressed and mounted anew (mainnet-privacy.ts:324).
OnePrompt ==
    \A t \in Tabs : Cardinality({p \in Panels : tabOf[p] = t /\ At(p, "prompt")}) <= 1

\* While a tab remembers that a submission has succeeded, no press of it sends
\* the same actions again, not even one that began before (mainnet-privacy.ts:315).
NoRebroadcast ==
    [][\A h \in 1..Len(txs') \ Hashes : \A j \in Hashes :
          ~ (/\ txs[j].tab = txs'[h].tab /\ txs[j].key = txs'[h].key
             /\ txs[j].age = "recent")]_vars

\* The tokens of these transactions, one by one.
Tokens(hashes) == UNION {{h} \X (1..txs[h].key.amount) : h \in hashes}
Deposits == {h \in Hashes : txs[h].key.kind = "deposit" /\ txs[h].status = "ok"}

\* A deposit is in the cost basis at most once, however often its hash is handed
\* out by the replay window (EarnPanel.tsx:266).
LedgerIsBacked == ledger <= Cardinality(Tokens(Deposits))

\* Unless a transaction was lost sight of or two tabs overlapped, the cost basis
\* is that of the shares held once nothing is under way (ledger.ts:26).
LedgerFollows ==
    ~astray /\ (\A p \in EarnPanels : panel[p].pc \notin {"sent", "verifying"})
        => ledger = held.shares

\* The write gate of a tab is held by a panel that is going to give it back
\* (earn-write-gate.ts:39).
GateHasHolder ==
    \A t \in Tabs : rt[t].gate <=>
        \E p \in EarnPanels : tabOf[p] = t /\ ~At(p, "idle")
=============================================================================
