-------------------------- MODULE PrivatePayments ---------------------------
(***************************************************************************)
(* The page of the smoke app on Sepolia, once its private identity is      *)
(* registered: shield, transfer, fund, claim and refund, each a button of  *)
(* its own whose flow makes a proof, and the payment that comes from       *)
(* another chain into the page's own inbox.  A button is busy while its    *)
(* flow runs; the others are not.                                          *)
(*                                                                         *)
(* Every amount is one denomination, a private note is worth one, and a    *)
(* payment is named by its place in the order they are made; who has its   *)
(* secret has it.  Two escrow pools: the direct one of the manifest, which *)
(* the buttons use, and one that the router funds.  The user keeps a secret  *)
(* that was on the screen.                                                 *)
(***************************************************************************)
EXTENDS Naturals, Sequences, FiniteSets

CONSTANTS Margin,          \* PROVING_BLOCK_MARGIN
          MaxBlock, MaxNotes, MaxPayments, MaxReloads,
          MaxRunning,      \* bound: flows that run at once
          PublicFunds      \* public USDC of the Ready account

PrivatePaymentsAssumption ==
    {Margin, MaxBlock, MaxNotes, MaxPayments, MaxReloads, MaxRunning, PublicFunds}
        \subseteq Nat

VARIABLES
    block,       \* the latest block
    public,      \* public USDC
    parked,      \* USDC of the identity contract, not deposited yet
    notes,       \* the private notes: the block they are of, whether they are spent
    payments,    \* escrow pool, status, whether a note of it is in the own inbox
    known,       \* the private payments whose secrets the page has shown
    page,        \* minimumProofBlock, the fields and what the inbox has loaded
    running,     \* the flow of every button
    blurred,     \* history: flows overlapped, or a transaction was lost sight of
    reloads

vars == <<block, public, parked, notes, payments, known, page, running, blurred, reloads>>

Buttons == {"shield", "transfer", "fund", "claim", "refund"}

Idle == [pc |-> "idle", since |-> 0, proof |-> 0, payment |-> 0, pool |-> "direct", at |-> 0]

\* secret: the payment whose secret is in claimSecret; inbox: inboxClaimEscrow is set;
\* burning: cctp_fund is at the source wallet; wrote: the block of the last private write.
NewPage == [minimum |-> 0, secret |-> 0, inbox |-> FALSE, loading |-> FALSE,
            burning |-> FALSE, wrote |-> 0]

Init ==
    /\ block = 1 /\ public = PublicFunds /\ parked = 0
    /\ notes = <<>> /\ payments = <<>> /\ known = {}
    /\ page = NewPage
    /\ running = [b \in Buttons |-> Idle]
    /\ blurred = FALSE /\ reloads = 0

Unspent == {n \in DOMAIN notes : ~notes[n].spent}
Running == {b \in Buttons : running[b].pc # "idle"}
chainVars == <<public, parked, notes, payments>>

-----------------------------------------------------------------------------
(* What a flow reads when its button is pressed.                            *)

Begin(b, since, payment, pool) ==
    /\ running[b].pc = "idle" /\ Cardinality(Running) < MaxRunning
    /\ running' = [running EXCEPT ![b] = [pc |-> "waiting", since |-> since, proof |-> 0,
                                          payment |-> payment, pool |-> pool, at |-> 0]]
    /\ blurred' = (blurred \/ Running # {})
    /\ UNCHANGED <<block, notes, payments, known, page, reloads>>

\* shieldUsdc: the identity is funded first; its deposit is proved later.
ShieldUsdc ==
    /\ public > 0
    /\ public' = public - 1 /\ parked' = parked + 1
    /\ Begin("shield", block, 0, "direct")

\* privateTransfer, privateFund: the balance is checked, then the proof is built.
PrivateTransfer ==
    /\ Unspent # {} /\ Begin("transfer", page.minimum, 0, "direct")
    /\ UNCHANGED <<public, parked>>

PrivateFund ==
    /\ Unspent # {} /\ Begin("fund", page.minimum, 0, "direct")
    /\ UNCHANGED <<public, parked>>

\* claim_release: the secret of the field, at the pool that was loaded with it.
ClaimPrivateFund ==
    /\ page.secret # 0
    /\ Begin("claim", page.minimum, page.secret, IF page.inbox THEN "cctp" ELSE "direct")
    /\ UNCHANGED <<public, parked>>

\* private_refund, with a refund secret the page has shown, once the payment expired.
RefundPrivateFund(p) ==
    /\ p \in known
    /\ Begin("refund", page.minimum, p, "direct")
    /\ UNCHANGED <<public, parked>>

-----------------------------------------------------------------------------
(* executePrivateBuilder.                                                   *)

\* waitForProofSafeBlock
ProofSafeBlock(b) ==
    LET safe == IF block > Margin THEN block - Margin ELSE 0
    IN  /\ running[b].pc = "waiting" /\ safe >= running[b].since
        /\ running' = [running EXCEPT ![b].pc = "proving", ![b].proof = safe]
        /\ UNCHANGED <<block, chainVars, known, page, blurred, reloads>>

Note == [block |-> block, spent |-> FALSE]

\* A note can be spent once, in a proof on a block that has it.
SpendOne(b) ==
    \E n \in Unspent :
        notes[n].block <= running[b].proof /\ notes' = [notes EXCEPT ![n].spent = TRUE]

\* The escrow pool pays a payment it holds into a new note.  It knows a payment by its
\* own address and the secret.
Settles(b) ==
    LET p == running[b].payment
    IN  /\ payments[p].status = "held" /\ payments[p].pool = running[b].pool
        /\ payments' = [payments EXCEPT ![p].status = "gone"]
        /\ notes' = Append(notes, Note)

Effect(b) ==
    CASE b = "shield" ->
            /\ parked > 0 /\ parked' = parked - 1
            /\ notes' = Append(notes, Note)
            /\ UNCHANGED <<public, payments>>
      [] b = "transfer" ->
            SpendOne(b) /\ UNCHANGED <<public, parked, payments>>
      [] b = "fund" ->
            /\ SpendOne(b) /\ Len(payments) < MaxPayments
            /\ payments' = Append(payments, [pool |-> "direct", status |-> "held",
                                             inbox |-> FALSE])
            /\ UNCHANGED <<public, parked>>
      [] b \in {"claim", "refund"} ->
            Settles(b) /\ UNCHANGED <<public, parked>>

\* executeWithInvocation, submitProof and the receipt.
Submit(b) ==
    /\ running[b].pc = "proving" /\ Len(notes) < MaxNotes
    /\ Effect(b)
    /\ running' = [running EXCEPT ![b].pc = "landed", ![b].at = block,
                     ![b].payment = IF b = "fund" THEN Len(payments') ELSE @]
    /\ UNCHANGED <<block, known, page, blurred, reloads>>

\* The flow ends in an error, before its transaction or after.
GiveUp(b) ==
    /\ running[b].pc # "idle"
    /\ running' = [running EXCEPT ![b] = Idle]
    /\ blurred' = (blurred \/ running[b].pc = "landed")
    /\ UNCHANGED <<block, chainVars, known, page, reloads>>

\* rememberPrivateState; then the secrets of a payment are shown.
Remembered(b, minimum) ==
    /\ running[b].pc = "landed"
    /\ page' = [page EXCEPT !.minimum = minimum, !.wrote = running[b].at]
    /\ known' = known \cup (IF b = "fund" THEN {running[b].payment} ELSE {})
    /\ running' = [running EXCEPT ![b] = Idle]
    /\ UNCHANGED <<block, chainVars, blurred, reloads>>

Remember_NotTheBlock(b) == Remembered(b, page.minimum)
Remember(b) == Remembered(b, running[b].at)

-----------------------------------------------------------------------------
(* The fields of the page, the inbox, and payments from another chain.      *)

PageOnly == UNCHANGED <<block, chainVars, known, running, blurred, reloads>>

\* The claim secret of a private payment is typed, or pasted, and the input handler runs.
TypeSecret_InboxStays(p) ==
    /\ p \in known
    /\ page' = [page EXCEPT !.secret = p]
    /\ PageOnly
TypeSecret(p) ==
    /\ p \in known
    /\ page' = [page EXCEPT !.secret = p, !.inbox = FALSE]
    /\ PageOnly

LoadInbox ==
    /\ ~page.loading
    /\ page' = [page EXCEPT !.loading = TRUE]
    /\ PageOnly

\* loadLatestClaim
LoadLatestClaim ==
    /\ page.loading
    /\ \/ page' = [page EXCEPT !.loading = FALSE]
       \/ \E p \in DOMAIN payments :
             /\ payments[p].inbox
             /\ page' = [page EXCEPT !.loading = FALSE, !.secret = p, !.inbox = TRUE]
    /\ PageOnly

\* fundFromCircleSource: the note is delivered before anything is burnt.
Deliver ==
    /\ ~page.burning /\ Len(payments) < MaxPayments
    /\ payments' = Append(payments, [pool |-> "cctp", status |-> "promised", inbox |-> TRUE])
    /\ page' = [page EXCEPT !.burning = TRUE]
    /\ UNCHANGED <<block, public, parked, notes, known, running, blurred, reloads>>

\* The wallet burns, or the flow ends; the relayer funds the pool in the end.
Burn ==
    /\ page.burning
    /\ \E p \in DOMAIN payments :
          /\ payments[p].status = "promised"
          /\ \/ payments' = [payments EXCEPT ![p].status = "burnt"]
             \/ payments' = [payments EXCEPT ![p].status = "gone"]
    /\ page' = [page EXCEPT !.burning = FALSE]
    /\ UNCHANGED <<block, public, parked, notes, known, running, blurred, reloads>>

Settle ==
    /\ \E p \in DOMAIN payments :
          /\ payments[p].status = "burnt"
          /\ payments' = [payments EXCEPT ![p].status = "held"]
    /\ UNCHANGED <<block, public, parked, notes, known, page, running, blurred, reloads>>

NewBlock ==
    /\ block < MaxBlock
    /\ block' = block + 1
    /\ UNCHANGED <<chainVars, known, page, running, blurred, reloads>>

\* Nothing of the page is kept; what it had not burnt it never will.
Reload ==
    /\ reloads < MaxReloads
    /\ page' = NewPage
    /\ running' = [b \in Buttons |-> Idle]
    /\ payments' = [p \in DOMAIN payments |->
                      [payments[p] EXCEPT !.status = IF @ = "promised" THEN "gone" ELSE @]]
    /\ reloads' = reloads + 1
    /\ UNCHANGED <<block, public, parked, notes, known, blurred>>

Next ==
    \/ ShieldUsdc \/ PrivateTransfer \/ PrivateFund \/ ClaimPrivateFund
    \/ \E b \in Buttons : ProofSafeBlock(b) \/ Submit(b) \/ GiveUp(b) \/ Remember(b)
    \/ \E p \in DOMAIN payments : TypeSecret(p) \/ RefundPrivateFund(p)
    \/ LoadInbox \/ LoadLatestClaim \/ Deliver \/ Burn \/ Settle \/ NewBlock \/ Reload

Spec == Init /\ [][Next]_vars

-----------------------------------------------------------------------------
(* A claim is aimed at the pool its payment is in, whatever was loaded from *)
(* the inbox or typed into the field since.                                 *)
ClaimIsAimed ==
    running["claim"].pc # "idle" =>
        running["claim"].pool = payments[running["claim"].payment].pool

(* A proof is made on a block that has what the page last wrote, unless two *)
(* flows have overlapped or a flow did not see its transaction end.         *)
ProofSeesWrites ==
    ~blurred => \A b \in Buttons :
        running[b].pc = "proving" => page.wrote <= running[b].proof
=============================================================================
