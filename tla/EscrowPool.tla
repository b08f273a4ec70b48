----------------------------- MODULE EscrowPool -----------------------------
(***************************************************************************)
(* One escrow pool and everybody who can call it: depositors, the router,  *)
(* the privacy pool on behalf of note holders, anybody for a public        *)
(* refund, anybody who sends it tokens, and the clock.  One action is one  *)
(* Starknet transaction, which is atomic: a private payout is the          *)
(* privacy_invoke that approves the privacy pool and the transfer_from     *)
(* with which the privacy pool then collects the open note.                *)
(*                                                                         *)
(* balance is the pool's own USDC balance, an entry of an external token:  *)
(* a depositor who lacks the tokens or the allowance makes the call revert.*)
(***************************************************************************)
EXTENDS EscrowContract, FiniteSets

CONSTANTS Denomination,   \* the amount of every claim of this pool
          Transfers,      \* the amounts of USDC somebody may move to the pool
          Expiries,       \* the expires_at values callers pass
          MaxTime         \* bound: block timestamps go from 0 to MaxTime

ASSUME EscrowPoolAssumption ==
    /\ IsFiniteSet(ClaimHashes)
    /\ NoHash \notin ClaimHashes \cup RefundHashes
    /\ NoRecipient \notin Recipients
    /\ Denomination \in Nat \ {0}
    /\ Transfers \subseteq Nat
    /\ Expiries \subseteq Nat
    /\ MaxTime \in Nat

VARIABLES pool,      \* the contract's storage
          balance,   \* its USDC balance
          now        \* the block timestamp

vars == <<pool, balance, now>>

claims == pool.claims
Live == {h \in ClaimHashes : claims[h].status = "FUNDED"}

TypeOK == /\ pool \in Storage
          /\ balance \in Nat
          /\ now \in Nat

Init == /\ pool = EmptyStorage
        /\ balance = 0
        /\ now = 0

-----------------------------------------------------------------------------
\* Zero hashes and recipients are passed too; the asserts refuse them.
AnyHash == ClaimHashes \cup {NoHash}
AnyRefundHash == RefundHashes \cup {NoHash}
AnyRecipient == Recipients \cup {NoRecipient}

\* The storage is changed before the token is pulled; the delta check makes
\* the balance grow by exactly the denomination or the call revert.
FundWithTransfer(kind, h, r, e) ==
    /\ CanFund(pool, h, r, e, now)
    /\ Collateralized(pool, Denomination, balance + Denomination)
    /\ pool' = Funded(pool, Denomination, kind, h, r, NoHash, e)
    /\ balance' = balance + Denomination
    /\ UNCHANGED now

DepositPublic(h, r, e) == FundWithTransfer("PUBLIC_DIRECT", h, r, e)

\* Only the router passes ONLY_ROUTER; what makes it call is in CctpRouter.
FundFromRouter(h, r, e) == FundWithTransfer("CCTP", h, r, e)

\* The privacy pool withdraws moved tokens to the escrow, then invokes it
\* with provided; nothing in the escrow says that the two are the same.
PrivateFund(h, r, q, e, moved, provided) ==
    /\ CanFundPrivate(pool, Denomination, h, q, e, provided, balance + moved, now)
    /\ pool' = FundedPrivate(pool, Denomination, h, r, q, e)
    /\ balance' = balance + moved
    /\ UNCHANGED now

\* The books are closed and the transfer or the approval is forgotten.
PayOut_NothingMoves(h, status) == /\ balance >= Denomination
                                  /\ pool' = Closed(pool, Denomination, h, status)
                                  /\ UNCHANGED <<balance, now>>

\* The token refuses a transfer above the balance, which reverts the call.
PayOut(h, status) == /\ balance >= Denomination
                     /\ pool' = Closed(pool, Denomination, h, status)
                     /\ balance' = balance - Denomination
                     /\ UNCHANGED now

Claim(h) == /\ CanClaim(pool, Denomination, h, now)
            /\ PayOut(h, "CLAIMED")

RefundPublic(h) == /\ CanRefundPublic(pool, Denomination, h, now)
                   /\ PayOut(h, "REFUNDED")

PrivateRefund(q) == /\ CanRefundPrivate(pool, Denomination, q, now)
                    /\ PayOut(pool.refundToClaim[q], "REFUNDED")

\* Anybody can transfer USDC to the pool's address.
Donate(amount) == /\ amount > 0
                  /\ balance' = balance + amount
                  /\ UNCHANGED <<pool, now>>

Tick == /\ now < MaxTime
        /\ now' = now + 1
        /\ UNCHANGED <<pool, balance>>

Next == \/ \E h \in AnyHash, r \in AnyRecipient, e \in Expiries :
              \/ DepositPublic(h, r, e)
              \/ FundFromRouter(h, r, e)
              \/ \E q \in AnyRefundHash, moved, provided \in Transfers :
                    PrivateFund(h, r, q, e, moved, provided)
        \/ \E h \in ClaimHashes : Claim(h) \/ RefundPublic(h)
        \/ \E q \in RefundHashes : PrivateRefund(q)
        \/ \E amount \in Transfers : Donate(amount)
        \/ Tick

Spec == Init /\ [][Next]_vars

-----------------------------------------------------------------------------
\* The contract's own books are right, and the tokens are there: the stored
\* liability is what the live claims are worth (it is only ever moved up by
\* reserve_liability and down by release_liability, never recomputed), and
\* the balance covers it, whoever brought the tokens.
Solvent == /\ pool.liability = Denomination * Cardinality(Live)
           /\ balance >= pool.liability

\* private_refund_to_claim and the records name each other: the index entry
\* of a refund hash leads to the one private claim that stores that hash, so
\* no refund secret can close another sender's claim, and none is orphaned.
RefundIndexMatches ==
    \A q \in RefundHashes, h \in ClaimHashes :
        pool.refundToClaim[q] = h <=> claims[h].refundHash = q

\* Every funded claim can be paid out at every moment, by exactly one side:
\* the holder of the claim secret until it expires, from then on the refund
\* recipient or, for a private claim, the holder of its refund secret.  No
\* assert of the exit paths (funding kind, index, expiry on either side of
\* the boundary, LIABILITY, the token balance) can lock a funded claim.
HasRefund(h) == \/ CanRefundPublic(pool, Denomination, h, now)
                \/ \E q \in RefundHashes : /\ pool.refundToClaim[q] = h
                                           /\ CanRefundPrivate(pool, Denomination, q, now)

ExactlyOneExit == \A h \in Live : /\ balance >= Denomination
                                  /\ CanClaim(pool, Denomination, h, now) # HasRefund(h)

\* What a claim was funded with never changes afterwards, and a claim that
\* was paid out never becomes payable again, so a hash serves one payment.
KeepsTerms(h) ==
    claims[h].status # "NONE" =>
        /\ claims'[h] = [claims[h] EXCEPT !.status = claims'[h].status]
        /\ claims'[h].status = claims[h].status \/ claims[h].status = "FUNDED"
        /\ claims'[h].status # "NONE"

TermsAreFinal == [][\A h \in ClaimHashes : KeepsTerms(h)]_vars

\* The pool implements the ledger of claims.
StageOf(status) == CASE status = "NONE" -> "none"
                     [] status = "FUNDED" -> "funded"
                     [] status = "CLAIMED" -> "claimed"
                     [] status = "REFUNDED" -> "refunded"

Ledger == INSTANCE ClaimLedger
          WITH Claims <- ClaimHashes,
               Amount <- Denomination,
               ledger <- [h \in ClaimHashes |-> StageOf(claims[h].status)],
               vault <- balance

ImplementsLedger == Ledger!Spec
=============================================================================
