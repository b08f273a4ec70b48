--------------------------- MODULE EscrowContract ---------------------------
(***************************************************************************)
(* The storage of one WottaEscrowPool contract and its entry points, as    *)
(* operators from the storage s before a call to the storage after it.     *)
(* EscrowPool runs them against one pool, CctpRouter against all the pools *)
(* a router funds.  A Can... operator is the conjunction of the asserts a  *)
(* call has to pass; a call that fails one reverts and changes nothing.    *)
(*                                                                         *)
(* A secret is identified with its hash (Poseidon under the domain of the  *)
(* chain and the pool is injective): who knows the claim secret of h calls *)
(* with h.  NoHash is the felt 0.  Event emission is left out, and so is   *)
(* funded_at, which nothing reads.                                         *)
(*                                                                         *)
(* A definition whose name is that of another, an underscore and a few     *)
(* words, here and in the other modules, is that other one with a slip     *)
(* somebody could make in the code.  The model does not use it;            *)
(* PROJECT.json says which property notices it.                            *)
(***************************************************************************)
EXTENDS Integers

CONSTANTS ClaimHashes,    \* the nonzero claim hashes
          RefundHashes,   \* the nonzero private refund hashes
          Recipients,     \* the nonzero refund recipients
          NoHash,         \* the felt 0 where a hash is expected
          NoRecipient     \* the address 0

Statuses == {"NONE", "FUNDED", "CLAIMED", "REFUNDED"}
FundingKinds == {"NO_KIND", "PUBLIC_DIRECT", "CCTP", "PRIVATE"}

ClaimRecord == [status: Statuses,
                kind: FundingKinds,
                recipient: Recipients \cup {NoRecipient},
                refundHash: RefundHashes \cup {NoHash},
                expiresAt: Nat]

\* What a storage map returns for a key that was never written.
NoClaim == [status |-> "NONE", kind |-> "NO_KIND", recipient |-> NoRecipient,
            refundHash |-> NoHash, expiresAt |-> 0]

Storage == [claims: [ClaimHashes -> ClaimRecord],
            refundToClaim: [RefundHashes -> ClaimHashes \cup {NoHash}],
            liability: Nat]

EmptyStorage == [claims |-> [h \in ClaimHashes |-> NoClaim],
                 refundToClaim |-> [q \in RefundHashes |-> NoHash],
                 liability |-> 0]

NewClaim(s, h) == s.claims[h].status = "NONE"
FutureExpiry(e, t) == e > t

\* release_liability: the assert on underflow.
Releasable(s, d) == s.liability >= d

\* The check made before reserve_liability.
Collateralized_BeforeReserve(s, d, balance) == balance >= s.liability

\* assert_collateralized, with the liability already reserved.
Collateralized(s, d, balance) == balance >= s.liability + d

-----------------------------------------------------------------------------
(* deposit_public and fund_from_router: same body, another caller. *)

CanFund(s, h, r, e, t) == /\ h # NoHash
                          /\ r # NoRecipient
                          /\ NewClaim(s, h)
                          /\ FutureExpiry(e, t)

Funded(s, d, kind, h, r, q, e) ==
    [claims |-> [s.claims EXCEPT ![h] = [status |-> "FUNDED", kind |-> kind, recipient |-> r,
                                         refundHash |-> q, expiresAt |-> e]],
     refundToClaim |-> s.refundToClaim,
     liability |-> s.liability + d]

-----------------------------------------------------------------------------
(* privacy_invoke, action PRIVATE_FUND; balance is the pool's when it runs. *)

CanFundPrivate(s, d, h, q, e, provided, balance, t) ==
    /\ h # NoHash
    /\ q # NoHash
    /\ NewClaim(s, h)
    /\ s.refundToClaim[q] = NoHash
    /\ FutureExpiry(e, t)
    /\ provided = d
    /\ Collateralized(s, d, balance)

FundedPrivate(s, d, h, r, q, e) ==
    [Funded(s, d, "PRIVATE", h, r, q, e) EXCEPT !.refundToClaim[q] = h]

-----------------------------------------------------------------------------
(* The three ways out: CLAIM, refund_public, PRIVATE_REFUND. *)

CanClaim(s, d, h, t) == /\ s.claims[h].status = "FUNDED"
                        /\ s.claims[h].expiresAt > t
                        /\ Releasable(s, d)

\* The expiry instant itself left to neither side.
CanRefundPublic_AfterExpiry(s, d, h, t) == /\ s.claims[h].status = "FUNDED"
                                           /\ s.claims[h].kind # "PRIVATE"
                                           /\ s.claims[h].expiresAt < t
                                           /\ Releasable(s, d)

CanRefundPublic(s, d, h, t) == /\ s.claims[h].status = "FUNDED"
                               /\ s.claims[h].kind # "PRIVATE"
                               /\ s.claims[h].expiresAt <= t
                               /\ Releasable(s, d)

CanRefundPrivate(s, d, q, t) ==
    /\ s.refundToClaim[q] # NoHash
    /\ LET record == s.claims[s.refundToClaim[q]]
       IN  /\ record.refundHash = q
           /\ record.kind = "PRIVATE"
           /\ record.status = "FUNDED"
           /\ record.expiresAt <= t
    /\ Releasable(s, d)

Closed(s, d, h, status) ==
    [claims |-> [s.claims EXCEPT ![h] = [@ EXCEPT !.status = status]],
     refundToClaim |-> s.refundToClaim,
     liability |-> s.liability - d]
=============================================================================
