-------------------------- MODULE EscrowPoolProofs --------------------------
(***************************************************************************)
(* Theorems about EscrowPool for every finite set of claim hashes, every   *)
(* denomination, every amount moved and every clock.  The inductive        *)
(* invariant is IndInv: three safety properties of EscrowPool, which its   *)
(* run checks, and what they lack to be inductive, RecordsWellFormed.  The *)
(* other properties and the refinement follow from it.                     *)
(*                                                                         *)
(* Theorems about Deployment for any number of pools, builds, transactions *)
(* and kills: nothing is sent twice, and what the manifest says is         *)
(* verified is live.  The inductive invariant is DeploymentInv.            *)
(***************************************************************************)
EXTENDS MCEscrowPool, Sequences, FiniteSetTheorems, TLAPS

-----------------------------------------------------------------------------
(* The set of live claims, and what one funding or payout does to it. *)

LiveOf(s) == {h \in ClaimHashes : s.claims[h].status = "FUNDED"}

\* The live claims are finitely many, so their number is a natural number.
LEMMA LiveFinite ==
    ASSUME NEW s
    PROVE  /\ IsFiniteSet(LiveOf(s))
           /\ Cardinality(LiveOf(s)) \in Nat
  <1>1. LiveOf(s) \in SUBSET ClaimHashes
    BY DEF LiveOf
  <1>2. IsFiniteSet(LiveOf(s))
    BY <1>1, FS_Subset, EscrowPoolAssumption
  <1>3. QED
    BY <1>2, FS_CardinalityType

\* Writing a FUNDED record over a claim that was not live makes one more.
LEMMA LiveGrows ==
    ASSUME NEW s, NEW t, NEW h \in ClaimHashes,
           s.claims[h].status # "FUNDED",
           t.claims[h].status = "FUNDED",
           \A g \in ClaimHashes \ {h} : t.claims[g] = s.claims[g]
    PROVE  Cardinality(LiveOf(t)) = Cardinality(LiveOf(s)) + 1
  <1>1. LiveOf(t) = LiveOf(s) \cup {h}
    BY DEF LiveOf
  <1>2. h \notin LiveOf(s)
    BY DEF LiveOf
  <1>3. QED
    BY <1>1, <1>2, LiveFinite, FS_AddElement

\* Closing a live claim makes one less, and there was at least one.
LEMMA LiveShrinks ==
    ASSUME NEW s, NEW t, NEW h \in ClaimHashes,
           s.claims[h].status = "FUNDED",
           t.claims[h].status # "FUNDED",
           \A g \in ClaimHashes \ {h} : t.claims[g] = s.claims[g]
    PROVE  /\ Cardinality(LiveOf(t)) = Cardinality(LiveOf(s)) - 1
           /\ Cardinality(LiveOf(t)) \in Nat
  <1>1. LiveOf(t) = LiveOf(s) \ {h}
    BY DEF LiveOf
  <1>2. h \in LiveOf(s)
    BY DEF LiveOf
  <1>3. Cardinality(LiveOf(s) \ {h}) = Cardinality(LiveOf(s)) - 1
    BY <1>2, LiveFinite, FS_RemoveElement
  <1>4. QED
    BY <1>1, <1>3, LiveFinite

\* The arithmetic of one denomination more or less, apart from the sets.
LEMMA OneMore ==
    ASSUME NEW d \in Nat, NEW n \in Nat
    PROVE  /\ d * n \in Nat
           /\ d * (n + 1) = d * n + d
  OBVIOUS

-----------------------------------------------------------------------------
(* The inductive invariant. *)

\* A claim never written reads as zero, and only private claims have a
\* refund hash.
RecordsWellFormed ==
    \A h \in ClaimHashes :
       /\ claims[h].status = "NONE" => claims[h] = NoClaim
       /\ claims[h].status # "NONE" =>
             (claims[h].kind = "PRIVATE" <=> claims[h].refundHash # NoHash)

IndInv == TypeOK /\ RecordsWellFormed /\ RefundIndexMatches /\ Solvent

\* The storage of a pool just deployed satisfies the invariant.
THEOREM InitInv == Init => IndInv
  <1> SUFFICES ASSUME Init PROVE IndInv
    OBVIOUS
  <1> USE EscrowPoolAssumption DEF Init, EmptyStorage, NoClaim, claims
  <1>1. TypeOK
    BY DEF TypeOK, Storage, ClaimRecord, Statuses, FundingKinds
  <1>2. RecordsWellFormed
    BY DEF RecordsWellFormed
  <1>3. RefundIndexMatches
    BY DEF RefundIndexMatches
  <1>4. Live = {}
    BY DEF Live
  <1>5. Solvent
    BY <1>4, FS_EmptySet DEF Solvent
  <1>6. QED
    BY <1>1, <1>2, <1>3, <1>5 DEF IndInv

-----------------------------------------------------------------------------
(* One lemma per shape of step; an action is one of three shapes. *)

\* What Funded does to a storage, field by field.
LEMMA FundedResult ==
    ASSUME NEW s \in Storage, NEW kind \in FundingKinds, NEW h \in ClaimHashes,
           NEW r \in AnyRecipient, NEW q \in AnyRefundHash, NEW e \in Expiries
    PROVE  LET t == Funded(s, Denomination, kind, h, r, q, e)
           IN  /\ t \in Storage
               /\ t.liability = s.liability + Denomination
               /\ t.refundToClaim = s.refundToClaim
  <1> USE EscrowPoolAssumption
  <1> DEFINE record == [status |-> "FUNDED", kind |-> kind, recipient |-> r,
                        refundHash |-> q, expiresAt |-> e]
             t == Funded(s, Denomination, kind, h, r, q, e)
  <1>1. record \in ClaimRecord
    BY DEF ClaimRecord, Statuses, AnyRecipient, AnyRefundHash
  <1> HIDE DEF record
  <1>2. [s.claims EXCEPT ![h] = record] \in [ClaimHashes -> ClaimRecord]
    BY <1>1 DEF Storage
  <1>3. s.liability + Denomination \in Nat
    BY DEF Storage
  <1>4. t = [claims |-> [s.claims EXCEPT ![h] = record],
             refundToClaim |-> s.refundToClaim,
             liability |-> s.liability + Denomination]
    BY DEF Funded, Storage, record
  <1> HIDE DEF t
  <1>5. t \in Storage /\ t.liability = s.liability + Denomination
        /\ t.refundToClaim = s.refundToClaim
    BY <1>2, <1>3, <1>4 DEF Storage
  <1>6. QED
    BY <1>5 DEF t

\* Writing a new FUNDED record, with the index entry of its refund hash when
\* it has one, keeps IndInv if the balance covers the liability after it.
LEMMA FundingKeepsInv ==
    ASSUME IndInv,
           NEW h \in ClaimHashes, NEW r \in AnyRecipient, NEW e \in Expiries,
           NEW q \in AnyRefundHash, NEW kind \in FundingKinds,
           NewClaim(pool, h),
           kind = "PRIVATE" <=> q # NoHash,
           pool'.claims = Funded(pool, Denomination, kind, h, r, q, e).claims,
           pool'.liability = pool.liability + Denomination,
           pool' \in Storage,
           \/ q = NoHash /\ pool'.refundToClaim = pool.refundToClaim
           \/ /\ q # NoHash
              /\ pool.refundToClaim[q] = NoHash
              /\ pool'.refundToClaim = [pool.refundToClaim EXCEPT ![q] = h],
           balance' \in Nat,
           balance' >= pool.liability + Denomination,
           now' = now
    PROVE  IndInv'
  <1> USE EscrowPoolAssumption
  <1>0. /\ pool \in Storage
        /\ h \in DOMAIN pool.claims
        /\ claims[h] = NoClaim
        /\ claims[h].status = "NONE"
    BY DEF IndInv, TypeOK, Storage, RecordsWellFormed, NewClaim, claims
  <1>1. pool'.claims = [pool.claims EXCEPT ![h] =
                          [status |-> "FUNDED", kind |-> kind, recipient |-> r,
                           refundHash |-> q, expiresAt |-> e]]
    BY <1>0 DEF Funded, Storage
  <1>2. TypeOK'
    BY DEF IndInv, TypeOK
  <1>3. RecordsWellFormed'
    BY <1>0, <1>1 DEF IndInv, RecordsWellFormed, claims, Storage
  <1>4. RefundIndexMatches'
    <2>1. ASSUME q = NoHash
          PROVE  RefundIndexMatches'
      BY <1>0, <1>1, <2>1 DEF IndInv, RefundIndexMatches, claims, Storage, NoClaim
    <2>2. ASSUME q # NoHash
          PROVE  RefundIndexMatches'
      <3>1. q \in RefundHashes
        BY <2>2 DEF AnyRefundHash
      <3>2. \A g \in ClaimHashes : claims[g].refundHash # q
        BY <2>2, <3>1 DEF IndInv, RefundIndexMatches
      <3> SUFFICES ASSUME NEW p \in RefundHashes, NEW g \in ClaimHashes
                   PROVE  pool'.refundToClaim[p] = g <=> pool'.claims[g].refundHash = p
        BY DEF RefundIndexMatches, claims
      <3>3. pool.refundToClaim[p] = g <=> pool.claims[g].refundHash = p
        BY DEF IndInv, RefundIndexMatches, claims
      <3>4. CASE g = h
        BY <1>0, <1>1, <2>2, <3>1, <3>3, <3>4 DEF Storage, NoClaim, claims
      <3>5. CASE g # h
        BY <1>0, <1>1, <2>2, <3>1, <3>2, <3>3, <3>5 DEF Storage, claims
      <3>6. QED
        BY <3>4, <3>5
    <2>3. QED
      BY <2>1, <2>2
  <1>5. Solvent'
    <2>1. Cardinality(LiveOf(pool')) = Cardinality(LiveOf(pool)) + 1
      BY <1>0, <1>1, LiveGrows DEF Storage, claims
    <2>2. pool.liability = Denomination * Cardinality(LiveOf(pool))
      BY DEF IndInv, Solvent, Live, LiveOf, claims
    <2>3. Denomination * Cardinality(LiveOf(pool')) =
            Denomination * Cardinality(LiveOf(pool)) + Denomination
      BY <2>1, LiveFinite, OneMore
    <2>4. pool'.liability = Denomination * Cardinality(LiveOf(pool'))
      BY <2>2, <2>3
    <2>5. QED
      BY <2>4 DEF Solvent, Live, LiveOf, claims
  <1>6. QED
    BY <1>2, <1>3, <1>4, <1>5 DEF IndInv

\* Closing a live claim and sending its tokens away keeps IndInv.
LEMMA PayOutKeepsInv ==
    ASSUME IndInv,
           NEW h \in ClaimHashes, NEW status \in {"CLAIMED", "REFUNDED"},
           claims[h].status = "FUNDED",
           PayOut(h, status)
    PROVE  IndInv'
  <1> USE EscrowPoolAssumption
  <1>0. /\ pool \in Storage
        /\ balance \in Nat /\ now \in Nat
        /\ pool.claims[h].status = "FUNDED"
    BY DEF IndInv, TypeOK, claims
  <1>1. /\ pool'.claims = [pool.claims EXCEPT ![h].status = status]
        /\ pool'.refundToClaim = pool.refundToClaim
        /\ pool'.liability = pool.liability - Denomination
        /\ balance' = balance - Denomination
        /\ balance >= Denomination
        /\ now' = now
    BY <1>0 DEF PayOut, Closed, Storage
  <1>2. /\ pool'.claims[h] = [pool.claims[h] EXCEPT !.status = status]
        /\ \A g \in ClaimHashes \ {h} : pool'.claims[g] = pool.claims[g]
        /\ pool'.claims \in [ClaimHashes -> ClaimRecord]
    BY <1>0, <1>1 DEF Storage, ClaimRecord, Statuses
  <1>3. pool.liability = Denomination * Cardinality(LiveOf(pool))
    BY DEF IndInv, Solvent, Live, LiveOf, claims
  <1>4. /\ Cardinality(LiveOf(pool')) \in Nat
        /\ Cardinality(LiveOf(pool)) = Cardinality(LiveOf(pool')) + 1
    <2>1. /\ pool'.claims[h].status # "FUNDED"
          /\ \A g \in ClaimHashes \ {h} : pool'.claims[g] = pool.claims[g]
      BY <1>0, <1>2 DEF Storage, ClaimRecord
    <2>2. Cardinality(LiveOf(pool')) = Cardinality(LiveOf(pool)) - 1
      BY <1>0, <2>1, LiveShrinks
    <2>3. QED
      BY <2>2, LiveFinite
  <1>5. /\ pool'.liability = Denomination * Cardinality(LiveOf(pool'))
        /\ pool'.liability \in Nat
    <2>1. /\ Denomination * Cardinality(LiveOf(pool)) =
               Denomination * Cardinality(LiveOf(pool')) + Denomination
          /\ Denomination * Cardinality(LiveOf(pool')) \in Nat
      BY <1>4, OneMore
    <2>2. QED
      BY <1>1, <1>3, <2>1
  <1>6. TypeOK'
    <2>1. pool' = [claims |-> pool'.claims, refundToClaim |-> pool'.refundToClaim,
                   liability |-> pool'.liability]
      BY <1>0 DEF PayOut, Closed, Storage
    <2>2. pool.refundToClaim \in [RefundHashes -> ClaimHashes \cup {NoHash}]
      BY <1>0 DEF Storage
    <2>3. pool' \in Storage
      BY <1>1, <1>2, <1>5, <2>1, <2>2 DEF Storage
    <2>4. QED
      BY <1>0, <1>1, <2>3 DEF TypeOK
  <1>7. RecordsWellFormed'
    BY <1>0, <1>2 DEF IndInv, RecordsWellFormed, claims, Storage, ClaimRecord
  <1>8. RefundIndexMatches'
    BY <1>0, <1>1, <1>2 DEF IndInv, RefundIndexMatches, claims, Storage, ClaimRecord
  <1>9. Solvent'
    BY <1>0, <1>1, <1>5 DEF IndInv, Solvent, Live, LiveOf, claims, Storage
  <1>10. QED
    BY <1>6, <1>7, <1>8, <1>9 DEF IndInv

-----------------------------------------------------------------------------
(* Every step keeps the invariant: one step per action. *)

\* The conditions under which a deposit or the router's funding is accepted
\* give FundingKeepsInv its hypotheses.
LEMMA TransferKeepsInv ==
    ASSUME IndInv, NEW kind \in {"PUBLIC_DIRECT", "CCTP"},
           NEW h \in AnyHash, NEW r \in AnyRecipient, NEW e \in Expiries,
           FundWithTransfer(kind, h, r, e)
    PROVE  IndInv'
  <1> USE EscrowPoolAssumption
  <1>1. /\ h \in ClaimHashes
        /\ NewClaim(pool, h)
        /\ pool \in Storage /\ balance \in Nat /\ now \in Nat
    BY DEF FundWithTransfer, CanFund, AnyHash, IndInv, TypeOK
  <1>2. /\ kind \in FundingKinds
        /\ kind # "PRIVATE"
        /\ NoHash \in AnyRefundHash
    BY DEF FundingKinds, AnyRefundHash
  <1>3. pool' = Funded(pool, Denomination, kind, h, r, NoHash, e)
    BY DEF FundWithTransfer
  <1>4. /\ pool' \in Storage
        /\ pool'.liability = pool.liability + Denomination
        /\ pool'.refundToClaim = pool.refundToClaim
    BY <1>1, <1>2, <1>3, FundedResult
  <1>5. /\ balance' \in Nat
        /\ balance' >= pool.liability + Denomination
        /\ now' = now
    BY <1>1 DEF FundWithTransfer, Collateralized
  <1>6. QED
    BY <1>1, <1>2, <1>3, <1>4, <1>5, FundingKeepsInv

\* No transaction, from whatever caller, and no tick of the clock breaks it.
THEOREM NextKeepsInv == IndInv /\ [Next]_vars => IndInv'
  <1> SUFFICES ASSUME IndInv, [Next]_vars
               PROVE  IndInv'
    OBVIOUS
  <1> USE EscrowPoolAssumption
  <1>0. pool \in Storage /\ balance \in Nat /\ now \in Nat
    BY DEF IndInv, TypeOK
  <1>1. ASSUME NEW h \in AnyHash, NEW r \in AnyRecipient, NEW e \in Expiries,
               DepositPublic(h, r, e)
        PROVE  IndInv'
    BY <1>1, TransferKeepsInv DEF DepositPublic
  <1>2. ASSUME NEW h \in AnyHash, NEW r \in AnyRecipient, NEW e \in Expiries,
               FundFromRouter(h, r, e)
        PROVE  IndInv'
    BY <1>2, TransferKeepsInv DEF FundFromRouter
  <1>3. ASSUME NEW h \in AnyHash, NEW r \in AnyRecipient, NEW e \in Expiries,
               NEW q \in AnyRefundHash, NEW moved \in Transfers, NEW provided \in Transfers,
               PrivateFund(h, r, q, e, moved, provided)
        PROVE  IndInv'
    <2>1. /\ h \in ClaimHashes /\ q \in RefundHashes /\ q # NoHash
          /\ NewClaim(pool, h)
          /\ pool.refundToClaim[q] = NoHash
      BY <1>3 DEF PrivateFund, CanFundPrivate, AnyHash, AnyRefundHash
    <2> DEFINE s == Funded(pool, Denomination, "PRIVATE", h, r, q, e)
    <2>2. /\ s \in Storage
          /\ s.liability = pool.liability + Denomination
          /\ s.refundToClaim = pool.refundToClaim
      BY <1>0, <2>1, FundedResult DEF FundingKinds
    <2>3. pool' = [s EXCEPT !.refundToClaim[q] = h]
      BY <1>3 DEF PrivateFund, FundedPrivate
    <2> HIDE DEF s
    <2>4. /\ pool' \in Storage
          /\ pool'.liability = pool.liability + Denomination
          /\ pool'.refundToClaim = [pool.refundToClaim EXCEPT ![q] = h]
          /\ pool'.claims = s.claims
      BY <2>1, <2>2, <2>3 DEF Storage
    <2>5. /\ balance' \in Nat
          /\ balance' >= pool.liability + Denomination
          /\ now' = now
      <3>1. /\ balance + moved >= pool.liability + Denomination
            /\ balance' = balance + moved /\ now' = now
        BY <1>3 DEF PrivateFund, CanFundPrivate, Collateralized
      <3>2. moved \in Nat
        BY <1>3
      <3>3. QED
        BY <1>0, <3>1, <3>2
    <2>6. pool'.claims = Funded(pool, Denomination, "PRIVATE", h, r, q, e).claims
      BY <2>4 DEF s
    <2>7. "PRIVATE" \in FundingKinds /\ q \in AnyRefundHash
      BY DEF FundingKinds
    <2>8. QED
      BY <2>1, <2>4, <2>5, <2>6, <2>7, FundingKeepsInv
  <1>4. ASSUME NEW h \in ClaimHashes, Claim(h)
        PROVE  IndInv'
    BY <1>4, PayOutKeepsInv DEF Claim, CanClaim, claims
  <1>5. ASSUME NEW h \in ClaimHashes, RefundPublic(h)
        PROVE  IndInv'
    BY <1>5, PayOutKeepsInv DEF RefundPublic, CanRefundPublic, claims
  <1>6. ASSUME NEW q \in RefundHashes, PrivateRefund(q)
        PROVE  IndInv'
    <2>1. /\ pool.refundToClaim[q] \in ClaimHashes
          /\ claims[pool.refundToClaim[q]].status = "FUNDED"
      BY <1>0, <1>6 DEF PrivateRefund, CanRefundPrivate, Storage, claims
    <2>2. QED
      BY <1>6, <2>1, PayOutKeepsInv DEF PrivateRefund
  <1>7. ASSUME NEW amount \in Transfers, Donate(amount)
        PROVE  IndInv'
    <2>1. /\ pool' = pool /\ now' = now
          /\ balance' \in Nat /\ balance' >= balance
      BY <1>0, <1>7 DEF Donate
    <2>2. QED
      BY <1>0, <2>1 DEF IndInv, TypeOK, RecordsWellFormed, RefundIndexMatches,
                        Solvent, Live, claims, Storage
  <1>8. CASE Tick
    BY <1>0, <1>8 DEF Tick, IndInv, TypeOK, RecordsWellFormed, RefundIndexMatches,
                      Solvent, Live, claims
  <1>9. CASE UNCHANGED vars
    BY <1>9 DEF vars, IndInv, TypeOK, RecordsWellFormed, RefundIndexMatches,
                Solvent, Live, claims
  <1>10. QED
    BY <1>1, <1>2, <1>3, <1>4, <1>5, <1>6, <1>7, <1>8, <1>9 DEF Next

-----------------------------------------------------------------------------
(* The theorems. *)

\* IndInv holds in every reachable state, for every value of the constants.
THEOREM InvariantHolds == Spec => []IndInv
  BY InitInv, NextKeepsInv, PTL DEF Spec

\* The storage stays well typed: in particular the stored liability and the
\* balance never go below zero, which the code keeps in an unsigned u256.
THEOREM TypeCorrect == Spec => []TypeOK
  BY InvariantHolds, PTL DEF IndInv

\* No sequence of deposits, router fundings, private fundings (backed or
\* not), payouts and donations makes the pool owe more than it holds, and
\* outstanding_liability is exactly the worth of the live claims.
THEOREM Solvency == Spec => []Solvent
  BY InvariantHolds, PTL DEF IndInv

\* The refund index and the records always name each other.
THEOREM RefundIndexCorrect == Spec => []RefundIndexMatches
  BY InvariantHolds, PTL DEF IndInv

\* A live claim is worth at least one denomination of the liability.
LEMMA LiveClaimIsCovered ==
    ASSUME IndInv, NEW h \in Live
    PROVE  pool.liability >= Denomination
  <1>1. /\ Live = LiveOf(pool)
        /\ h \in LiveOf(pool)
    BY DEF Live, LiveOf, claims
  <1>2. Cardinality(LiveOf(pool)) \in Nat \ {0}
    BY <1>1, LiveFinite, FS_EmptySet
  <1>3. PICK n \in Nat : Cardinality(LiveOf(pool)) = n + 1
    <2>1. Cardinality(LiveOf(pool)) - 1 \in Nat
      BY <1>2
    <2>2. Cardinality(LiveOf(pool)) = (Cardinality(LiveOf(pool)) - 1) + 1
      BY <1>2
    <2>3. QED
      BY <2>1, <2>2
  <1>4. pool.liability = Denomination * (n + 1)
    BY <1>1, <1>3 DEF IndInv, Solvent
  <1>5. /\ Denomination * n \in Nat
        /\ Denomination * (n + 1) = Denomination * n + Denomination
        /\ Denomination \in Nat
    BY OneMore, EscrowPoolAssumption
  <1>6. QED
    BY <1>4, <1>5

\* A funded claim is never locked and never open to both sides.
THEOREM OneExitAlways == Spec => []ExactlyOneExit
  <1>1. IndInv => ExactlyOneExit
    <2> SUFFICES ASSUME IndInv, NEW h \in Live
                 PROVE  /\ balance >= Denomination
                        /\ CanClaim(pool, Denomination, h, now) # HasRefund(h)
      BY DEF ExactlyOneExit
    <2> USE EscrowPoolAssumption
    <2>1. /\ pool \in Storage /\ balance \in Nat /\ now \in Nat
          /\ h \in ClaimHashes
          /\ pool.claims[h].status = "FUNDED"
      BY DEF IndInv, TypeOK, Live, claims
    <2>2. pool.liability >= Denomination /\ balance >= pool.liability
      BY LiveClaimIsCovered DEF IndInv, Solvent
    <2>3. Releasable(pool, Denomination)
      BY <2>2 DEF Releasable
    <2>4. pool.claims[h].expiresAt \in Nat
      BY <2>1 DEF Storage, ClaimRecord
    <2>5. CanClaim(pool, Denomination, h, now) <=> pool.claims[h].expiresAt > now
      BY <2>1, <2>3 DEF CanClaim
    <2>6. HasRefund(h) <=> pool.claims[h].expiresAt <= now
      <3>1. CASE pool.claims[h].kind # "PRIVATE"
        <4>1. CanRefundPublic(pool, Denomination, h, now)
                <=> pool.claims[h].expiresAt <= now
          BY <2>1, <2>3, <3>1 DEF CanRefundPublic
        <4>2. \A q \in RefundHashes :
                 ~(pool.refundToClaim[q] = h /\ CanRefundPrivate(pool, Denomination, q, now))
          BY <3>1 DEF CanRefundPrivate
        <4>3. QED
          BY <4>1, <4>2 DEF HasRefund
      <3>2. CASE pool.claims[h].kind = "PRIVATE"
        <4>1. ~CanRefundPublic(pool, Denomination, h, now)
          BY <3>2 DEF CanRefundPublic
        <4>2. PICK q \in RefundHashes : pool.claims[h].refundHash = q
          BY <2>1, <3>2 DEF IndInv, RecordsWellFormed, claims, Storage, ClaimRecord
        <4>3. pool.refundToClaim[q] = h
          BY <2>1, <4>2 DEF IndInv, RefundIndexMatches, claims
        <4>4. CanRefundPrivate(pool, Denomination, q, now)
                <=> pool.claims[h].expiresAt <= now
          BY <2>1, <2>3, <3>2, <4>2, <4>3 DEF CanRefundPrivate
        <4>5. \A p \in RefundHashes : pool.refundToClaim[p] = h => p = q
          BY <2>1, <4>2 DEF IndInv, RefundIndexMatches, claims
        <4>6. QED
          BY <4>1, <4>3, <4>4, <4>5 DEF HasRefund
      <3>3. QED
        BY <3>1, <3>2
    <2>7. CanClaim(pool, Denomination, h, now) \in BOOLEAN /\ HasRefund(h) \in BOOLEAN
      BY DEF CanClaim, HasRefund
    <2>8. (pool.claims[h].expiresAt > now) <=> ~(pool.claims[h].expiresAt <= now)
      BY <2>1, <2>4
    <2>9. balance >= Denomination
      BY <2>1, <2>2 DEF Storage
    <2>10. QED
      BY <2>5, <2>6, <2>7, <2>8, <2>9, Zenon
  <1>2. QED
    BY <1>1, InvariantHolds, PTL

-----------------------------------------------------------------------------
(* The action property: the terms of a claim, and the one-way life cycle. *)

\* No call rewrites what a claim was funded with or revives one that was paid
\* out: none of the four writes to claims loses a field.
THEOREM TermsFinal == Spec => TermsAreFinal
  <1>1. ASSUME IndInv, [Next]_vars, NEW h \in ClaimHashes, claims[h].status # "NONE"
        PROVE  KeepsTerms(h)
    <2> USE EscrowPoolAssumption DEF claims
    <2>0. pool \in Storage /\ claims[h] \in ClaimRecord
      BY <1>1 DEF IndInv, TypeOK, Storage
    <2>1. CASE claims'[h] = claims[h]
      BY <1>1, <2>0, <2>1 DEF ClaimRecord, KeepsTerms
    <2>2. ASSUME NEW g \in AnyHash, NEW r \in AnyRecipient, NEW e \in Expiries,
                 NEW kind, FundWithTransfer(kind, g, r, e)
          PROVE  claims'[h] = claims[h]
      BY <1>1, <2>0, <2>2
         DEF FundWithTransfer, CanFund, NewClaim, Funded, Storage, AnyHash
    <2>3. ASSUME NEW g \in AnyHash, NEW r \in AnyRecipient, NEW e \in Expiries,
                 NEW q \in AnyRefundHash, NEW moved \in Transfers, NEW provided \in Transfers,
                 PrivateFund(g, r, q, e, moved, provided)
          PROVE  claims'[h] = claims[h]
      <3>1. /\ g # h
            /\ pool'.claims = Funded(pool, Denomination, "PRIVATE", g, r, q, e).claims
        BY <1>1, <2>3 DEF PrivateFund, CanFundPrivate, NewClaim, FundedPrivate, Funded
      <3>2. QED
        BY <2>0, <3>1 DEF Funded, Storage
    <2>4. ASSUME NEW g \in ClaimHashes, claims[g].status = "FUNDED",
                 NEW status \in {"CLAIMED", "REFUNDED"}, PayOut(g, status)
          PROVE  KeepsTerms(h)
      <3>1. CASE g = h
        <4>1. claims'[h] = [claims[h] EXCEPT !.status = status]
          BY <2>0, <2>4, <3>1 DEF PayOut, Closed, Storage
        <4>2. claims'[h].status = status
          BY <2>0, <4>1 DEF ClaimRecord
        <4>3. QED
          BY <2>4, <3>1, <4>1, <4>2 DEF KeepsTerms
      <3>2. CASE g # h
        BY <1>1, <2>0, <2>1, <2>4, <3>2 DEF PayOut, Closed, Storage
      <3>3. QED
        BY <3>1, <3>2
    <2>5. ASSUME NEW q \in RefundHashes, PrivateRefund(q)
          PROVE  /\ pool.refundToClaim[q] \in ClaimHashes
                 /\ claims[pool.refundToClaim[q]].status = "FUNDED"
      BY <2>0, <2>5 DEF PrivateRefund, CanRefundPrivate, Storage
    <2>6. CASE \E amount \in Transfers : Donate(amount)
      BY <2>1, <2>6 DEF Donate
    <2>7. CASE Tick
      BY <2>1, <2>7 DEF Tick
    <2>8. CASE UNCHANGED vars
      BY <2>1, <2>8 DEF vars
    <2>9. CASE \E g \in ClaimHashes : Claim(g) \/ RefundPublic(g)
      BY <2>4, <2>9 DEF Claim, CanClaim, RefundPublic, CanRefundPublic
    <2>10. CASE \E q \in RefundHashes : PrivateRefund(q)
      BY <2>4, <2>5, <2>10 DEF PrivateRefund
    <2>11. QED
      BY <1>1, <2>1, <2>2, <2>3, <2>6, <2>7, <2>8, <2>9, <2>10
         DEF Next, DepositPublic, FundFromRouter
  <1>2. IndInv /\ [Next]_vars => \A h \in ClaimHashes : KeepsTerms(h)
    BY <1>1 DEF KeepsTerms
  <1>3. QED
    BY <1>2, InvariantHolds, PTL DEF Spec, TermsAreFinal

-----------------------------------------------------------------------------
(* The refinement: every step of the pool is a step of ClaimLedger, or     *)
(* leaves the ledger and the vault as they are.                            *)

Book == [h \in ClaimHashes |-> StageOf(claims[h].status)]

\* StageOf, one status at a time.
LEMMA Stages ==
    /\ StageOf("NONE") = "none"
    /\ StageOf("FUNDED") = "funded"
    /\ StageOf("CLAIMED") = "claimed"
    /\ StageOf("REFUNDED") = "refunded"
    /\ \A status \in Statuses : StageOf(status) = "funded" <=> status = "FUNDED"
  <1>1. /\ StageOf("NONE") = "none"
        /\ StageOf("FUNDED") = "funded"
        /\ StageOf("CLAIMED") = "claimed"
        /\ StageOf("REFUNDED") = "refunded"
    BY DEF StageOf
  <1>2. QED
    BY <1>1 DEF Statuses

\* A step that changes the status of one claim changes one entry of the book.
LEMMA BookStep ==
    ASSUME pool \in Storage, NEW h \in ClaimHashes, NEW status,
           pool'.claims[h].status = status,
           \A g \in ClaimHashes \ {h} : pool'.claims[g] = pool.claims[g]
    PROVE  Book' = [Book EXCEPT ![h] = StageOf(status)]
  <1>1. \A g \in ClaimHashes : Book'[g] = IF g = h THEN StageOf(status) ELSE Book[g]
    BY DEF Book, claims
  <1>2. Book' = [g \in ClaimHashes |-> Book'[g]]
    BY DEF Book
  <1>3. [Book EXCEPT ![h] = StageOf(status)]
          = [g \in ClaimHashes |-> IF g = h THEN StageOf(status) ELSE Book[g]]
    BY DEF Book
  <1>4. QED
    BY <1>1, <1>2, <1>3

\* What the abstract ledger owes is the liability the contract stores.
LEMMA OwedIsLiability == IndInv => Ledger!Owed(Book) = pool.liability
  <1> SUFFICES ASSUME IndInv PROVE Ledger!Owed(Book) = pool.liability
    OBVIOUS
  <1>0. \A h \in ClaimHashes : claims[h].status \in Statuses
    BY DEF IndInv, TypeOK, Storage, ClaimRecord, claims
  <1>1. \A h \in ClaimHashes : Book[h] = "funded" <=> claims[h].status = "FUNDED"
    BY <1>0, Stages DEF Book
  <1>2. Ledger!Live(Book) = Live
    BY <1>1 DEF Ledger!Live, Live
  <1>3. Ledger!Cardinality(Live) = Cardinality(Live)
    BY DEF Ledger!Cardinality, Cardinality
  <1>4. QED
    BY <1>2, <1>3 DEF Ledger!Owed, IndInv, Solvent

\* What EscrowPool does to its records and tokens is what ClaimLedger allows:
\* one funding, one exit of exactly the claim's own tokens, always covered.
THEOREM Refinement == Spec => ImplementsLedger
  <1>1. Init => Ledger!Init
    <2> SUFFICES ASSUME Init PROVE Ledger!Init
      OBVIOUS
    <2>1. \A h \in ClaimHashes : claims[h].status = "NONE"
      BY DEF Init, EmptyStorage, NoClaim, claims
    <2>2. QED
      BY <2>1, Stages DEF Init, Ledger!Init
  <1>0. IndInv' => (Ledger!Owed(Book) = pool.liability)'
    BY OwedIsLiability, PTL
  <1>2. IndInv /\ IndInv' /\ [Next]_vars => [Ledger!Next]_(Ledger!vars)
    <2> SUFFICES ASSUME IndInv, IndInv', [Next]_vars
                 PROVE  Ledger!Next \/ (Book' = Book /\ balance' = balance)
      BY DEF Ledger!vars, Book
    <2> USE EscrowPoolAssumption
    <2>0. /\ pool \in Storage /\ pool' \in Storage
          /\ balance \in Nat /\ balance' \in Nat
          /\ Ledger!Owed(Book)' <= balance'
      BY <1>0 DEF IndInv, TypeOK, Solvent
    <2>1. ASSUME NEW h \in ClaimHashes, NEW r, NEW q, NEW e, NEW kind,
                 NewClaim(pool, h), balance' >= balance,
                 pool'.claims = Funded(pool, Denomination, kind, h, r, q, e).claims
          PROVE  Ledger!Fund(h)
      <3>1. /\ pool'.claims[h].status = "FUNDED"
            /\ \A g \in ClaimHashes \ {h} : pool'.claims[g] = pool.claims[g]
        BY <2>0, <2>1 DEF Funded, Storage
      <3>2. Book[h] = "none" /\ Book' = [Book EXCEPT ![h] = "funded"]
        BY <2>0, <2>1, <3>1, BookStep, Stages DEF Book, NewClaim, claims
      <3>3. QED
        BY <2>0, <2>1, <3>2 DEF Ledger!Fund, Book
    <2>2. ASSUME NEW h \in ClaimHashes, NEW status \in {"CLAIMED", "REFUNDED"},
                 claims[h].status = "FUNDED", PayOut(h, status)
          PROVE  Ledger!Next
      <3>1. /\ pool'.claims[h].status = status
            /\ \A g \in ClaimHashes \ {h} : pool'.claims[g] = pool.claims[g]
        BY <2>0, <2>2 DEF PayOut, Closed, Storage, ClaimRecord
      <3>2. /\ Book[h] = "funded"
            /\ Book' = [Book EXCEPT ![h] = StageOf(status)]
            /\ balance' = balance - Denomination
        BY <2>0, <2>2, <3>1, BookStep, Stages DEF Book, PayOut
      <3>3. Ledger!Settle(h, StageOf(status))
        BY <3>2 DEF Ledger!Settle, Book
      <3>4. StageOf(status) \in {"claimed", "refunded"}
        BY <2>2, Stages
      <3>5. QED
        BY <3>3, <3>4 DEF Ledger!Next
    <2>3. ASSUME NEW h \in AnyHash, NEW r \in AnyRecipient, NEW e \in Expiries,
                 NEW kind, FundWithTransfer(kind, h, r, e)
          PROVE  Ledger!Next
      BY <2>0, <2>1, <2>3
         DEF FundWithTransfer, CanFund, AnyHash, Ledger!Next
    <2>4. ASSUME NEW h \in AnyHash, NEW r \in AnyRecipient, NEW e \in Expiries,
                 NEW q \in AnyRefundHash, NEW moved \in Transfers, NEW provided \in Transfers,
                 PrivateFund(h, r, q, e, moved, provided)
          PROVE  Ledger!Next
      <3>1. /\ h \in ClaimHashes /\ NewClaim(pool, h) /\ balance' >= balance
            /\ pool'.claims = Funded(pool, Denomination, "PRIVATE", h, r, q, e).claims
        BY <2>0, <2>4 DEF PrivateFund, CanFundPrivate, AnyHash, FundedPrivate, Funded
      <3>2. QED
        BY <2>1, <3>1 DEF Ledger!Next
    <2>5. CASE \E h \in ClaimHashes : Claim(h) \/ RefundPublic(h)
      BY <2>2, <2>5 DEF Claim, CanClaim, RefundPublic, CanRefundPublic, claims
    <2>6. CASE \E q \in RefundHashes : PrivateRefund(q)
      BY <2>0, <2>2, <2>6 DEF PrivateRefund, CanRefundPrivate, Storage, claims
    <2>7. CASE \E amount \in Transfers : Donate(amount)
      <3>1. Ledger!Gift
        BY <2>0, <2>7 DEF Donate, Ledger!Gift, claims
      <3>2. QED
        BY <3>1 DEF Ledger!Next
    <2>8. CASE Tick \/ UNCHANGED vars
      BY <2>8 DEF Tick, vars, Book, claims
    <2>9. QED
      BY <2>3, <2>4, <2>5, <2>6, <2>7, <2>8 DEF Next, DepositPublic, FundFromRouter
  <1>3. QED
    BY <1>1, <1>2, InvariantHolds, PTL DEF Spec, ImplementsLedger, Ledger!Spec

\* The promise of the abstract ledger, kept by the contract: the vault holds
\* what the live claims are worth.
THEOREM VaultBacked == Spec => []Ledger!Backed
  <1>1. IndInv => Ledger!Backed
    BY OwedIsLiability DEF Ledger!Backed, IndInv, Solvent, Book
  <1>2. QED
    BY <1>1, InvariantHolds, PTL

-----------------------------------------------------------------------------
(* The scripts of the deployment.  A slot is what a transaction is recorded *)
(* under: the declaration of a class or the deployment of a part.  The      *)
(* inductive invariant says of the manifest and of its copy in memory that  *)
(* an entry names a transaction of its slot, that an empty slot has only    *)
(* lost transactions, or the one just sent, and that what is verified is    *)
(* live.                                                                    *)

Tx == [kind : {"declare", "deploy"}, what : D!Classes \cup D!Parts, build : Nat, router : Nat,
       status : {"sent", "reverted", "l2", "l1"}, lost : BOOLEAN]
Run == [script : {"none", "declare", "deploy", "verify", "vesu"},
        at : {"idle", "reconcile", "reconcileDeploy", "check", "next", "record", "wait", "write"},
        kind : {"none", "declare", "deploy"}, what : {"none"} \cup D!Classes \cup D!Parts]

Slot(kind, what) == \/ kind = "declare" /\ what \in D!Classes
                    \/ kind = "deploy" /\ what \in D!Parts
Of(tx, kind, what) == tx.kind = kind /\ tx.what = what
Entry(m, kind, what) == D!RecordOf(m, kind, what)
TaskOf(t, i) == i # 0 /\ t[i].status \in {"l2", "l1"}

Points(m, t) == \A kind, what : Slot(kind, what) /\ Entry(m, kind, what).tx # 0 =>
    /\ Entry(m, kind, what).tx \in DOMAIN t
    /\ Of(t[Entry(m, kind, what).tx], kind, what)

\* The Vesu script believes what it has recorded with a block.
Seen(m, t) == LET entry == m.declare["anonymizer"]
              IN  entry.block => TaskOf(t, entry.tx)

At(m, part, t) == /\ m.deploy[part].block /\ TaskOf(t, m.deploy[part].tx)
                  /\ t[m.deploy[part].tx].build = m.class[D!ClassOf(part)]
Vouched(m, t) == m.verified =>
    /\ At(m, "router", t)
    /\ \A p \in Pools : m.status[p] = "verified" =>
           At(m, p, t) /\ t[m.deploy[p].tx].router = m.deploy["router"].tx

Good(m, t) == m \in D!Manifest /\ Points(m, t) /\ Seen(m, t) /\ Vouched(m, t)

\* declare.ts drops the anonymizer's slots with the Vesu row, and only the
\* script that needs the row sends for them.
Free(m, t, r) == \A kind, what :
    Slot(kind, what) /\ (what = "anonymizer" => m.earn) /\ Entry(m, kind, what).tx = 0 =>
        \A i \in DOMAIN t : Of(t[i], kind, what) =>
            \/ t[i].lost
            \/ r.at = "record" /\ i = Len(t) /\ r.kind = kind /\ r.what = what

InFlight(m, t, r) ==
    /\ r.at \in {"record", "wait"} =>
          Slot(r.kind, r.what) /\ (r.what = "anonymizer" <=> r.script = "vesu")
    /\ r.at = "record" => /\ Len(t) # 0 /\ Of(t[Len(t)], r.kind, r.what)
                          /\ Entry(m, r.kind, r.what).tx = 0
    /\ r.at = "wait" => Entry(m, r.kind, r.what).tx # 0
    /\ r.at \notin {"record", "wait"} => r.kind = "none"

\* The Vesu script keeps the row, and has waited for the declaration.
Vesu(onDisk, m, r) ==
    /\ r.script = "vesu" => m.earn /\ onDisk.earn
    /\ r.script = "vesu" /\ r.at # "reconcile" /\ m.declare["anonymizer"].tx # 0 =>
          m.declare["anonymizer"].block \/ r.kind = "declare"

Txs(t) == t \in Seq(Tx) /\ \A i \in DOMAIN t : Of(t[i], "declare", "anonymizer") => t[i].build = 1

PaidOnce(t) == \A i, j \in DOMAIN t :
    i < j /\ t[i].kind = t[j].kind /\ t[i].what = t[j].what => t[i].lost

DeploymentInv ==
    /\ Txs(txs) /\ run \in Run /\ built \in Nat
    /\ Good(manifest, txs) /\ Good(mem, txs)
    /\ Free(manifest, txs, run) /\ Free(mem, txs, run)
    /\ InFlight(mem, txs, run) /\ Vesu(manifest, mem, run)
    /\ PaidOnce(txs)

LEMMA DeploymentSuffices == DeploymentInv => NothingPaidTwice /\ VerifiedIsLive
  <1> SUFFICES ASSUME DeploymentInv PROVE NothingPaidTwice /\ VerifiedIsLive
    OBVIOUS
  <1>1. NothingPaidTwice
    BY DEF DeploymentInv, PaidOnce, NothingPaidTwice, D!NothingPaidTwice
  <1>2. VerifiedIsLive
    BY DEF DeploymentInv, Good, Vouched, At, TaskOf, VerifiedIsLive, D!VerifiedIsLive,
       D!ClassAtOk, D!ReceiptOk, D!Accepted
  <1>3. QED
    BY <1>1, <1>2

LEMMA NamesAreNotPools == "router" \notin Pools /\ "anonymizer" \notin Pools
  BY DeploymentAssumption DEF DeploymentAssumption, D!DeploymentAssumption

\* What there is to know of a manifest.
LEMMA ManifestAt ==
    ASSUME NEW m \in D!Manifest
    PROVE  /\ \A kind, what : Slot(kind, what) =>
                 /\ Entry(m, kind, what) \in D!Record
                 /\ Entry(m, kind, what).tx \in Nat /\ Entry(m, kind, what).block \in BOOLEAN
           /\ Slot("declare", "anonymizer") /\ Slot("deploy", "anonymizer")
           /\ Entry(m, "declare", "anonymizer") = m.declare["anonymizer"]
           /\ \A part \in D!Parts : Slot("deploy", part) /\ Entry(m, "deploy", part) = m.deploy[part]
           /\ "router" \in D!Parts /\ Pools \subseteq D!Parts
           /\ \A c \in D!Classes : m.class[c] \in Nat
  <1>1. /\ m.declare \in [D!Classes -> D!Record] /\ m.deploy \in [D!Parts -> D!Record]
        /\ m.class \in [D!Classes -> Nat]
    BY DEF D!Manifest
  <1>2. "anonymizer" \in D!Classes /\ "anonymizer" \in D!Parts
    BY DEF D!Classes, D!Parts
  <1>3. ASSUME NEW kind, NEW what, Slot(kind, what) PROVE Entry(m, kind, what) \in D!Record
    BY <1>1, <1>3 DEF Slot, Entry, D!RecordOf
  <1>4. \A r \in D!Record : r.tx \in Nat /\ r.block \in BOOLEAN
    BY DEF D!Record
  <1>5. Entry(m, "declare", "anonymizer") = m.declare["anonymizer"]
        /\ \A part \in D!Parts : Entry(m, "deploy", part) = m.deploy[part]
    BY DEF Entry, D!RecordOf
  <1>6. "router" \in D!Parts /\ Pools \subseteq D!Parts
    BY DEF D!Parts, D!Wotta
  <1>7. QED
    BY <1>1, <1>2, <1>3, <1>4, <1>5, <1>6 DEF Slot

\* All but the entries stay.
SameRest(m, n) == /\ n.class = m.class /\ n.status = m.status /\ n.approved = m.approved
                  /\ n.verified = m.verified /\ n.earn = m.earn

LEMMA RecordedIs ==
    ASSUME NEW m \in D!Manifest, NEW kind, NEW what, Slot(kind, what), NEW r \in D!Record,
           NEW n, n = D!Recorded(m, kind, what, r)
    PROVE  /\ n \in D!Manifest /\ SameRest(m, n) /\ Entry(n, kind, what) = r
           /\ \A k, w : Slot(k, w) /\ ~(k = kind /\ w = what) => Entry(n, k, w) = Entry(m, k, w)
  <1>1. /\ m.declare \in [D!Classes -> D!Record] /\ m.deploy \in [D!Parts -> D!Record]
    BY DEF D!Manifest
  <1>2. CASE kind = "declare"
    <2>1. n = [m EXCEPT !.declare = [m.declare EXCEPT ![what] = r]] /\ what \in D!Classes
      BY <1>2 DEF D!Recorded, Slot, D!Manifest
    <2>2. [m.declare EXCEPT ![what] = r] \in [D!Classes -> D!Record]
      BY <1>1, <2>1
    <2>3. n \in D!Manifest /\ SameRest(m, n) /\ n.declare = [m.declare EXCEPT ![what] = r]
          /\ n.deploy = m.deploy
      BY <2>1, <2>2 DEF D!Manifest, SameRest
    <2>4. QED
      BY <1>1, <1>2, <2>1, <2>3 DEF Entry, D!RecordOf, Slot
  <1>3. CASE kind = "deploy"
    <2>1. n = [m EXCEPT !.deploy = [m.deploy EXCEPT ![what] = r]] /\ what \in D!Parts
      BY <1>3 DEF D!Recorded, Slot, D!Manifest
    <2>2. [m.deploy EXCEPT ![what] = r] \in [D!Parts -> D!Record]
      BY <1>1, <2>1
    <2>3. n \in D!Manifest /\ SameRest(m, n) /\ n.deploy = [m.deploy EXCEPT ![what] = r]
          /\ n.declare = m.declare
      BY <2>1, <2>2 DEF D!Manifest, SameRest
    <2>4. QED
      BY <1>1, <1>3, <2>1, <2>3 DEF Entry, D!RecordOf, Slot
  <1>4. QED
    BY <1>2, <1>3 DEF Slot

\* Blocks are filled in, and nothing else.
Filled(m, n) == \A kind, what : Slot(kind, what) =>
    /\ Entry(n, kind, what).tx = Entry(m, kind, what).tx
    /\ Entry(m, kind, what).block => Entry(n, kind, what).block

LEMMA FilledIs ==
    ASSUME NEW m, NEW n, NEW t, NEW r, Good(m, t), n \in D!Manifest, SameRest(m, n),
           Filled(m, n), Seen(n, t)
    PROVE  Good(n, t) /\ (Free(m, t, r) => Free(n, t, r))
  <1>1. m \in D!Manifest
    BY DEF Good
  <1>2. Points(n, t)
    BY DEF Good, Points, Filled
  <1>3. Free(m, t, r) => Free(n, t, r)
    BY DEF Free, Filled, SameRest
  <1>4. \A part \in D!Parts : /\ n.deploy[part].tx = m.deploy[part].tx
                              /\ m.deploy[part].block => n.deploy[part].block
    BY <1>1, ManifestAt DEF Filled
  <1>5. Vouched(n, t)
    BY <1>1, <1>4, ManifestAt DEF Good, Vouched, At, SameRest
  <1>6. QED
    BY <1>2, <1>3, <1>5 DEF Good

\* The transactions are what they were, and accepted if they were.
Later(t, u) == /\ Txs(u)
               /\ \A i \in DOMAIN t : /\ i \in DOMAIN u /\ \A k, w : Of(u[i], k, w) <=> Of(t[i], k, w)
                                      /\ u[i].build = t[i].build /\ u[i].router = t[i].router
                                      /\ TaskOf(t, i) => TaskOf(u, i)

LEMMA LaterIsGood ==
    ASSUME NEW m, NEW t, NEW u, Txs(t), Good(m, t), Later(t, u)
    PROVE  Good(m, u)
  <1>1. m \in D!Manifest
    BY DEF Good
  <1>2. Points(m, u)
    BY DEF Good, Points, Later
  <1>3. Seen(m, u)
    <2>1. ASSUME m.declare["anonymizer"].block PROVE TaskOf(u, m.declare["anonymizer"].tx)
      <3>1. TaskOf(t, m.declare["anonymizer"].tx)
        BY <2>1 DEF Good, Seen
      <3>2. m.declare["anonymizer"].tx \in DOMAIN t
        BY <1>1, <3>1, ManifestAt DEF Good, Points, TaskOf
      <3>3. QED
        BY <3>1, <3>2 DEF Later
    <2>2. QED
      BY <2>1 DEF Seen
  <1>4. ASSUME NEW part \in D!Parts, At(m, part, t)
        PROVE  At(m, part, u) /\ u[m.deploy[part].tx].router = t[m.deploy[part].tx].router
    <2>1. m.deploy[part].tx \in DOMAIN t
      BY <1>1, <1>4, ManifestAt DEF Good, Points, At, TaskOf
    <2>2. QED
      BY <1>4, <2>1 DEF At, Later
  <1>5. Vouched(m, u)
    BY <1>1, <1>4, ManifestAt DEF Good, Vouched
  <1>6. QED
    BY <1>1, <1>2, <1>3, <1>5 DEF Good

-----------------------------------------------------------------------------
LEMMA DeploymentAt ==
    ASSUME DeploymentInv
    PROVE  /\ manifest \in D!Manifest /\ mem \in D!Manifest /\ txs \in Seq(Tx)
           /\ Len(txs) \in Nat /\ DOMAIN txs = 1..Len(txs)
           /\ \A i \in DOMAIN txs : txs[i] \in Tx
  <1>1. manifest \in D!Manifest /\ mem \in D!Manifest /\ txs \in Seq(Tx)
    BY DEF DeploymentInv, Good, Txs
  <1>2. QED
    BY <1>1

\* Nothing in flight, before or after: only the manifests matter.
LEMMA AtRest ==
    ASSUME DeploymentInv, UNCHANGED <<txs, built>>, run.at # "record", run' \in Run,
           Good(manifest, txs)', Good(mem, txs)', Free(manifest', txs, run), Free(mem', txs, run),
           run'.at \notin {"record", "wait"}, run'.kind = "none", Vesu(manifest, mem, run)'
    PROVE  DeploymentInv'
  <1>1. Free(manifest, txs, run)' /\ Free(mem, txs, run)'
    BY DEF Free
  <1>2. InFlight(mem, txs, run)'
    BY DEF InFlight
  <1>3. QED
    BY <1>1, <1>2 DEF DeploymentInv

LEMMA IdleRun == D!Idle \in Run /\ D!Idle.script = "none" /\ D!Idle.at = "idle" /\ D!Idle.kind = "none"
  BY DEF D!Idle, Run

\* A run that ends; what it had not written is forgotten.
LEMMA EndStep ==
    ASSUME DeploymentInv, D!End, UNCHANGED <<txs, built>>, run.at # "record"
    PROVE  DeploymentInv'
  <1>1. run' = D!Idle /\ mem' = manifest /\ manifest' = manifest
    BY DEF D!End
  <1>2. Good(manifest, txs)' /\ Good(mem, txs)'
    BY <1>1 DEF DeploymentInv, Good, Points, Seen, Vouched, At
  <1>3. Free(manifest', txs, run) /\ Free(mem', txs, run)
    BY <1>1 DEF DeploymentInv
  <1>4. Vesu(manifest, mem, run)'
    BY <1>1, IdleRun DEF Vesu
  <1>5. QED
    BY <1>1, <1>2, <1>3, <1>4, IdleRun, AtRest

\* A run that begins, with a manifest in memory.
LEMMA StartStep ==
    ASSUME DeploymentInv, NEW script \in {"declare", "deploy", "verify", "vesu"},
           NEW place \in {"reconcile", "write"}, NEW m, D!Start(script, place, m),
           Good(m, txs), Free(m, txs, run),
           script = "vesu" => place = "reconcile" /\ m.earn /\ manifest.earn
    PROVE  DeploymentInv'
  <1>1. /\ run = D!Idle /\ run' = D!At(script, place) /\ mem' = m
        /\ UNCHANGED <<manifest, txs, built>>
    BY DEF D!Start
  <1>2. run' \in Run /\ run'.script = script /\ run'.at = place /\ run'.kind = "none"
    BY <1>1 DEF D!At, D!Idle, Run
  <1>3. Good(manifest, txs)' /\ Good(mem, txs)'
    BY <1>1 DEF DeploymentInv, Good, Points, Seen, Vouched, At
  <1>4. Vesu(manifest, mem, run)'
    BY <1>1, <1>2 DEF Vesu
  <1>5. QED
    BY <1>1, <1>2, <1>3, <1>4, IdleRun, AtRest DEF DeploymentInv

LEMMA StartDeclareStep == ASSUME DeploymentInv, D!StartDeclare PROVE DeploymentInv'
  <1>1. PICK m : m = D!BaseManifest
    OBVIOUS
  <1> DEFINE class == [c \in D!Classes |-> IF c = "anonymizer" THEN 1 ELSE built]
             declare == [manifest.declare EXCEPT !["anonymizer"] = D!Unsent]
             deploy == [manifest.deploy EXCEPT !["anonymizer"] = D!Unsent]
  <1>2. /\ manifest \in D!Manifest /\ class \in [D!Classes -> Nat]
        /\ declare \in [D!Classes -> D!Record] /\ deploy \in [D!Parts -> D!Record]
    <2>1. manifest \in D!Manifest /\ built \in Nat
      BY DEF DeploymentInv, Good
    <2>2. D!Unsent \in D!Record
      BY DEF D!Unsent, D!Record
    <2>3. QED
      BY <2>1, <2>2 DEF D!Manifest
  <1>3. m = [manifest EXCEPT !.class = class, !.verified = FALSE, !.earn = FALSE,
                             !.declare = declare, !.deploy = deploy]
    BY <1>1, <1>2 DEF D!BaseManifest, D!Manifest
  <1> HIDE DEF class, declare, deploy
  <1>4. /\ m \in D!Manifest /\ m.verified = FALSE /\ m.earn = FALSE /\ m.declare = declare
        /\ m.deploy = deploy
    BY <1>2, <1>3 DEF D!Manifest
  <1>5. /\ \A c \in D!Classes : c # "anonymizer" => m.declare[c] = manifest.declare[c]
        /\ \A p \in D!Parts : p # "anonymizer" => m.deploy[p] = manifest.deploy[p]
        /\ m.declare["anonymizer"] = D!Unsent /\ m.deploy["anonymizer"] = D!Unsent
    <2>1. "anonymizer" \in D!Classes /\ "anonymizer" \in D!Parts
      BY DEF D!Classes, D!Parts
    <2>2. manifest.declare \in [D!Classes -> D!Record] /\ manifest.deploy \in [D!Parts -> D!Record]
      BY <1>2 DEF D!Manifest
    <2>3. QED
      BY <1>4, <2>1, <2>2 DEF declare, deploy
  <1>6. \A kind, what : Slot(kind, what) =>
            /\ what # "anonymizer" => Entry(m, kind, what) = Entry(manifest, kind, what)
            /\ what = "anonymizer" => Entry(m, kind, what).tx = 0
    BY <1>5 DEF Slot, Entry, D!RecordOf, D!Unsent
  <1>7. Points(m, txs)
    BY <1>6 DEF DeploymentInv, Good, Points
  <1>8. Seen(m, txs) /\ Vouched(m, txs)
    BY <1>4, <1>5 DEF Seen, Vouched, D!Unsent
  <1>9. Free(m, txs, run)
    BY <1>4, <1>6 DEF DeploymentInv, Free
  <1>10. D!Start("declare", "reconcile", m)
    BY <1>1 DEF D!StartDeclare
  <1>11. QED
    BY <1>4, <1>7, <1>8, <1>9, <1>10, StartStep DEF Good

LEMMA StartVerifyStep == ASSUME DeploymentInv, D!StartVerify PROVE DeploymentInv'
  <1>1. PICK m : m = D!Verified(manifest)
    OBVIOUS
  <1> DEFINE verdict == [p \in D!Wotta |-> D!Verdict(manifest, p)]
             all_ok == \A p \in D!Wotta : D!Verdict(manifest, p) # "failed"
  <1>2. manifest \in D!Manifest /\ m = [manifest EXCEPT !.status = verdict, !.verified = all_ok]
    BY <1>1 DEF DeploymentInv, Good, D!Verified
  <1>3. verdict \in [D!Wotta -> {"pending", "verified", "failed", "skipped"}] /\ all_ok \in BOOLEAN
    BY DEF D!Verdict
  <1>4. \A p \in D!Wotta : verdict[p] = D!Verdict(manifest, p)
    OBVIOUS
  <1> HIDE DEF verdict
  <1>5. /\ m \in D!Manifest /\ m.status = verdict /\ m.class = manifest.class
        /\ m.declare = manifest.declare /\ m.deploy = manifest.deploy /\ m.earn = manifest.earn
        /\ (m.verified = all_ok)
    <2> HIDE DEF all_ok
    <2>1. CASE all_ok = TRUE
      BY <1>2, <1>3, <2>1 DEF D!Manifest
    <2>2. CASE all_ok = FALSE
      BY <1>2, <1>3, <2>2 DEF D!Manifest
    <2>3. QED
      BY <1>3, <2>1, <2>2
  <1>6. Points(m, txs) /\ Seen(m, txs) /\ Free(m, txs, run)
    BY <1>5 DEF DeploymentInv, Good, Points, Seen, Free, Entry, D!RecordOf
  <1>7. Vouched(m, txs)
    <2>1. SUFFICES ASSUME m.verified
                   PROVE  /\ At(m, "router", txs)
                          /\ \A p \in Pools : m.status[p] = "verified" =>
                                 /\ At(m, p, txs)
                                 /\ txs[m.deploy[p].tx].router = m.deploy["router"].tx
      BY DEF Vouched
    <2>2. "router" \in D!Wotta /\ Pools \subseteq D!Wotta
      BY DEF D!Wotta
    <2>3. D!RouterOk(manifest)
      <3>1. D!Verdict(manifest, "router") # "failed"
        BY <1>5, <2>1, <2>2
      <3>2. "router" \notin manifest.approved
        BY <1>2, NamesAreNotPools DEF D!Manifest
      <3>3. QED
        BY <3>1, <3>2 DEF D!Verdict
    <2>4. At(m, "router", txs)
      BY <1>5, <2>3 DEF D!RouterOk, D!ClassAtOk, D!ReceiptOk, D!Accepted, At, TaskOf
    <2>5. ASSUME NEW p \in Pools, m.status[p] = "verified", p # "router"
          PROVE  D!PoolOk(manifest, p)
      <3>1. D!Verdict(manifest, p) = "verified"
        BY <1>4, <1>5, <2>2, <2>5
      <3>2. QED
        BY <2>5, <3>1 DEF D!Verdict
    <2>6. ASSUME NEW p \in Pools, m.status[p] = "verified", p # "router"
          PROVE  At(m, p, txs) /\ txs[m.deploy[p].tx].router = m.deploy["router"].tx
      BY <1>5, <2>5, <2>6 DEF D!PoolOk, D!ClassAtOk, D!ReceiptOk, D!Accepted, At, TaskOf
    <2>7. QED
      BY <2>4, <2>6, NamesAreNotPools
  <1>8. D!Start("verify", "write", m)
    BY <1>1 DEF D!StartVerify
  <1>9. QED
    BY <1>5, <1>6, <1>7, <1>8, StartStep DEF Good

LEMMA StartSteps ==
    ASSUME DeploymentInv,
           D!StartDeclare \/ D!StartDeploy \/ D!StartVerify \/ D!StartVesu
    PROVE  DeploymentInv'
  <1>1. PICK m : m = manifest
    OBVIOUS
  <1>2. Good(m, txs) /\ Free(m, txs, run)
    BY <1>1 DEF DeploymentInv
  <1>3. CASE D!StartDeploy
    BY <1>1, <1>2, <1>3, StartStep DEF D!StartDeploy
  <1>4. CASE D!StartVesu
    BY <1>1, <1>2, <1>4, StartStep DEF D!StartVesu
  <1>5. QED
    BY <1>3, <1>4, StartDeclareStep, StartVerifyStep

\* A run that ends with a last save.
LEMMA FinishStep ==
    ASSUME DeploymentInv, D!FinishDeclare \/ D!FinishDeploy \/ D!WriteVerdict
    PROVE  DeploymentInv'
  <1>1. /\ manifest' = mem /\ mem' = mem /\ run' = D!Idle /\ UNCHANGED <<txs, built>>
        /\ run.at # "record"
    BY DEF D!FinishDeclare, D!FinishDeploy, D!WriteVerdict, D!Persisted, D!At, D!Idle
  <1>2. Good(manifest, txs)' /\ Good(mem, txs)'
    BY <1>1 DEF DeploymentInv, Good, Points, Seen, Vouched, At
  <1>3. Free(manifest', txs, run) /\ Free(mem', txs, run)
    BY <1>1 DEF DeploymentInv
  <1>4. Vesu(manifest, mem, run)'
    BY <1>1, IdleRun DEF Vesu
  <1>5. QED
    BY <1>1, <1>2, <1>3, <1>4, IdleRun, AtRest

-----------------------------------------------------------------------------
\* What reconciling makes of a manifest.
BlocksIn(m, kind, waiting) ==
    IF kind = "declare"
      THEN [m EXCEPT !.declare = [w \in DOMAIN m.declare |->
               IF w \in waiting THEN [m.declare[w] EXCEPT !.block = TRUE] ELSE m.declare[w]]]
      ELSE [m EXCEPT !.deploy = [w \in DOMAIN m.deploy |->
               IF w \in waiting THEN [m.deploy[w] EXCEPT !.block = TRUE] ELSE m.deploy[w]]]

Waiting(m, kind, whats) == {w \in whats : /\ Entry(m, kind, w).tx # 0
                                          /\ ~Entry(m, kind, w).block}

LEMMA BlocksInIs ==
    ASSUME NEW m \in D!Manifest, NEW kind \in {"declare", "deploy"}, NEW waiting,
           NEW n, n = BlocksIn(m, kind, waiting)
    PROVE  /\ n \in D!Manifest /\ SameRest(m, n) /\ Filled(m, n)
           /\ \A k, w : Slot(k, w) => 
                  (Entry(n, k, w).block <=> (k = kind /\ w \in waiting) \/ Entry(m, k, w).block)
  <1>1. /\ m.declare \in [D!Classes -> D!Record] /\ m.deploy \in [D!Parts -> D!Record]
        /\ DOMAIN m.declare = D!Classes /\ DOMAIN m.deploy = D!Parts
    BY DEF D!Manifest
  <1>2. \A r \in D!Record : /\ [r EXCEPT !.block = TRUE] \in D!Record
                            /\ [r EXCEPT !.block = TRUE].tx = r.tx
                            /\ [r EXCEPT !.block = TRUE].block = TRUE
    BY DEF D!Record
  <1>3. CASE kind = "declare"
    <2> DEFINE f == [w \in D!Classes |->
                       IF w \in waiting THEN [m.declare[w] EXCEPT !.block = TRUE]
                                        ELSE m.declare[w]]
    <2>1. f \in [D!Classes -> D!Record] /\ n = [m EXCEPT !.declare = f]
      BY <1>1, <1>2, <1>3 DEF BlocksIn
    <2>2. \A w \in D!Classes :
             f[w] = IF w \in waiting THEN [m.declare[w] EXCEPT !.block = TRUE] ELSE m.declare[w]
      OBVIOUS
    <2> HIDE DEF f
    <2>3. n \in D!Manifest /\ SameRest(m, n) /\ n.declare = f /\ n.deploy = m.deploy
      BY <2>1 DEF D!Manifest, SameRest
    <2>4. \A k, w : Slot(k, w) =>
              Entry(n, k, w) = IF k = kind /\ w \in waiting
                                 THEN [Entry(m, k, w) EXCEPT !.block = TRUE] ELSE Entry(m, k, w)
      BY <1>3, <2>2, <2>3 DEF Slot, Entry, D!RecordOf
    <2>5. ASSUME NEW k, NEW w, Slot(k, w)
          PROVE  /\ Entry(n, k, w).tx = Entry(m, k, w).tx
                 /\ Entry(n, k, w).block <=>
                       (k = kind /\ w \in waiting) \/ Entry(m, k, w).block
      <3>1. Entry(m, k, w) \in D!Record
        BY <2>5, ManifestAt
      <3>2. CASE k = kind /\ w \in waiting
        <4>1. Entry(n, k, w) = [Entry(m, k, w) EXCEPT !.block = TRUE]
          BY <2>4, <2>5, <3>2
        <4>2. QED
          BY <1>2, <3>1, <3>2, <4>1
      <3>3. CASE ~(k = kind /\ w \in waiting)
        <4>1. Entry(n, k, w) = Entry(m, k, w)
          BY <2>4, <2>5, <3>3
        <4>2. QED
          BY <3>3, <4>1
      <3>4. QED
        BY <3>2, <3>3
    <2>6. Filled(m, n)
      <3>1. ASSUME NEW k, NEW w, Slot(k, w), Entry(m, k, w).block PROVE Entry(n, k, w).block
        BY <2>5, <3>1
      <3>2. QED
        BY <2>5, <3>1 DEF Filled
    <2>7. QED
      BY <2>3, <2>5, <2>6
  <1>4. CASE kind = "deploy"
    <2> DEFINE f == [w \in D!Parts |->
                       IF w \in waiting THEN [m.deploy[w] EXCEPT !.block = TRUE]
                                        ELSE m.deploy[w]]
    <2>1. f \in [D!Parts -> D!Record] /\ n = [m EXCEPT !.deploy = f]
      BY <1>1, <1>2, <1>4 DEF BlocksIn
    <2>2. \A w \in D!Parts :
             f[w] = IF w \in waiting THEN [m.deploy[w] EXCEPT !.block = TRUE] ELSE m.deploy[w]
      OBVIOUS
    <2> HIDE DEF f
    <2>3. n \in D!Manifest /\ SameRest(m, n) /\ n.deploy = f /\ n.declare = m.declare
      BY <2>1 DEF D!Manifest, SameRest
    <2>4. \A k, w : Slot(k, w) =>
              Entry(n, k, w) = IF k = kind /\ w \in waiting
                                 THEN [Entry(m, k, w) EXCEPT !.block = TRUE] ELSE Entry(m, k, w)
      BY <1>4, <2>2, <2>3 DEF Slot, Entry, D!RecordOf
    <2>5. ASSUME NEW k, NEW w, Slot(k, w)
          PROVE  /\ Entry(n, k, w).tx = Entry(m, k, w).tx
                 /\ Entry(n, k, w).block <=>
                       (k = kind /\ w \in waiting) \/ Entry(m, k, w).block
      <3>1. Entry(m, k, w) \in D!Record
        BY <2>5, ManifestAt
      <3>2. CASE k = kind /\ w \in waiting
        <4>1. Entry(n, k, w) = [Entry(m, k, w) EXCEPT !.block = TRUE]
          BY <2>4, <2>5, <3>2
        <4>2. QED
          BY <1>2, <3>1, <3>2, <4>1
      <3>3. CASE ~(k = kind /\ w \in waiting)
        <4>1. Entry(n, k, w) = Entry(m, k, w)
          BY <2>4, <2>5, <3>3
        <4>2. QED
          BY <3>3, <4>1
      <3>4. QED
        BY <3>2, <3>3
    <2>6. Filled(m, n)
      <3>1. ASSUME NEW k, NEW w, Slot(k, w), Entry(m, k, w).block PROVE Entry(n, k, w).block
        BY <2>5, <3>1
      <3>2. QED
        BY <2>5, <3>1 DEF Filled
    <2>7. QED
      BY <2>3, <2>5, <2>6
  <1>5. QED
    BY <1>3, <1>4

\* Blocks are asked for; what is not as expected ends the run.
LEMMA ReconcileStep ==
    ASSUME DeploymentInv, NEW kind \in {"declare", "deploy"}, NEW whats,
           NEW statuses \in SUBSET {"l2", "l1"}, NEW place \in {"next", "reconcileDeploy", "check"},
           NEW always, D!Reconcile(kind, whats, statuses, place, always),
           \A w \in whats : Slot(kind, w), UNCHANGED <<txs, built>>,
           run.at \in {"reconcile", "reconcileDeploy"},
           run.script = "vesu" /\ run.at = "reconcile" =>
               kind = "declare" /\ "anonymizer" \in whats
    PROVE  DeploymentInv'
  <1>1. mem \in D!Manifest /\ run \in Run /\ run.kind = "none"
    BY DEF DeploymentInv, Good, InFlight
  <1>8. PICK waiting : waiting = Waiting(mem, kind, whats)
    OBVIOUS
  <1>9. \A w : w \in waiting <=> w \in whats /\ Entry(mem, kind, w).tx # 0
                                            /\ ~Entry(mem, kind, w).block
    BY <1>8 DEF Waiting
  <1>2. \/ D!End
        \/ /\ \A w \in waiting : txs[Entry(mem, kind, w).tx].status \in statuses
           /\ run' = [run EXCEPT !.at = place]
           /\ \/ manifest' = BlocksIn(mem, kind, waiting) /\ mem' = BlocksIn(mem, kind, waiting)
              \/ waiting = {} /\ UNCHANGED <<manifest, mem>>
    <2>1. waiting = {w \in whats : LET r == D!RecordOf(mem, kind, w) IN r.tx # 0 /\ ~r.block}
      BY <1>8 DEF Waiting, Entry
    <2>2. CASE \E w \in waiting : txs[Entry(mem, kind, w).tx].status \notin statuses
      BY <2>1, <2>2 DEF D!Reconcile, Entry
    <2>3. CASE ~\E w \in waiting : txs[Entry(mem, kind, w).tx].status \notin statuses
      <3>1. /\ run' = [run EXCEPT !.at = place]
            /\ IF waiting # {} \/ always
                 THEN D!Persisted(BlocksIn(mem, kind, waiting))
                 ELSE UNCHANGED <<manifest, sealed, mem>>
        BY <2>1, <2>3 DEF D!Reconcile, BlocksIn, Entry
      <3>2. QED
        BY <2>3, <3>1 DEF D!Persisted
    <2>4. QED
      BY <2>2, <2>3
  <1>3. CASE D!End
    BY <1>3, EndStep
  <1>4. ASSUME \A w \in waiting : txs[Entry(mem, kind, w).tx].status \in statuses,
               run' = [run EXCEPT !.at = place]
        PROVE  /\ run' \in Run /\ run'.script = run.script /\ run'.at = place
               /\ run'.kind = "none"
    BY <1>1, <1>4 DEF Run
  <1>5. ASSUME \A w \in waiting : txs[Entry(mem, kind, w).tx].status \in statuses,
               run' = [run EXCEPT !.at = place],
               manifest' = BlocksIn(mem, kind, waiting), mem' = BlocksIn(mem, kind, waiting)
        PROVE  DeploymentInv'
    <2>1. PICK n : n = BlocksIn(mem, kind, waiting)
      OBVIOUS
    <2>2. /\ n \in D!Manifest /\ SameRest(mem, n) /\ Filled(mem, n)
          /\ \A k, w : Slot(k, w) => 
                  (Entry(n, k, w).block <=> (k = kind /\ w \in waiting) \/ Entry(mem, k, w).block)
      BY <1>1, <2>1, BlocksInIs
    <2>3. Seen(n, txs)
      <3>1. ASSUME n.declare["anonymizer"].block
            PROVE  TaskOf(txs, n.declare["anonymizer"].tx)
        <4>1. n.declare["anonymizer"].tx = mem.declare["anonymizer"].tx
          BY <1>1, <2>2, ManifestAt DEF Filled
        <4>2. CASE kind = "declare" /\ "anonymizer" \in waiting
          <5>1. /\ mem.declare["anonymizer"].tx # 0
                /\ txs[mem.declare["anonymizer"].tx].status \in statuses
            BY <1>1, <1>5, <1>9, <4>2, ManifestAt
          <5>2. QED
            BY <4>1, <5>1 DEF TaskOf
        <4>3. CASE ~(kind = "declare" /\ "anonymizer" \in waiting)
          <5>1. mem.declare["anonymizer"].block
            BY <1>1, <2>2, <3>1, <4>3, ManifestAt
          <5>2. QED
            BY <4>1, <5>1 DEF DeploymentInv, Good, Seen
        <4>4. QED
          BY <4>2, <4>3
      <3>2. QED
        BY <3>1 DEF Seen
    <2>4. Good(n, txs) /\ Free(n, txs, run)
      BY <2>2, <2>3, FilledIs DEF DeploymentInv
    <2>5. manifest' = n /\ mem' = n /\ txs' = txs
      BY <1>5, <2>1
    <2>6. Good(manifest, txs)' /\ Good(mem, txs)'
      BY <2>4, <2>5 DEF Good, Points, Seen, Vouched, At
    <2>7. Vesu(manifest, mem, run)'
      <3>1. ASSUME run.script = "vesu", n.declare["anonymizer"].tx # 0
            PROVE  n.declare["anonymizer"].block
        <4>1. mem.declare["anonymizer"].tx # 0
          BY <1>1, <2>2, <3>1, ManifestAt DEF Filled
        <4>2. CASE run.at = "reconcile"
          BY <1>1, <2>2, <3>1, <4>1, <4>2, <1>9, ManifestAt
        <4>3. CASE run.at # "reconcile"
          BY <1>1, <2>2, <3>1, <4>1, <4>3, ManifestAt DEF DeploymentInv, Vesu
        <4>4. QED
          BY <4>2, <4>3
      <3>2. run.script = "vesu" => n.earn
        BY <2>2 DEF DeploymentInv, Vesu, SameRest
      <3>3. QED
        BY <1>4, <1>5, <2>5, <3>1, <3>2 DEF Vesu
    <2>8. QED
      BY <1>4, <1>5, <2>4, <2>5, <2>6, <2>7, AtRest
  <1>6. ASSUME \A w \in waiting : txs[Entry(mem, kind, w).tx].status \in statuses,
               run' = [run EXCEPT !.at = place], waiting = {}, UNCHANGED <<manifest, mem>>
        PROVE  DeploymentInv'
    <2>1. Good(manifest, txs)' /\ Good(mem, txs)'
      BY <1>6 DEF DeploymentInv, Good, Points, Seen, Vouched, At
    <2>2. Free(manifest', txs, run) /\ Free(mem', txs, run)
      BY <1>6 DEF DeploymentInv
    <2>3. Vesu(manifest, mem, run)'
      <3>1. ASSUME run.script = "vesu", mem.declare["anonymizer"].tx # 0
            PROVE  mem.declare["anonymizer"].block
        <4>1. CASE run.at = "reconcile"
          BY <1>1, <1>6, <3>1, <4>1, <1>9, ManifestAt
        <4>2. CASE run.at # "reconcile"
          BY <1>1, <3>1, <4>2 DEF DeploymentInv, Vesu
        <4>3. QED
          BY <4>1, <4>2
      <3>2. QED
        BY <1>4, <1>6, <3>1 DEF DeploymentInv, Vesu
    <2>4. QED
      BY <1>4, <1>6, <2>1, <2>2, <2>3, AtRest
  <1>7. QED
    BY <1>2, <1>3, <1>5, <1>6

LEMMA ReconcileSteps ==
    ASSUME DeploymentInv,
           D!ReconcileDeclarations \/ D!ReconcileDeployments \/ D!ReconcileVesu
    PROVE  DeploymentInv'
  <1>1. /\ \A w \in {"router", "pool"} : Slot("declare", w)
        /\ \A w \in D!Wotta : Slot("deploy", w)
        /\ \A w \in {"anonymizer"} : Slot("declare", w) /\ Slot("deploy", w)
    BY DEF Slot, D!Classes, D!Parts
  <1>2. CASE D!ReconcileDeclarations
    BY <1>1, <1>2, ReconcileStep DEF D!ReconcileDeclarations, D!At, D!Idle
  <1>3. CASE D!ReconcileDeployments
    BY <1>1, <1>3, ReconcileStep DEF D!ReconcileDeployments, D!At, D!Idle
  <1>4. CASE D!ReconcileVesu
    <2>1. run.script = "vesu" /\ UNCHANGED <<txs, built>>
      BY <1>4 DEF D!ReconcileVesu
    <2>2. CASE /\ run.at = "reconcile"
               /\ D!Reconcile("declare", {"anonymizer"}, {"l2", "l1"}, "reconcileDeploy", FALSE)
      BY <1>1, <2>1, <2>2, ReconcileStep
    <2>3. CASE /\ run.at = "reconcileDeploy"
               /\ D!Reconcile("deploy", {"anonymizer"}, {"l2", "l1"}, "check", FALSE)
      BY <1>1, <2>1, <2>3, ReconcileStep
    <2>4. QED
      BY <1>4, <2>2, <2>3 DEF D!ReconcileVesu
  <1>5. QED
    BY <1>2, <1>3, <1>4

-----------------------------------------------------------------------------
\* The hash is written down: the slot was empty, so nothing vouched for changes.
LEMMA RecordTxStep == ASSUME DeploymentInv, D!RecordTx PROVE DeploymentInv'
  <1>1. PICK kind, what : kind = run.kind /\ what = run.what
    OBVIOUS
  <1>2. PICK r \in D!Record : r = [tx |-> Len(txs), block |-> FALSE]
    BY DeploymentAt DEF D!Record
  <1>3. PICK n : n = D!Recorded(mem, kind, what, r)
    OBVIOUS
  <1>4. /\ run.at = "record" /\ manifest' = n /\ mem' = n /\ UNCHANGED <<txs, built>>
        /\ run' = [run EXCEPT !.at = "wait"] /\ run \in Run
    BY <1>1, <1>2, <1>3 DEF D!RecordTx, D!Persisted, DeploymentInv
  <1>5. /\ run' \in Run /\ run'.at = "wait" /\ run'.script = run.script
        /\ run'.kind = kind /\ run'.what = what
    BY <1>1, <1>4 DEF Run
  <1>6. /\ mem \in D!Manifest /\ Slot(kind, what) /\ (what = "anonymizer" <=> run.script = "vesu")
        /\ Len(txs) # 0 /\ Of(txs[Len(txs)], kind, what) /\ Entry(mem, kind, what).tx = 0
        /\ Len(txs) \in DOMAIN txs
    BY <1>1, <1>4, DeploymentAt DEF DeploymentInv, Good, InFlight
  <1>7. /\ n \in D!Manifest /\ SameRest(mem, n) /\ Entry(n, kind, what) = r
        /\ \A k, w : Slot(k, w) /\ ~(k = kind /\ w = what) => Entry(n, k, w) = Entry(mem, k, w)
    BY <1>3, <1>6, RecordedIs
  <1>8. r.tx = Len(txs) /\ r.block = FALSE
    BY <1>2
  <1>9. Points(n, txs)
    BY <1>6, <1>7, <1>8 DEF DeploymentInv, Good, Points
  <1>10. Seen(n, txs)
    <2>1. ASSUME n.declare["anonymizer"].block
          PROVE  n.declare["anonymizer"] = mem.declare["anonymizer"]
      BY <1>6, <1>7, <1>8, <2>1, ManifestAt
    <2>2. QED
      BY <2>1 DEF DeploymentInv, Good, Seen
  <1>11. Vouched(n, txs)
    <2>1. SUFFICES ASSUME mem.verified PROVE Vouched(n, txs)
      BY <1>7 DEF Vouched, SameRest
    <2>2. ASSUME NEW part \in D!Parts, At(mem, part, txs)
          PROVE  n.deploy[part] = mem.deploy[part] /\ At(n, part, txs)
      <3>1. Entry(mem, "deploy", part).tx # 0
        BY <1>6, <2>2, ManifestAt DEF At, TaskOf
      <3>2. n.deploy[part] = mem.deploy[part]
        BY <1>6, <1>7, <3>1, ManifestAt
      <3>3. QED
        BY <1>7, <2>2, <3>2 DEF At, SameRest
    <2>3. At(mem, "router", txs)
          /\ \A p \in Pools : mem.status[p] = "verified" =>
                At(mem, p, txs) /\ txs[mem.deploy[p].tx].router = mem.deploy["router"].tx
      BY <2>1 DEF DeploymentInv, Good, Vouched
    <2>4. QED
      BY <1>6, <1>7, <2>2, <2>3, ManifestAt DEF Vouched, SameRest
  <1>12. Good(manifest, txs)' /\ Good(mem, txs)'
    BY <1>4, <1>7, <1>9, <1>10, <1>11 DEF Good, Points, Seen, Vouched, At
  <1>13. Free(n, txs, run')
    BY <1>1, <1>4, <1>6, <1>7, <1>8 DEF DeploymentInv, Free, SameRest
  <1>14. Free(manifest, txs, run)' /\ Free(mem, txs, run)'
    BY <1>4, <1>13 DEF Free
  <1>15. InFlight(mem, txs, run)'
    BY <1>4, <1>5, <1>6, <1>7, <1>8 DEF InFlight
  <1>16. Vesu(manifest, mem, run)'
    <2>1. ASSUME run.script = "vesu", n.declare["anonymizer"].tx # 0, kind # "declare"
          PROVE  n.declare["anonymizer"].block
      <3>1. n.declare["anonymizer"] = mem.declare["anonymizer"]
        BY <1>6, <1>7, <2>1, ManifestAt
      <3>2. QED
        BY <1>1, <1>4, <2>1, <3>1 DEF DeploymentInv, Vesu
    <2>2. run.script = "vesu" => n.earn
      BY <1>7 DEF DeploymentInv, Vesu, SameRest
    <2>3. QED
      BY <1>4, <1>5, <2>1, <2>2 DEF Vesu
  <1>17. QED
    BY <1>4, <1>5, <1>12, <1>14, <1>15, <1>16 DEF DeploymentInv

\* The block is written down next to the hash.
LEMMA WaitStep == ASSUME DeploymentInv, D!Wait PROVE DeploymentInv'
  <1>1. PICK kind, what : kind = run.kind /\ what = run.what
    OBVIOUS
  <1>2. /\ run.at = "wait" /\ UNCHANGED <<txs, built>> /\ run \in Run /\ mem \in D!Manifest
        /\ Slot(kind, what) /\ (what = "anonymizer" <=> run.script = "vesu")
        /\ Entry(mem, kind, what).tx # 0
    BY <1>1 DEF D!Wait, DeploymentInv, Good, InFlight
  <1>3. PICK tx \in Nat : tx = Entry(mem, kind, what).tx
    BY <1>2, ManifestAt
  <1>4. PICK r \in D!Record : r = [tx |-> tx, block |-> TRUE]
    BY DEF D!Record
  <1>5. PICK n : n = D!Recorded(mem, kind, what, r)
    OBVIOUS
  <1>6. \/ D!End
        \/ /\ ~(run.script = "vesu" /\ ~D!Accepted(tx))
           /\ manifest' = n /\ mem' = n /\ run' = D!At(run.script, "next")
    BY <1>1, <1>3, <1>4, <1>5 DEF D!Wait, D!Persisted, Entry
  <1>7. CASE D!End
    BY <1>2, <1>7, EndStep
  <1>8. ASSUME ~(run.script = "vesu" /\ ~D!Accepted(tx)), manifest' = n, mem' = n,
               run' = D!At(run.script, "next")
        PROVE  DeploymentInv'
    <2>1. run' \in Run /\ run'.at = "next" /\ run'.script = run.script /\ run'.kind = "none"
      BY <1>2, <1>8 DEF Run, D!At, D!Idle
    <2>2. /\ n \in D!Manifest /\ SameRest(mem, n) /\ Entry(n, kind, what) = r
          /\ \A k, w : Slot(k, w) /\ ~(k = kind /\ w = what) => Entry(n, k, w) = Entry(mem, k, w)
      BY <1>2, <1>5, RecordedIs
    <2>3. r.tx = tx /\ r.block = TRUE
      BY <1>4
    <2>4. Filled(mem, n)
      BY <1>3, <2>2, <2>3 DEF Filled
    <2>5. Seen(n, txs)
      <3>1. CASE kind = "declare" /\ what = "anonymizer"
        <4>1. n.declare["anonymizer"] = r
          BY <1>2, <2>2, <3>1, ManifestAt
        <4>2. TaskOf(txs, tx)
          BY <1>2, <1>8, <3>1 DEF D!Accepted, TaskOf
        <4>3. QED
          BY <2>3, <4>1, <4>2 DEF Seen
      <3>2. CASE ~(kind = "declare" /\ what = "anonymizer")
        <4>1. n.declare["anonymizer"] = mem.declare["anonymizer"]
          BY <1>2, <2>2, <3>2, ManifestAt
        <4>2. QED
          BY <4>1 DEF DeploymentInv, Good, Seen
      <3>3. QED
        BY <3>1, <3>2
    <2>6. Good(n, txs) /\ Free(n, txs, run)
      BY <2>2, <2>4, <2>5, FilledIs DEF DeploymentInv
    <2>7. Good(manifest, txs)' /\ Good(mem, txs)'
      BY <1>2, <1>8, <2>6 DEF Good, Points, Seen, Vouched, At
    <2>8. Vesu(manifest, mem, run)'
      <3>1. ASSUME run.script = "vesu", n.declare["anonymizer"].tx # 0
            PROVE  n.declare["anonymizer"].block
        <4>1. CASE kind = "declare"
          BY <1>2, <2>2, <2>3, <3>1, <4>1, ManifestAt
        <4>2. CASE kind # "declare"
          <5>1. n.declare["anonymizer"] = mem.declare["anonymizer"]
            BY <1>2, <2>2, <4>2, ManifestAt
          <5>2. QED
            BY <1>1, <1>2, <3>1, <4>2, <5>1 DEF DeploymentInv, Vesu
        <4>3. QED
          BY <4>1, <4>2
      <3>2. run.script = "vesu" => n.earn
        BY <2>2 DEF DeploymentInv, Vesu, SameRest
      <3>3. QED
        BY <1>8, <2>1, <3>1, <3>2 DEF Vesu
    <2>9. QED
      BY <1>2, <1>8, <2>1, <2>6, <2>7, <2>8, AtRest
  <1>9. QED
    BY <1>6, <1>7, <1>8

\* A script looks, and goes on or ends.
LEMMA LookSteps ==
    ASSUME DeploymentInv, D!CheckVesu \/ D!Fail \/ D!FinishVesu
    PROVE  DeploymentInv'
  <1>1. UNCHANGED <<txs, built>> /\ run.at # "record" /\ run.at # "wait"
    BY DEF D!CheckVesu, D!Fail, D!FinishVesu, D!At, D!Idle
  <1>2. CASE D!End
    BY <1>1, <1>2, EndStep
  <1>3. CASE /\ run = D!At("vesu", "check") /\ run' = D!At("vesu", "next")
             /\ UNCHANGED <<manifest, mem>>
    <2>1. run' \in Run /\ run'.at = "next" /\ run'.script = "vesu" /\ run'.kind = "none"
          /\ run.at = "check" /\ run.script = "vesu" /\ run.kind = "none"
      BY <1>3 DEF Run, D!At, D!Idle
    <2>2. Good(manifest, txs)' /\ Good(mem, txs)'
      BY <1>1, <1>3 DEF DeploymentInv, Good, Points, Seen, Vouched, At
    <2>3. Free(manifest', txs, run) /\ Free(mem', txs, run)
      BY <1>3 DEF DeploymentInv
    <2>4. Vesu(manifest, mem, run)'
      BY <1>3, <2>1 DEF DeploymentInv, Vesu
    <2>5. QED
      BY <1>1, <2>1, <2>2, <2>3, <2>4, AtRest
  <1>4. QED
    BY <1>2, <1>3 DEF D!CheckVesu, D!Fail, D!FinishVesu

-----------------------------------------------------------------------------
\* A transaction is sent for an empty slot.
LEMMA SendStep ==
    ASSUME DeploymentInv, NEW kind, NEW what, NEW build \in Nat, Slot(kind, what),
           D!Send(kind, what, build), run.at = "next", run.script # "none",
           Entry(mem, kind, what).tx = 0,
           what = "anonymizer" <=> run.script = "vesu",
           what = "anonymizer" => build = 1
    PROVE  DeploymentInv'
  <1>1. PICK new : new = [kind |-> kind, what |-> what, build |-> build,
                          router |-> mem.deploy["router"].tx, status |-> "sent", lost |-> FALSE]
    OBVIOUS
  <1>2. new \in Tx /\ Of(new, kind, what) /\ new.build = build
        /\ (\A k, w : Of(new, k, w) => k = kind /\ w = what)
    <2>1. mem.deploy["router"].tx \in Nat
      BY DeploymentAt, ManifestAt
    <2>2. kind \in {"declare", "deploy"} /\ what \in D!Classes \cup D!Parts
      BY DEF Slot
    <2>3. QED
      BY <1>1, <2>1, <2>2 DEF Tx, Of
  <1>3. /\ txs' = Append(txs, new) /\ UNCHANGED <<manifest, mem, built>>
        /\ run' = [run EXCEPT !.at = "record", !.kind = kind, !.what = what] /\ run \in Run
    BY <1>1 DEF D!Send, DeploymentInv
  <1>4. PICK last \in Nat : last = Len(txs) + 1
    BY DeploymentAt
  <1>5. /\ txs' \in Seq(Tx) /\ Len(txs') = last /\ last # 0 /\ DOMAIN txs' = 1..last
        /\ txs'[last] = new
        /\ \A i \in DOMAIN txs : txs'[i] = txs[i] /\ i < last /\ i \in 1..last
        /\ \A i \in 1..last : i = last \/ i \in DOMAIN txs
    BY <1>2, <1>3, <1>4, DeploymentAt
  <1>6. /\ run' \in Run /\ run'.at = "record" /\ run'.script = run.script
        /\ run'.kind = kind /\ run'.what = what
    <2>1. kind \in {"declare", "deploy"} /\ what \in D!Classes \cup D!Parts
      BY DEF Slot
    <2>2. QED
      BY <1>3, <2>1 DEF Run
  <1>7. Txs(txs')
    BY <1>2, <1>5 DEF DeploymentInv, Txs
  <1>8. Later(txs, txs')
    BY <1>5, <1>7 DEF Later, TaskOf
  <1>9. Good(manifest, txs') /\ Good(mem, txs')
    BY <1>8, LaterIsGood DEF DeploymentInv
  <1>10. Good(manifest, txs)' /\ Good(mem, txs)'
    BY <1>3, <1>9 DEF Good, Points, Seen, Vouched, At
  <1>11. ASSUME NEW m, Free(m, txs, run) PROVE Free(m, txs', run')
    <2>1. \A i \in DOMAIN txs : \A k, w :
             Slot(k, w) /\ (w = "anonymizer" => m.earn) /\ Entry(m, k, w).tx = 0
             /\ Of(txs[i], k, w) => txs[i].lost
      BY <1>11 DEF Free
    <2>2. QED
      BY <1>2, <1>5, <1>6, <2>1 DEF Free
  <1>12. Free(manifest, txs, run)' /\ Free(mem, txs, run)'
    <2>1. Free(manifest, txs', run') /\ Free(mem, txs', run')
      BY <1>11 DEF DeploymentInv
    <2>2. QED
      BY <1>3, <2>1 DEF Free
  <1>13. InFlight(mem, txs, run)'
    BY <1>2, <1>3, <1>5, <1>6 DEF InFlight
  <1>14. Vesu(manifest, mem, run)'
    <2>1. run.kind = "none"
      BY DEF DeploymentInv, InFlight
    <2>2. QED
      BY <1>3, <1>6, <2>1 DEF DeploymentInv, Vesu
  <1>15. PaidOnce(txs')
    <2>1. ASSUME NEW i \in DOMAIN txs, txs[i].kind = kind, txs[i].what = what
          PROVE  txs[i].lost
      <3>1. what = "anonymizer" => mem.earn
        BY DEF DeploymentInv, Vesu
      <3>2. QED
        BY <2>1, <3>1 DEF DeploymentInv, Free, Of
    <2>2. new.kind = kind /\ new.what = what
      BY <1>1
    <2>3. ASSUME NEW i \in 1..last, NEW j \in 1..last, i < j, txs'[i].kind = txs'[j].kind,
                 txs'[i].what = txs'[j].what
          PROVE  txs'[i].lost
      <3>1. i \in DOMAIN txs /\ txs'[i] = txs[i]
        BY <1>4, <1>5, <2>3
      <3>2. CASE j = last
        BY <1>5, <2>1, <2>2, <2>3, <3>1, <3>2
      <3>3. CASE j \in DOMAIN txs
        BY <1>5, <2>3, <3>1, <3>3 DEF DeploymentInv, PaidOnce
      <3>4. QED
        BY <1>5, <3>2, <3>3
    <2>4. QED
      BY <1>5, <2>3 DEF PaidOnce
  <1>16. QED
    BY <1>3, <1>6, <1>7, <1>10, <1>12, <1>13, <1>14, <1>15 DEF DeploymentInv

LEMMA SendSteps ==
    ASSUME DeploymentInv,
           \/ \E c \in {"router", "pool"} : D!Declare(c)
           \/ \E p \in D!Wotta : D!Deploy(p)
           \/ D!DeclareVesu \/ D!DeployVesu
    PROVE  DeploymentInv'
  <1>1. /\ \A c \in D!Classes : mem.class[c] \in Nat
        /\ \A c \in {"router", "pool"} : Slot("declare", c) /\ c \in D!Classes /\ c # "anonymizer"
        /\ \A p \in D!Wotta : Slot("deploy", p) /\ D!ClassOf(p) \in D!Classes /\ p # "anonymizer"
        /\ Slot("declare", "anonymizer") /\ Slot("deploy", "anonymizer")
    BY DeploymentAt, ManifestAt, NamesAreNotPools
       DEF Slot, D!Classes, D!Parts, D!Wotta, D!ClassOf
  <1>2. ASSUME NEW c \in {"router", "pool"}, D!Declare(c) PROVE DeploymentInv'
    <2>1. /\ run.at = "next" /\ run.script = "declare" /\ Entry(mem, "declare", c).tx = 0
          /\ D!Send("declare", c, mem.class[c])
      BY <1>2 DEF D!Declare, D!At, D!Idle, Entry, D!RecordOf
    <2>2. QED
      BY <1>1, <2>1, SendStep
  <1>3. ASSUME NEW p \in D!Wotta, D!Deploy(p) PROVE DeploymentInv'
    <2>1. /\ run.at = "next" /\ run.script = "deploy" /\ Entry(mem, "deploy", p).tx = 0
          /\ D!Send("deploy", p, mem.class[D!ClassOf(p)])
      BY <1>3 DEF D!Deploy, D!At, D!Idle, Entry, D!RecordOf
    <2>2. QED
      BY <1>1, <2>1, SendStep
  <1>4. CASE D!DeclareVesu
    <2>1. /\ run.at = "next" /\ run.script = "vesu" /\ run.kind = "none"
          /\ ~D!AnonymizerDeclared /\ D!Send("declare", "anonymizer", 1)
      BY <1>4 DEF D!DeclareVesu, D!At, D!Idle
    <2>2. Entry(mem, "declare", "anonymizer").tx = 0
      <3> SUFFICES ASSUME Entry(mem, "declare", "anonymizer").tx # 0 PROVE FALSE
        OBVIOUS
      <3>1. PICK i : i = mem.declare["anonymizer"].tx
        OBVIOUS
      <3>2. i # 0 /\ i \in DOMAIN txs /\ Of(txs[i], "declare", "anonymizer")
        BY <1>1, <3>1, DeploymentAt, ManifestAt DEF DeploymentInv, Good, Points
      <3>3. mem.declare["anonymizer"].block
        BY <2>1, <3>1, <3>2 DEF DeploymentInv, Vesu
      <3>4. D!Accepted(i)
        BY <3>1, <3>3 DEF DeploymentInv, Good, Seen, TaskOf, D!Accepted
      <3>5. txs[i].build = 1
        BY <3>2 DEF DeploymentInv, Txs
      <3>6. QED
        BY <2>1, <3>2, <3>4, <3>5 DEF D!AnonymizerDeclared, D!Declared, Of
    <2>3. QED
      BY <1>1, <2>1, <2>2, SendStep
  <1>5. CASE D!DeployVesu
    <2>1. /\ run.at = "next" /\ run.script = "vesu" /\ Entry(mem, "deploy", "anonymizer").tx = 0
          /\ D!Send("deploy", "anonymizer", 1)
      BY <1>5 DEF D!DeployVesu, D!At, D!Idle, Entry, D!RecordOf
    <2>2. QED
      BY <1>1, <2>1, SendStep
  <1>6. QED
    BY <1>2, <1>3, <1>4, <1>5

\* The status of a transaction changes, or it is lost sight of; an accepted
\* one stays accepted.
LEMMA TxChanged ==
    ASSUME DeploymentInv, NEW i \in DOMAIN txs, NEW tx \in Tx,
           txs' = [txs EXCEPT ![i] = tx], tx.kind = txs[i].kind, tx.what = txs[i].what,
           tx.build = txs[i].build, tx.router = txs[i].router, txs[i].lost => tx.lost,
           TaskOf(txs, i) => tx.status \in {"l2", "l1"}
    PROVE  /\ Txs(txs') /\ Later(txs, txs') /\ PaidOnce(txs') /\ Len(txs') = Len(txs)
           /\ DOMAIN txs' = DOMAIN txs /\ txs'[i] = tx
           /\ \A j \in DOMAIN txs : /\ \A k, w : Of(txs'[j], k, w) <=> Of(txs[j], k, w)
                                    /\ txs[j].lost => txs'[j].lost
  <1>1. /\ txs' \in Seq(Tx) /\ Len(txs') = Len(txs) /\ DOMAIN txs' = DOMAIN txs
        /\ txs'[i] = tx /\ \A j \in DOMAIN txs : j # i => txs'[j] = txs[j]
    BY DeploymentAt
  <1>2. \A j \in DOMAIN txs : /\ txs'[j].kind = txs[j].kind /\ txs'[j].what = txs[j].what
                              /\ txs'[j].build = txs[j].build /\ txs'[j].router = txs[j].router
                              /\ txs[j].lost => txs'[j].lost
                              /\ TaskOf(txs, j) => TaskOf(txs', j)
    BY <1>1 DEF TaskOf
  <1>3. Txs(txs')
    BY <1>1, <1>2 DEF DeploymentInv, Txs, Of
  <1>4. Later(txs, txs')
    BY <1>1, <1>2, <1>3 DEF Later, Of
  <1>5. PaidOnce(txs')
    BY <1>1, <1>2 DEF DeploymentInv, PaidOnce
  <1>6. QED
    BY <1>1, <1>2, <1>3, <1>4, <1>5 DEF Of

LEMMA ChainStep == ASSUME DeploymentInv, D!Mine \/ D!Finalize PROVE DeploymentInv'
  <1>1. UNCHANGED <<manifest, mem, run, built>>
    BY DEF D!Mine, D!Finalize
  <1>2. PICK i \in DOMAIN txs, s \in {"reverted", "l2", "l1"} :
           /\ txs' = [txs EXCEPT ![i].status = s]
           /\ txs[i].status = "sent" \/ s = "l1"
    BY DEF D!Mine, D!Finalize
  <1>3. PICK tx \in Tx : tx = [txs[i] EXCEPT !.status = s]
    BY DeploymentAt DEF Tx
  <1>4. /\ tx.kind = txs[i].kind /\ tx.what = txs[i].what /\ tx.build = txs[i].build
        /\ tx.router = txs[i].router /\ tx.lost = txs[i].lost /\ tx.status = s
    BY <1>3, DeploymentAt DEF Tx
  <1>5. txs' = [txs EXCEPT ![i] = tx]
    BY <1>2, <1>3
  <1>6. TaskOf(txs, i) => tx.status \in {"l2", "l1"}
    BY <1>2, <1>4 DEF TaskOf
  <1>7. /\ Txs(txs') /\ Later(txs, txs') /\ PaidOnce(txs') /\ Len(txs') = Len(txs)
        /\ DOMAIN txs' = DOMAIN txs
        /\ \A j \in DOMAIN txs : /\ \A k, w : Of(txs'[j], k, w) <=> Of(txs[j], k, w)
                                 /\ txs[j].lost => txs'[j].lost
    BY <1>4, <1>5, <1>6, TxChanged
  <1>8. Good(manifest, txs') /\ Good(mem, txs')
    BY <1>7, LaterIsGood DEF DeploymentInv
  <1>9. Good(manifest, txs)' /\ Good(mem, txs)'
    BY <1>1, <1>8 DEF Good, Points, Seen, Vouched, At
  <1>10. Free(manifest, txs, run)' /\ Free(mem, txs, run)'
    BY <1>1, <1>7 DEF DeploymentInv, Free
  <1>11. InFlight(mem, txs, run)'
    <2>1. Len(txs) # 0 => Len(txs) \in DOMAIN txs
      BY DeploymentAt
    <2>2. QED
      BY <1>1, <1>7, <2>1 DEF DeploymentInv, InFlight
  <1>12. QED
    BY <1>1, <1>7, <1>9, <1>10, <1>11 DEF DeploymentInv, Vesu

\* A process dies; what it sent and had not written down is lost.
LEMMA KillStep == ASSUME DeploymentInv, D!Kill PROVE DeploymentInv'
  <1>1. D!End /\ UNCHANGED built
    BY DEF D!Kill
  <1>2. CASE run.at # "record"
    BY <1>1, <1>2, EndStep DEF D!Kill
  <1>3. CASE run.at = "record"
    <2>1. run' = D!Idle /\ UNCHANGED manifest /\ mem' = manifest
      BY <1>1 DEF D!End
    <2>2. PICK i \in DOMAIN txs : i = Len(txs)
      <3>1. Len(txs) # 0
        BY <1>3 DEF DeploymentInv, InFlight
      <3>2. QED
        BY <3>1, DeploymentAt
    <2>3. PICK tx \in Tx : tx = [txs[i] EXCEPT !.lost = TRUE]
      BY DeploymentAt DEF Tx
    <2>4. /\ tx.kind = txs[i].kind /\ tx.what = txs[i].what /\ tx.build = txs[i].build
          /\ tx.router = txs[i].router /\ tx.status = txs[i].status
      BY <2>3, DeploymentAt DEF Tx
    <2>5. tx.lost
      BY <2>3, DeploymentAt DEF Tx
    <2>6. txs' = [txs EXCEPT ![i] = tx]
      BY <1>3, <2>2, <2>3 DEF D!Kill
    <2>7. TaskOf(txs, i) => tx.status \in {"l2", "l1"}
      BY <2>4 DEF TaskOf
    <2>8. /\ Txs(txs') /\ Later(txs, txs') /\ PaidOnce(txs')
          /\ DOMAIN txs' = DOMAIN txs /\ txs'[i] = tx
          /\ \A j \in DOMAIN txs : /\ \A k, w : Of(txs'[j], k, w) <=> Of(txs[j], k, w)
                                   /\ txs[j].lost => txs'[j].lost
      BY <2>4, <2>5, <2>6, <2>7, TxChanged
    <2>9. Good(manifest, txs')
      BY <2>8, LaterIsGood DEF DeploymentInv
    <2>10. Good(manifest, txs)' /\ Good(mem, txs)'
      BY <2>1, <2>9 DEF Good, Points, Seen, Vouched, At
    <2>11. Free(manifest, txs', run')
      BY <2>2, <2>5, <2>8 DEF DeploymentInv, Free
    <2>12. Free(manifest, txs, run)' /\ Free(mem, txs, run)'
      BY <2>1, <2>11 DEF Free
    <2>13. InFlight(mem, txs, run)' /\ Vesu(manifest, mem, run)'
      BY <2>1, IdleRun DEF InFlight, Vesu
    <2>14. QED
      BY <1>1, <2>1, <2>8, <2>10, <2>12, <2>13, IdleRun DEF DeploymentInv
  <1>4. QED
    BY <1>2, <1>3

\* A denomination is approved by hand.
LEMMA ApproveStep == ASSUME DeploymentInv, NEW p \in Pools, D!Approve(p) PROVE DeploymentInv'
  <1>1. PICK n : n = [manifest EXCEPT !.approved = @ \cup {p}]
    OBVIOUS
  <1>2. manifest' = n /\ mem' = n /\ run = D!Idle /\ UNCHANGED <<run, txs, built>>
    BY <1>1 DEF D!Approve
  <1>3. manifest \in D!Manifest
    BY DeploymentAt
  <1>4. n \in D!Manifest /\ n.class = manifest.class /\ n.status = manifest.status
        /\ n.declare = manifest.declare /\ n.deploy = manifest.deploy
    BY <1>1, <1>3 DEF D!Manifest
  <1>5. (n.verified <=> manifest.verified) /\ (n.earn <=> manifest.earn)
    BY <1>1, <1>3 DEF D!Manifest
  <1>6. Points(n, txs) /\ Seen(n, txs) /\ Vouched(n, txs) /\ Free(n, txs, run)
    BY <1>4, <1>5 DEF DeploymentInv, Good, Points, Seen, Vouched, At, Free, Entry, D!RecordOf
  <1>7. Good(manifest, txs)' /\ Good(mem, txs)'
    BY <1>2, <1>4, <1>6 DEF Good, Points, Seen, Vouched, At
  <1>8. Vesu(manifest, mem, run)'
    BY <1>2, IdleRun DEF Vesu
  <1>9. QED
    BY <1>2, <1>6, <1>7, <1>8, IdleRun, AtRest

\* The routers, the hash, the build and the owner's hand on none of it.
LEMMA AsideStep ==
    ASSUME DeploymentInv,
           D!AdmitRouter \/ D!PauseRouter \/ D!SyncManifest \/ D!Build \/ UNCHANGED D!vars
    PROVE  DeploymentInv'
  <1>1. UNCHANGED <<manifest, mem, run, txs>> /\ (built' = built \/ built' = built + 1)
    BY DEF D!AdmitRouter, D!PauseRouter, D!SyncManifest, D!Build, D!vars
  <1>2. Txs(txs') /\ run' \in Run /\ built' \in Nat /\ PaidOnce(txs')
    BY <1>1 DEF DeploymentInv
  <1>3. Good(manifest, txs)' /\ Good(mem, txs)'
    BY <1>1 DEF DeploymentInv, Good, Points, Seen, Vouched, At
  <1>4. Free(manifest, txs, run)' /\ Free(mem, txs, run)'
    BY <1>1 DEF DeploymentInv, Free
  <1>5. InFlight(mem, txs, run)' /\ Vesu(manifest, mem, run)'
    BY <1>1 DEF DeploymentInv, InFlight, Vesu
  <1>6. QED
    BY <1>2, <1>3, <1>4, <1>5 DEF DeploymentInv

LEMMA DeploymentInit == D!Init => DeploymentInv
  <1> SUFFICES ASSUME D!Init PROVE DeploymentInv
    OBVIOUS
  <1>1. manifest = D!Fresh /\ mem = D!Fresh /\ txs = <<>> /\ run = D!Idle /\ built = 1
    BY DEF D!Init
  <1>2. D!Unsent \in D!Record /\ D!Unsent.tx = 0 /\ D!Unsent.block = FALSE
    BY DEF D!Unsent, D!Record
  <1>3. D!Fresh \in D!Manifest
    BY <1>2 DEF D!Fresh, D!Manifest
  <1>4. /\ \A c \in D!Classes : D!Fresh.declare[c] = D!Unsent
        /\ \A p \in D!Parts : D!Fresh.deploy[p] = D!Unsent
        /\ D!Fresh.verified = FALSE /\ "anonymizer" \in D!Classes
    BY DEF D!Fresh, D!Classes
  <1>5. \A kind, what : Slot(kind, what) => Entry(D!Fresh, kind, what).tx = 0
    BY <1>2, <1>4 DEF Slot, Entry, D!RecordOf
  <1>6. Good(D!Fresh, txs)
    BY <1>2, <1>3, <1>4, <1>5 DEF Good, Points, Seen, Vouched
  <1>7. Free(D!Fresh, txs, run) /\ Txs(txs) /\ PaidOnce(txs)
    BY <1>1 DEF Free, Txs, PaidOnce
  <1>8. InFlight(mem, txs, run) /\ Vesu(manifest, mem, run)
    BY <1>1, IdleRun DEF InFlight, Vesu
  <1>9. QED
    BY <1>1, <1>6, <1>7, <1>8, IdleRun DEF DeploymentInv

LEMMA DeploymentNext == DeploymentInv /\ (D!Next \/ UNCHANGED D!vars) => DeploymentInv'
  BY StartSteps, ReconcileSteps, FinishStep, SendSteps, LookSteps, RecordTxStep, WaitStep, KillStep,
     ChainStep, AsideStep, ApproveStep DEF D!Next, D!Scripts

LEMMA SceneDeployment == SceneSpec => []DeploymentInv
  <1>1. SceneInit => DeploymentInv
    BY DeploymentInit DEF SceneInit
  <1>2. DeploymentInv /\ [SceneNext]_<<vars, deployment, scene>> => DeploymentInv'
    <2>1. [SceneNext]_<<vars, deployment, scene>> => D!Next \/ UNCHANGED D!vars
      BY DEF SceneNext, deployment, D!vars
    <2>2. QED
      BY <2>1, DeploymentNext
  <1>3. QED
    BY <1>1, <1>2, PTL DEF SceneSpec

\* Of two transactions for one class or part the earlier was cut off between
\* its sending and its entry in the manifest, whatever was killed, failed,
\* reverted or built in between.
THEOREM NothingPaidTwiceHolds == SceneSpec => []NothingPaidTwice
  BY SceneDeployment, DeploymentSuffices, PTL

\* A manifest marked verified names contracts that exist, in the classes it
\* names, every verified pool bound to its router.
THEOREM VerifiedIsLiveHolds == SceneSpec => []VerifiedIsLive
  BY SceneDeployment, DeploymentSuffices, PTL
=============================================================================
