-------------------------- MODULE CctpRouterProofs --------------------------
(***************************************************************************)
(* Theorems about CctpRouter for every set of pools and of messages, every *)
(* denomination and every clock: an intent is settled once, a settlement   *)
(* passes on what was minted and nothing else, and in the company of the   *)
(* router, of other pools and of anybody with tokens each pool takes only  *)
(* steps of EscrowPool, about which EscrowPoolProofs proves the rest.      *)
(* And about the API at its two ends (Settlement, Quotes): the router      *)
(* takes every message the API lets through, and a quote asks for the      *)
(* least amount that pays, for every rate Circle may state.                *)
(***************************************************************************)
EXTENDS Settlement, NaturalsInduction, WellFoundedInduction, TLAPS

-----------------------------------------------------------------------------
(* An intent is settled once. *)

\* What OneSettlementPerIntent lacks to be inductive: a minted message has
\* spent its intent.
MintedIsProcessed == \A m \in received : m.intent \in processed

\* No two minted messages carry one intent.
THEOREM OneSettlementPerIntentHolds == Spec => []OneSettlementPerIntent
  <1> DEFINE Inv == MintedIsProcessed /\ OneSettlementPerIntent
  <1>1. Init => Inv
    BY DEF Init, MintedIsProcessed, OneSettlementPerIntent
  <1>2. Inv /\ [Next]_vars => Inv'
    <2> SUFFICES ASSUME Inv, [Next]_vars
                 PROVE  Inv'
      OBVIOUS
    <2>1. ASSUME NEW m \in Messages, Settle(m)
          PROVE  Inv'
      <3>1. received' = received \cup {m} /\ processed' = processed \cup {m.intent}
            /\ m.intent \notin processed
        BY <2>1 DEF Settle, RefundUnderfunded, FundPool
      <3>2. QED
        BY <3>1 DEF MintedIsProcessed, OneSettlementPerIntent
    <2>2. CASE UNCHANGED <<processed, received>>
      BY <2>2 DEF MintedIsProcessed, OneSettlementPerIntent
    <2>3. QED
      BY <2>1, <2>2 DEF Next, vars, Pause, Unpause, Tick, SetSourceDomainAdmitted, Donate,
         ClaimNote, RefundPublic, PrivateRefund, DepositPublic, PrivateFund, OnPool,
         routerVars, poolVars
  <1>3. QED
    BY <1>1, <1>2, PTL DEF Spec

-----------------------------------------------------------------------------
(* Types: what the contract's operators make of a storage. *)

LEMMA FundedType ==
    ASSUME NEW s \in Storage, NEW d \in Nat, NEW kind \in FundingKinds,
           NEW h \in ClaimHashes, NEW r \in Recipients \cup {NoRecipient},
           NEW q \in RefundHashes \cup {NoHash}, NEW e \in Nat
    PROVE  /\ Funded(s, d, kind, h, r, q, e) \in Storage
           /\ Funded(s, d, kind, h, r, q, e).liability = s.liability + d
  <1> DEFINE record == [status |-> "FUNDED", kind |-> kind, recipient |-> r,
                        refundHash |-> q, expiresAt |-> e]
  <1>1. record \in ClaimRecord
    BY DEF ClaimRecord, Statuses
  <1> HIDE DEF record
  <1>2. [s.claims EXCEPT ![h] = record] \in [ClaimHashes -> ClaimRecord]
    BY <1>1 DEF Storage
  <1>3. QED
    BY <1>2 DEF Funded, Storage, record

LEMMA FundedPrivateType ==
    ASSUME NEW s \in Storage, NEW d \in Nat,
           NEW h \in ClaimHashes, NEW r \in Recipients \cup {NoRecipient},
           NEW q \in RefundHashes, NEW e \in Nat
    PROVE  /\ FundedPrivate(s, d, h, r, q, e) \in Storage
           /\ FundedPrivate(s, d, h, r, q, e).liability = s.liability + d
  <1> DEFINE t == Funded(s, d, "PRIVATE", h, r, q, e)
  <1>1. t \in Storage /\ t.liability = s.liability + d
    BY FundedType DEF FundingKinds
  <1> HIDE DEF t
  <1>2. [t EXCEPT !.refundToClaim[q] = h] \in Storage
        /\ [t EXCEPT !.refundToClaim[q] = h].liability = s.liability + d
    BY <1>1 DEF Storage
  <1>3. QED
    BY <1>2 DEF FundedPrivate, t

LEMMA ClosedType ==
    ASSUME NEW s \in Storage, NEW d \in Nat, NEW h \in ClaimHashes,
           NEW status \in Statuses, Releasable(s, d)
    PROVE  Closed(s, d, h, status) \in Storage
  <1>1. [s.claims[h] EXCEPT !.status = status] \in ClaimRecord
    BY DEF Storage, ClaimRecord
  <1>2. [s.claims EXCEPT ![h] = [@ EXCEPT !.status = status]] \in [ClaimHashes -> ClaimRecord]
    BY <1>1 DEF Storage
  <1>3. s.liability - d \in Nat
    BY DEF Storage, Releasable
  <1>4. QED
    BY <1>2, <1>3 DEF Closed, Storage

-----------------------------------------------------------------------------
(* Type correctness, one step per action. *)

THEOREM InitTypeOK == Init => TypeOK
  BY CctpRouterAssumption
     DEF Init, TypeOK, EmptyStorage, Storage, NoClaim, ClaimRecord, Statuses, FundingKinds

\* A credit keeps balances natural numbers when the account can bear it.
LEMMA CreditType ==
    ASSUME NEW f \in [Accounts -> Nat], NEW a, NEW x, a \in Accounts => f[a] + x \in Nat
    PROVE  Credit(f, a, x) \in [Accounts -> Nat]
  BY DEF Credit

LEMMA CreditValue ==
    ASSUME NEW f \in [Accounts -> Nat], NEW a, NEW x, NEW b \in Accounts
    PROVE  Credit(f, a, x)[b] = IF b = a THEN f[b] + x ELSE f[b]
  BY DEF Credit

\* A payout leaves natural numbers where it takes tokens, and a storage.
LEMMA PayOutType ==
    ASSUME TypeOK, NEW p \in Pools, NEW h \in ClaimHashes, NEW status \in Statuses,
           Releasable(pools[p], Denom[p]), usdc[p] >= Denom[p]
    PROVE  /\ [pools EXCEPT ![p] = Closed(@, Denom[p], h, status)] \in [Pools -> Storage]
           /\ Credit(usdc, p, - Denom[p]) \in [Accounts -> Nat]
  <1> USE CctpRouterAssumption DEF TypeOK
  <1>1. Closed(pools[p], Denom[p], h, status) \in Storage
    BY ClosedType
  <1>2. usdc[p] \in Nat /\ Denom[p] \in Nat
    BY DEF Accounts
  <1>3. usdc[p] + (- Denom[p]) \in Nat
    BY <1>2
  <1>4. QED
    BY <1>1, <1>3, CreditType

\* The facts about a settlement everything else needs.
LEMMA SettleFacts ==
    ASSUME TypeOK, NEW m \in Messages, Settle(m)
    PROVE  /\ m.minted \in Nat /\ m.denomination \in Nat /\ m.expiresAt \in Nat
           /\ Router \in Accounts /\ usdc \in [Accounts -> Nat] /\ usdc[Router] \in Nat
           /\ m.pool \in Pools /\ m.pool \in Accounts /\ m.pool # Router
           /\ Denom[m.pool] = m.denomination
           /\ Received(usdc[Router], usdc[Router] + m.minted) = m.minted
           /\ RefundUnderfunded(m, m.minted) \/ FundPool(m, m.minted)
           /\ received' = received \cup {m} /\ UNCHANGED <<now, paused, admitted>>
  <1>1. Router \in Accounts /\ usdc \in [Accounts -> Nat] /\ usdc[Router] \in Nat
    BY DEF Accounts, TypeOK
  <1>2. m.minted \in Nat /\ m.denomination \in Nat /\ m.expiresAt \in Nat
    BY CctpRouterAssumption
  <1>3. m.pool \in Pools /\ m.pool \in Accounts /\ m.pool # Router
        /\ Denom[m.pool] = m.denomination
    BY CctpRouterAssumption DEF Settle, ValidBindings, Accounts
  <1>4. Received(usdc[Router], usdc[Router] + m.minted) = m.minted
    BY <1>1, <1>2 DEF Received
  <1>5. QED
    BY <1>1, <1>2, <1>3, <1>4 DEF Settle

\* A funding, with its three transfers one after the other.
LEMMA FundPoolFacts ==
    ASSUME TypeOK, NEW m \in Messages, Settle(m), FundPool(m, m.minted)
    PROVE  LET d == Denom[m.pool]
               surplus == m.minted - m.denomination
               one == Credit(usdc, m.pool, d)
               two == Credit(one, Router, m.minted - d - surplus)
           IN  /\ d \in Nat /\ surplus \in Nat /\ m.minted - d - surplus = 0
               /\ m.claim \in ClaimHashes /\ m.recipient \in Recipients
               /\ one \in [Accounts -> Nat] /\ two \in [Accounts -> Nat]
               /\ two[Router] = usdc[Router]
               /\ usdc' = Credit(two, m.recipient, surplus) /\ usdc' \in [Accounts -> Nat]
               /\ pools' = [pools EXCEPT ![m.pool] =
                               Funded(@, d, "CCTP", m.claim, m.recipient, NoHash, m.expiresAt)]
  <1> DEFINE d == Denom[m.pool]
             surplus == m.minted - m.denomination
             one == Credit(usdc, m.pool, d)
             two == Credit(one, Router, m.minted - d - surplus)
  <1>1. d \in Nat /\ surplus \in Nat /\ m.minted - d - surplus = 0
        /\ m.claim \in ClaimHashes /\ m.recipient \in Recipients
    <2>1. /\ ~(m.minted < m.denomination)
          /\ m.claim \in ClaimHashes /\ m.recipient \in Recipients
      BY CctpRouterAssumption DEF FundPool, Fundable, Underfunded, CanFund
    <2>2. /\ m.minted \in Nat /\ m.denomination \in Nat /\ Denom[m.pool] = m.denomination
      BY SettleFacts
    <2>3. QED
      BY <2>1, <2>2
  <1>2. /\ usdc' = Credit(two, m.recipient, surplus)
        /\ pools' = [pools EXCEPT ![m.pool] =
                        Funded(@, d, "CCTP", m.claim, m.recipient, NoHash, m.expiresAt)]
    BY DEF FundPool
  <1> HIDE DEF d, surplus
  <1>3. usdc[m.pool] + d \in Nat
    BY <1>1, SettleFacts
  <1>4. one \in [Accounts -> Nat] /\ one[Router] = usdc[Router]
    BY <1>3, SettleFacts, CreditType, CreditValue
  <1> HIDE DEF one
  <1>5. one[Router] + (m.minted - d - surplus) = usdc[Router] /\ usdc[Router] \in Nat
    BY <1>1, <1>4, SettleFacts
  <1>6. two \in [Accounts -> Nat] /\ two[Router] = usdc[Router]
    BY <1>4, <1>5, SettleFacts, CreditType, CreditValue
  <1> HIDE DEF two
  <1>7. m.recipient \in Accounts => two[m.recipient] + surplus \in Nat
    BY <1>1, <1>6
  <1>8. usdc' \in [Accounts -> Nat]
    BY <1>2, <1>6, <1>7, CreditType
  <1>9. QED
    BY <1>1, <1>2, <1>4, <1>6, <1>8 DEF d, surplus, one, two

\* A refund, with its two transfers.
LEMMA RefundFacts ==
    ASSUME TypeOK, NEW m \in Messages, Settle(m), RefundUnderfunded(m, m.minted)
    PROVE  /\ UNCHANGED pools /\ m.minted < m.denomination
           /\ LET one == Credit(usdc, Router, m.minted - m.minted)
              IN  /\ one \in [Accounts -> Nat] /\ one[Router] = usdc[Router]
                  /\ usdc' = Credit(one, m.recipient, m.minted)
           /\ usdc' \in [Accounts -> Nat]
  <1> DEFINE one == Credit(usdc, Router, m.minted - m.minted)
  <1>1. /\ UNCHANGED pools /\ m.minted < m.denomination
        /\ usdc' = Credit(one, m.recipient, m.minted)
    BY DEF RefundUnderfunded, Underfunded
  <1>2. usdc[Router] + (m.minted - m.minted) = usdc[Router]
    BY SettleFacts
  <1>3. one \in [Accounts -> Nat] /\ one[Router] = usdc[Router]
    BY <1>2, SettleFacts, CreditType, CreditValue
  <1> HIDE DEF one
  <1>4. m.recipient \in Accounts => one[m.recipient] + m.minted \in Nat
    BY <1>3, SettleFacts
  <1>5. usdc' \in [Accounts -> Nat]
    BY <1>1, <1>3, <1>4, CreditType
  <1>6. QED
    BY <1>1, <1>3, <1>5 DEF one

LEMMA SettleType ==
    ASSUME TypeOK, NEW m \in Messages, Settle(m)
    PROVE  TypeOK'
  <1>1. processed' \subseteq Intents /\ received' \subseteq Messages
        /\ UNCHANGED <<now, paused, admitted>>
    BY DEF TypeOK, Settle, RefundUnderfunded, FundPool, Intents
  <1>2. CASE RefundUnderfunded(m, m.minted)
    BY <1>1, <1>2, RefundFacts DEF TypeOK
  <1>3. CASE FundPool(m, m.minted)
    <2> DEFINE t == Funded(pools[m.pool], Denom[m.pool], "CCTP", m.claim, m.recipient,
                           NoHash, m.expiresAt)
    <2>1. t \in Storage
      BY <1>3, SettleFacts, FundPoolFacts, FundedType DEF TypeOK, FundingKinds
    <2>2. pools' = [pools EXCEPT ![m.pool] = t] /\ usdc' \in [Accounts -> Nat]
      BY <1>3, FundPoolFacts
    <2> HIDE DEF t
    <2>3. QED
      BY <1>1, <2>1, <2>2 DEF TypeOK
  <1>4. QED
    BY <1>2, <1>3, SettleFacts

LEMMA NextTypeOK == TypeOK /\ [Next]_vars => TypeOK'
  <1> SUFFICES ASSUME TypeOK, [Next]_vars
               PROVE  TypeOK'
    OBVIOUS
  <1> USE CctpRouterAssumption DEF TypeOK
  <1>1. ASSUME Pause \/ Unpause \/ Tick
        PROVE  TypeOK'
    <2>1. CASE Pause \/ Unpause
      BY <2>1 DEF Pause, Unpause, poolVars
    <2>2. CASE Tick
      BY <2>2 DEF Tick, routerVars
    <2>3. QED
      BY <1>1, <2>1, <2>2
  <1>2. ASSUME NEW domain \in Domains, NEW open \in BOOLEAN, SetSourceDomainAdmitted(domain, open)
        PROVE  TypeOK'
    BY <1>2 DEF SetSourceDomainAdmitted, poolVars
  <1>3. ASSUME NEW m \in Messages, Settle(m)
        PROVE  TypeOK'
    BY <1>3, SettleType
  <1>4. ASSUME NEW a \in Pools \cup {Router}, NEW amount \in Transfers, Donate(a, amount)
        PROVE  TypeOK'
    <2>1. usdc[a] + amount \in Nat
      BY CctpRouterAssumption DEF Accounts
    <2>2. Credit(usdc, a, amount) \in [Accounts -> Nat]
      BY <2>1, CreditType
    <2>3. QED
      BY <1>4, <2>2 DEF Donate, routerVars
  <1>5. ASSUME NEW p \in Pools, NEW h \in ClaimHashes, ClaimNote(p, h)
        PROVE  TypeOK'
    BY <1>5, PayOutType DEF ClaimNote, CanClaim, OnPool, Statuses, routerVars
  <1>6. ASSUME NEW p \in Pools, NEW h \in ClaimHashes, RefundPublic(p, h)
        PROVE  TypeOK'
    <2> DEFINE one == Credit(usdc, p, - Denom[p])
               r == pools[p].claims[h].recipient
    <2>1. pools' \in [Pools -> Storage] /\ one \in [Accounts -> Nat]
      BY <1>6, PayOutType DEF RefundPublic, CanRefundPublic, Statuses
    <2>2. usdc' = Credit(one, r, Denom[p])
      BY <1>6 DEF RefundPublic
    <2> HIDE DEF one, r
    <2>3. r \in Accounts => one[r] + Denom[p] \in Nat
      BY <2>1
    <2>4. usdc' \in [Accounts -> Nat]
      BY <2>1, <2>2, <2>3, CreditType
    <2>5. QED
      BY <1>6, <2>1, <2>4 DEF RefundPublic, routerVars
  <1>7. ASSUME NEW p \in Pools, NEW q \in RefundHashes, PrivateRefund(p, q)
        PROVE  TypeOK'
    <2>1. pools[p].refundToClaim[q] \in ClaimHashes
      BY <1>7 DEF PrivateRefund, CanRefundPrivate, Storage
    <2>2. QED
      BY <1>7, <2>1, PayOutType DEF PrivateRefund, CanRefundPrivate, OnPool, Statuses, routerVars
  <1>8. ASSUME NEW p \in Pools, NEW h \in ClaimHashes, NEW r \in Recipients, NEW e \in Expiries,
               DepositPublic(p, h, r, e)
        PROVE  TypeOK'
    <2>1. Funded(pools[p], Denom[p], "PUBLIC_DIRECT", h, r, NoHash, e) \in Storage
      BY FundedType DEF FundingKinds
    <2>2. p \in Accounts /\ usdc[p] + Denom[p] \in Nat
      BY DEF Accounts
    <2>3. Credit(usdc, p, Denom[p]) \in [Accounts -> Nat]
      BY <2>2, CreditType
    <2>4. QED
      BY <1>8, <2>1, <2>3 DEF DepositPublic, OnPool, routerVars
  <1>9. ASSUME NEW p \in Pools, NEW h \in ClaimHashes, NEW r \in Recipients, NEW e \in Expiries,
               NEW q \in RefundHashes, NEW moved \in Transfers, PrivateFund(p, h, r, q, e, moved)
        PROVE  TypeOK'
    <2>1. FundedPrivate(pools[p], Denom[p], h, r, q, e) \in Storage
      BY FundedPrivateType
    <2>2. p \in Accounts /\ usdc[p] \in Nat /\ moved \in Nat
      BY DEF Accounts
    <2>3. Credit(usdc, p, moved) \in [Accounts -> Nat]
      BY <2>2, CreditType
    <2>4. QED
      BY <1>9, <2>1, <2>3 DEF PrivateFund, OnPool, routerVars
  <1>10. CASE UNCHANGED vars
    BY <1>10 DEF vars
  <1>11. QED
    BY <1>1, <1>2, <1>3, <1>4, <1>5, <1>6, <1>7, <1>8, <1>9, <1>10 DEF Next

\* Every variable keeps to its type.
THEOREM TypeCorrect == Spec => []TypeOK
  BY InitTypeOK, NextTypeOK, PTL DEF Spec

-----------------------------------------------------------------------------
(* A settlement passes on what was minted. *)

LEMMA RefundPasses ==
    ASSUME TypeOK, NEW m \in Messages, Settle(m), RefundUnderfunded(m, m.minted)
    PROVE  /\ Gained(Router) = 0
           /\ Gained(m.pool) + Gained(m.recipient) = m.minted
           /\ Gained(m.pool) = pools'[m.pool].liability - pools[m.pool].liability
  <1> DEFINE one == Credit(usdc, Router, m.minted - m.minted)
  <1>1. /\ one \in [Accounts -> Nat] /\ usdc' = Credit(one, m.recipient, m.minted)
        /\ UNCHANGED pools
    BY RefundFacts
  <1>2. \A a \in Accounts : one[a] = usdc[a]
    BY SettleFacts, CreditValue
  <1> HIDE DEF one
  <1>3. m.recipient \notin Pools \cup {Router}
        /\ (m.recipient \in Accounts \/ m.minted = 0)
    <2>1. m.recipient \in Recipients \cup {NoRecipient}
      BY CctpRouterAssumption
    <2>2. m.recipient # NoRecipient \/ m.minted = 0
      BY DEF RefundUnderfunded
    <2>3. QED
      BY <2>1, <2>2, CctpRouterAssumption DEF Accounts
  <1>4. usdc'[Router] = usdc[Router] /\ usdc'[m.pool] = usdc[m.pool]
    BY <1>1, <1>2, <1>3, SettleFacts, CreditValue
  <1>5. m.recipient \in Accounts => usdc'[m.recipient] = usdc[m.recipient] + m.minted
    BY <1>1, <1>2, CreditValue
  <1>6. usdc[m.pool] \in Nat /\ (m.recipient \in Accounts => usdc[m.recipient] \in Nat)
    BY SettleFacts
  <1>7. pools[m.pool].liability \in Nat
    BY SettleFacts DEF TypeOK, Storage
  <1>8. Gained(Router) = 0 /\ Gained(m.pool) = 0
    BY <1>4, <1>6, SettleFacts DEF Gained
  <1>9. Gained(m.recipient) = m.minted
    BY <1>3, <1>5, <1>6, SettleFacts, CctpRouterAssumption DEF Gained
  <1>10. QED
    BY <1>1, <1>7, <1>8, <1>9, SettleFacts

LEMMA FundPasses ==
    ASSUME TypeOK, NEW m \in Messages, Settle(m), FundPool(m, m.minted)
    PROVE  /\ Gained(Router) = 0
           /\ Gained(m.pool) + Gained(m.recipient) = m.minted
           /\ Gained(m.pool) = pools'[m.pool].liability - pools[m.pool].liability
  <1> DEFINE d == Denom[m.pool]
             surplus == m.minted - m.denomination
             one == Credit(usdc, m.pool, d)
             two == Credit(one, Router, m.minted - d - surplus)
             t == Funded(pools[m.pool], d, "CCTP", m.claim, m.recipient, NoHash, m.expiresAt)
  <1>1. /\ d \in Nat /\ surplus \in Nat /\ m.minted - d - surplus = 0 /\ d + surplus = m.minted
        /\ m.claim \in ClaimHashes /\ m.recipient \in Recipients
    BY FundPoolFacts, SettleFacts
  <1>2. /\ one \in [Accounts -> Nat] /\ two \in [Accounts -> Nat]
        /\ two[Router] = usdc[Router] /\ usdc' = Credit(two, m.recipient, surplus)
        /\ pools' = [pools EXCEPT ![m.pool] = t]
    BY FundPoolFacts
  <1>3. t.liability = pools[m.pool].liability + d /\ pools[m.pool].liability \in Nat
    <2>1. pools[m.pool] \in Storage /\ m.expiresAt \in Nat
      BY SettleFacts DEF TypeOK
    <2>2. t.liability = pools[m.pool].liability + d
      BY DEF Funded
    <2>3. QED
      BY <2>1, <2>2 DEF Storage
  <1>4. pools'[m.pool] = t
    BY <1>2, SettleFacts DEF TypeOK
  <1>5. \A a \in Accounts \ {Router} : two[a] = one[a]
    BY <1>2, CreditValue
  <1>6. one[m.pool] = usdc[m.pool] + d
        /\ \A a \in Accounts \ {m.pool} : one[a] = usdc[a]
    BY <1>2, SettleFacts, CreditValue
  <1> HIDE DEF d, surplus, one, two, t
  <1>7. m.recipient \in Accounts /\ m.recipient # Router /\ m.recipient # m.pool
    BY <1>1, SettleFacts, CctpRouterAssumption DEF Accounts
  <1>8. /\ usdc'[Router] = usdc[Router]
        /\ usdc'[m.pool] = usdc[m.pool] + d
        /\ usdc'[m.recipient] = usdc[m.recipient] + surplus
    BY <1>2, <1>5, <1>6, <1>7, SettleFacts, CreditValue
  <1>9. usdc[m.pool] \in Nat /\ usdc[m.recipient] \in Nat
    BY <1>7, SettleFacts
  <1>10. Gained(Router) = 0 /\ Gained(m.pool) = d /\ Gained(m.recipient) = surplus
    BY <1>1, <1>7, <1>8, <1>9, SettleFacts DEF Gained
  <1>11. QED
    BY <1>1, <1>3, <1>4, <1>10

\* What a settlement moves is the minted amount, between the pool and the
\* refund recipient, and nothing the router held before.
THEOREM RouterPassesThroughHolds == Spec => RouterPassesThrough
  <1>1. ASSUME TypeOK, [Next]_vars, NEW m \in received' \ received
        PROVE  /\ Gained(Router) = 0
               /\ Gained(m.pool) + Gained(m.recipient) = m.minted
               /\ Gained(m.pool) = pools'[m.pool].liability - pools[m.pool].liability
    <2>1. m \in Messages /\ Settle(m)
      <3>1. \/ UNCHANGED received
            \/ \E n \in Messages : Settle(n)
        BY <1>1 DEF Next, vars, Pause, Unpause, Tick, SetSourceDomainAdmitted, Donate,
           ClaimNote, RefundPublic, PrivateRefund, DepositPublic, PrivateFund, OnPool
      <3>2. PICK n \in Messages : Settle(n)
        BY <1>1, <3>1
      <3>3. received' = received \cup {n}
        BY <3>2 DEF Settle
      <3>4. QED
        BY <1>1, <3>2, <3>3
    <2>2. QED
      BY <1>1, <2>1, SettleFacts, RefundPasses, FundPasses
  <1>2. TypeOK /\ [Next]_vars =>
           [\A m \in received' \ received :
              /\ Gained(Router) = 0
              /\ Gained(m.pool) + Gained(m.recipient) = m.minted
              /\ Gained(m.pool) = pools'[m.pool].liability - pools[m.pool].liability]_vars
    BY <1>1
  <1>3. QED
    BY <1>2, TypeCorrect, PTL DEF Spec, RouterPassesThrough

-----------------------------------------------------------------------------
(* Composed, each pool is an EscrowPool.  StepOf is one step of pool o.    *)

StepOf(o) == PoolOf(o)!Next \/ UNCHANGED PoolOf(o)!vars

\* What happens to another pool is not a step of this one.
LEMMA OtherPoolStutters ==
    ASSUME TypeOK, NEW p \in Pools, NEW o \in Pools, o # p,
           NEW storage, NEW credit, OnPool(p, storage, credit)
    PROVE  StepOf(o)
  <1>1. UNCHANGED <<pools[o], usdc[o], now>>
    BY DEF TypeOK, OnPool, Credit, Accounts
  <1>2. QED
    BY <1>1 DEF StepOf, PoolOf!vars

LEMMA OnPoolValues ==
    ASSUME TypeOK, NEW p \in Pools, NEW storage, NEW credit, OnPool(p, storage, credit)
    PROVE  pools'[p] = storage /\ usdc'[p] = usdc[p] + credit /\ UNCHANGED now
  BY DEF TypeOK, OnPool, Credit, Accounts

LEMMA DonateStep ==
    ASSUME TypeOK, NEW a \in Pools \cup {Router}, NEW amount \in Transfers, Donate(a, amount),
           NEW o \in Pools
    PROVE  StepOf(o)
  <1>1. a \in Accounts /\ o \in Accounts /\ usdc \in [Accounts -> Nat]
    BY DEF Accounts, TypeOK
  <1>2. CASE a = o
    <2>1. PoolOf(o)!Donate(amount)
      BY <1>1, <1>2, CreditValue DEF Donate, PoolOf!Donate
    <2>2. QED
      BY <2>1 DEF StepOf, PoolOf!Next
  <1>3. CASE a # o
    BY <1>1, <1>3, CreditValue DEF Donate, StepOf, PoolOf!vars
  <1>4. QED
    BY <1>2, <1>3

LEMMA ClaimStep ==
    ASSUME TypeOK, NEW p \in Pools, NEW h \in ClaimHashes, ClaimNote(p, h), NEW o \in Pools
    PROVE  StepOf(o)
  <1>1. CASE o = p
    <2>1. usdc[p] \in Nat /\ Denom[p] \in Nat
      BY CctpRouterAssumption DEF TypeOK, Accounts
    <2>2. PoolOf(p)!Claim(h)
      BY <2>1, OnPoolValues DEF ClaimNote, PoolOf!Claim, PoolOf!PayOut, PoolOf!CanClaim,
         PoolOf!Releasable, PoolOf!Closed, CanClaim, Releasable, Closed
    <2>3. QED
      BY <1>1, <2>2 DEF StepOf, PoolOf!Next
  <1>2. QED
    BY <1>1, OtherPoolStutters DEF ClaimNote

LEMMA PrivateRefundStep ==
    ASSUME TypeOK, NEW p \in Pools, NEW q \in RefundHashes, PrivateRefund(p, q), NEW o \in Pools
    PROVE  StepOf(o)
  <1>1. CASE o = p
    <2>1. usdc[p] \in Nat /\ Denom[p] \in Nat
      BY CctpRouterAssumption DEF TypeOK, Accounts
    <2>2. PoolOf(p)!PrivateRefund(q)
      BY <2>1, OnPoolValues DEF PrivateRefund, PoolOf!PrivateRefund, PoolOf!PayOut,
         PoolOf!CanRefundPrivate, PoolOf!Releasable, PoolOf!Closed, CanRefundPrivate,
         Releasable, Closed
    <2>3. QED
      BY <1>1, <2>2 DEF StepOf, PoolOf!Next
  <1>2. QED
    BY <1>1, OtherPoolStutters DEF PrivateRefund

\* The refund of a public claim also credits its recipient, who is no pool.
LEMMA RefundPublicStep ==
    ASSUME TypeOK, NEW p \in Pools, NEW h \in ClaimHashes, RefundPublic(p, h), NEW o \in Pools
    PROVE  StepOf(o)
  <1> DEFINE r == pools[p].claims[h].recipient
             one == Credit(usdc, p, - Denom[p])
  <1>1. r \in Recipients \cup {NoRecipient}
    BY DEF TypeOK, Storage, ClaimRecord
  <1>2. /\ one \in [Accounts -> Nat] /\ usdc' = Credit(one, r, Denom[p])
        /\ pools' = [pools EXCEPT ![p] = Closed(@, Denom[p], h, "REFUNDED")]
        /\ UNCHANGED now
    BY PayOutType DEF RefundPublic, CanRefundPublic, Statuses
  <1>3. o \in Accounts /\ p \in Accounts /\ r # o /\ usdc \in [Accounts -> Nat]
        /\ Denom[p] \in Nat
    BY <1>1, CctpRouterAssumption DEF Accounts, TypeOK
  <1>4. one[o] = IF o = p THEN usdc[o] + (- Denom[p]) ELSE usdc[o]
    BY <1>3, CreditValue
  <1> HIDE DEF one, r
  <1>5. usdc'[o] = one[o]
    BY <1>2, <1>3, CreditValue
  <1>6. CASE o = p
    <2>1. usdc'[p] = usdc[p] - Denom[p]
      BY <1>3, <1>4, <1>5, <1>6
    <2>2. pools'[p] = Closed(pools[p], Denom[p], h, "REFUNDED")
      BY <1>2 DEF TypeOK
    <2>3. PoolOf(p)!RefundPublic(h)
      BY <1>2, <2>1, <2>2 DEF RefundPublic, PoolOf!RefundPublic, PoolOf!PayOut,
         PoolOf!CanRefundPublic, PoolOf!Releasable, PoolOf!Closed, CanRefundPublic,
         Releasable, Closed
    <2>4. QED
      BY <1>6, <2>3 DEF StepOf, PoolOf!Next
  <1>7. CASE o # p
    <2>1. pools'[o] = pools[o]
      BY <1>2, <1>7
    <2>2. QED
      BY <1>2, <1>4, <1>5, <1>7, <2>1 DEF StepOf, PoolOf!vars
  <1>8. QED
    BY <1>6, <1>7

LEMMA DepositStep ==
    ASSUME TypeOK, NEW p \in Pools, NEW h \in ClaimHashes, NEW r \in Recipients,
           NEW e \in Expiries, DepositPublic(p, h, r, e), NEW o \in Pools
    PROVE  StepOf(o)
  <1>1. CASE o = p
    <2>1. PoolOf(p)!DepositPublic(h, r, e)
      BY OnPoolValues DEF DepositPublic, PoolOf!DepositPublic, PoolOf!FundWithTransfer,
         PoolOf!CanFund, PoolOf!NewClaim, PoolOf!FutureExpiry, PoolOf!Collateralized,
         PoolOf!Funded, CanFund, NewClaim, FutureExpiry, Collateralized, Funded
    <2>2. QED
      BY <1>1, <2>1 DEF StepOf, PoolOf!Next, PoolOf!AnyHash, PoolOf!AnyRecipient
  <1>2. QED
    BY <1>1, OtherPoolStutters DEF DepositPublic

LEMMA PrivateFundStep ==
    ASSUME TypeOK, NEW p \in Pools, NEW h \in ClaimHashes, NEW r \in Recipients,
           NEW e \in Expiries, NEW q \in RefundHashes, NEW moved \in Transfers,
           PrivateFund(p, h, r, q, e, moved), NEW o \in Pools
    PROVE  StepOf(o)
  <1>1. CASE o = p
    <2>1. PoolOf(p)!PrivateFund(h, r, q, e, moved, Denom[p])
      BY OnPoolValues DEF PrivateFund, PoolOf!PrivateFund, PoolOf!CanFundPrivate,
         PoolOf!NewClaim, PoolOf!FutureExpiry, PoolOf!Collateralized, PoolOf!FundedPrivate,
         PoolOf!Funded, CanFundPrivate, NewClaim, FutureExpiry, Collateralized,
         FundedPrivate, Funded
    <2>2. Denom[p] \in Transfers
      BY CctpRouterAssumption
    <2>3. QED
      BY <1>1, <2>1, <2>2 DEF StepOf, PoolOf!Next, PoolOf!AnyHash, PoolOf!AnyRecipient,
         PoolOf!AnyRefundHash
  <1>2. QED
    BY <1>1, OtherPoolStutters DEF PrivateFund

\* A settlement funds one pool as the router may, or touches none.
LEMMA SettleStep ==
    ASSUME TypeOK, NEW m \in Messages, Settle(m), NEW o \in Pools
    PROVE  StepOf(o)
  <1>1. o \in Accounts /\ o # Router /\ o \notin Recipients \cup {NoRecipient}
        /\ m.recipient \in Recipients \cup {NoRecipient}
    BY CctpRouterAssumption DEF Accounts
  <1>2. CASE RefundUnderfunded(m, m.minted)
    <2> DEFINE one == Credit(usdc, Router, m.minted - m.minted)
    <2>1. one \in [Accounts -> Nat] /\ usdc' = Credit(one, m.recipient, m.minted)
          /\ UNCHANGED pools
      BY <1>2, RefundFacts
    <2>2. one[o] = usdc[o]
      BY <1>1, SettleFacts, CreditValue
    <2> HIDE DEF one
    <2>3. usdc'[o] = usdc[o]
      BY <1>1, <2>1, <2>2, CreditValue
    <2>4. QED
      BY <2>1, <2>3, SettleFacts DEF StepOf, PoolOf!vars
  <1>3. CASE FundPool(m, m.minted)
    <2> DEFINE d == Denom[m.pool]
               surplus == m.minted - m.denomination
               one == Credit(usdc, m.pool, d)
               two == Credit(one, Router, m.minted - d - surplus)
               t == Funded(pools[m.pool], d, "CCTP", m.claim, m.recipient, NoHash, m.expiresAt)
    <2>1. /\ one \in [Accounts -> Nat] /\ two \in [Accounts -> Nat]
          /\ usdc' = Credit(two, m.recipient, surplus) /\ pools' = [pools EXCEPT ![m.pool] = t]
          /\ m.claim \in ClaimHashes /\ m.recipient \in Recipients
      BY <1>3, FundPoolFacts
    <2>2. one[o] = IF o = m.pool THEN usdc[o] + d ELSE usdc[o]
      BY <1>1, SettleFacts, CreditValue
    <2> HIDE DEF one
    <2>3. two[o] = one[o]
      BY <1>1, <2>1, CreditValue
    <2> HIDE DEF two
    <2>4. usdc'[o] = IF o = m.pool THEN usdc[o] + d ELSE usdc[o]
      BY <1>1, <2>1, <2>2, <2>3, CreditValue
    <2>5. pools'[o] = IF o = m.pool THEN t ELSE pools[o]
      BY <2>1 DEF TypeOK
    <2>6. CASE o = m.pool
      <3>1. /\ CanFund(pools[o], m.claim, m.recipient, m.expiresAt, now)
            /\ Collateralized(pools[o], d, usdc[o] + d)
            /\ m.expiresAt \in Expiries /\ UNCHANGED now
        BY <1>3, <2>6, SettleFacts, CctpRouterAssumption DEF FundPool, Fundable
      <3>2. PoolOf(o)!FundFromRouter(m.claim, m.recipient, m.expiresAt)
        BY <2>4, <2>5, <2>6, <3>1 DEF PoolOf!FundFromRouter, PoolOf!FundWithTransfer,
           PoolOf!CanFund, PoolOf!NewClaim, PoolOf!FutureExpiry, PoolOf!Collateralized,
           PoolOf!Funded, CanFund, NewClaim, FutureExpiry, Collateralized, Funded
      <3>3. QED
        BY <2>1, <3>1, <3>2 DEF StepOf, PoolOf!Next, PoolOf!AnyHash, PoolOf!AnyRecipient
    <2>7. CASE o # m.pool
      BY <2>4, <2>5, <2>7, SettleFacts DEF StepOf, PoolOf!vars
    <2>8. QED
      BY <2>6, <2>7
  <1>4. QED
    BY <1>2, <1>3, SettleFacts

LEMMA PoolSteps ==
    ASSUME TypeOK, [Next]_vars, NEW o \in Pools
    PROVE  StepOf(o)
  <1>1. CASE Pause \/ Unpause \/ UNCHANGED vars
             \/ \E domain \in Domains, open \in BOOLEAN : SetSourceDomainAdmitted(domain, open)
    BY <1>1 DEF Pause, Unpause, SetSourceDomainAdmitted, poolVars, vars, StepOf, PoolOf!vars
  <1>2. CASE Tick
    <2>1. PoolOf(o)!Tick
      BY <1>2 DEF Tick, PoolOf!Tick
    <2>2. QED
      BY <2>1 DEF StepOf, PoolOf!Next
  <1>3. QED
    BY <1>1, <1>2, DonateStep, ClaimStep, RefundPublicStep, PrivateRefundStep,
       DepositStep, PrivateFundStep, SettleStep DEF Next

\* With the router, other pools and anybody's transfers around it, every
\* pool starts as EscrowPool does and takes only EscrowPool's steps, so what
\* EscrowPoolProofs proves of one pool holds of each.
THEOREM PoolsAreEscrowsHolds == Spec => PoolsAreEscrows
  <1>1. Init => \A p \in Pools : PoolOf(p)!Init
    BY DEF Init, Accounts, PoolOf!Init, PoolOf!EmptyStorage, EmptyStorage, PoolOf!NoClaim, NoClaim
  <1>2. TypeOK /\ [Next]_vars => [\A p \in Pools : UNCHANGED PoolOf(p)!vars \/ PoolOf(p)!Next]_vars
    BY PoolSteps DEF StepOf
  <1>3. QED
    BY <1>1, <1>2, TypeCorrect, PTL DEF Spec, PoolsAreEscrows

-----------------------------------------------------------------------------
(* The claims that came by CCTP are the funded burns, one to one.          *)

Funding(m) == m.minted >= m.denomination

BurnsAreClaims ==
    \A m \in received :
        /\ m \in Messages /\ m.pool \in Pools /\ Denom[m.pool] = m.denomination
        /\ Funding(m) => /\ m.claim \in ClaimHashes
                         /\ SameTerms(m, m.pool, m.claim)
                         /\ pools[m.pool].claims[m.claim].kind = "CCTP"
                         /\ pools[m.pool].claims[m.claim].status # "NONE"

ClaimsAreBurns ==
    \A p \in Pools, h \in ClaimHashes :
        pools[p].claims[h].kind = "CCTP" => \E m \in received : SameTerms(m, p, h)

OneBurnPerClaim ==
    \A m, n \in received :
        Funding(m) /\ Funding(n) /\ m.pool = n.pool /\ m.claim = n.claim => m = n

\* The strengthening of CctpClaimsAreBurns, and why it implies it: a burn of
\* the same terms as a claim brought enough, so it is one of the funding ones.
CctpInv == TypeOK /\ BurnsAreClaims /\ ClaimsAreBurns /\ OneBurnPerClaim

LEMMA CctpInvSuffices == CctpInv => CctpClaimsAreBurns
  <1> SUFFICES ASSUME CctpInv PROVE CctpClaimsAreBurns
    OBVIOUS
  <1> USE DEF CctpInv
  <1>1. ASSUME NEW n \in received, NEW p \in Pools, NEW h \in ClaimHashes, SameTerms(n, p, h)
        PROVE  Funding(n) /\ n.pool = p /\ n.claim = h
    BY <1>1 DEF SameTerms, BurnsAreClaims, Funding
  <1>2. ASSUME NEW p \in Pools, NEW h \in ClaimHashes, pools[p].claims[h].kind = "CCTP"
        PROVE  \E m \in received : /\ SameTerms(m, p, h)
                                   /\ \A n \in received : SameTerms(n, p, h) => n = m
    <2>1. PICK m \in received : SameTerms(m, p, h)
      BY <1>2 DEF ClaimsAreBurns
    <2>2. \A n \in received : SameTerms(n, p, h) => n = m
      BY <1>1, <2>1 DEF OneBurnPerClaim
    <2>3. QED
      BY <2>1, <2>2
  <1>3. QED
    BY <1>2 DEF CctpClaimsAreBurns, BurnsAreClaims, Funding

\* A claim keeps its terms, or it is a new one that did not come by CCTP.
KeptOrOther(p, h) ==
    LET c == pools[p].claims[h]
        d == pools'[p].claims[h]
    IN  \/ /\ d.kind = c.kind /\ d.recipient = c.recipient /\ d.expiresAt = c.expiresAt
           /\ c.status # "NONE" => d.status # "NONE"
        \/ c.status = "NONE" /\ d.kind # "CCTP"

\* What stays true when no burn is funded.
LEMMA KeptSuffices ==
    ASSUME CctpInv, TypeOK', \A p \in Pools, h \in ClaimHashes : KeptOrOther(p, h),
           \/ UNCHANGED received
           \/ \E m \in Messages : /\ received' = received \cup {m} /\ ~Funding(m)
                                  /\ m.pool \in Pools /\ Denom[m.pool] = m.denomination
    PROVE  CctpInv'
  <1>1. BurnsAreClaims'
    <2>1. ASSUME NEW m \in received', Funding(m)
          PROVE  m \in received
      BY <2>1
    <2>2. ASSUME NEW m \in received', Funding(m)
          PROVE  /\ m.claim \in ClaimHashes
                 /\ SameTerms(m, m.pool, m.claim)'
                 /\ pools'[m.pool].claims[m.claim].kind = "CCTP"
                 /\ pools'[m.pool].claims[m.claim].status # "NONE"
      <3>1. /\ m.pool \in Pools /\ m.claim \in ClaimHashes /\ SameTerms(m, m.pool, m.claim)
            /\ pools[m.pool].claims[m.claim].kind = "CCTP"
            /\ pools[m.pool].claims[m.claim].status # "NONE"
        BY <2>1, <2>2 DEF CctpInv, BurnsAreClaims
      <3>2. KeptOrOther(m.pool, m.claim)
        BY <3>1
      <3>3. QED
        BY <3>1, <3>2 DEF KeptOrOther, SameTerms
    <2>3. \A m \in received' :
             m \in Messages /\ m.pool \in Pools /\ Denom[m.pool] = m.denomination
      BY DEF CctpInv, BurnsAreClaims
    <2>4. QED
      BY <2>2, <2>3 DEF BurnsAreClaims, Funding
  <1>2. ClaimsAreBurns'
    <2>1. ASSUME NEW p \in Pools, NEW h \in ClaimHashes, pools'[p].claims[h].kind = "CCTP"
          PROVE  \E m \in received' : SameTerms(m, p, h)'
      <3>1. KeptOrOther(p, h)
        OBVIOUS
      <3>2. PICK m \in received : SameTerms(m, p, h)
        BY <2>1, <3>1 DEF KeptOrOther, CctpInv, ClaimsAreBurns
      <3>3. m \in received' /\ SameTerms(m, p, h)'
        BY <2>1, <3>1, <3>2 DEF KeptOrOther, SameTerms
      <3>4. QED
        BY <3>3
    <2>2. QED
      BY <2>1 DEF ClaimsAreBurns
  <1>3. OneBurnPerClaim'
    BY DEF CctpInv, OneBurnPerClaim, Funding
  <1>4. QED
    BY <1>1, <1>2, <1>3 DEF CctpInv

\* A funded burn takes a claim hash nobody has used.
LEMMA FundPoolCctp ==
    ASSUME CctpInv, TypeOK', NEW m \in Messages, Settle(m), FundPool(m, m.minted)
    PROVE  CctpInv'
  <1> DEFINE t == Funded(pools[m.pool], Denom[m.pool], "CCTP", m.claim, m.recipient, NoHash,
                         m.expiresAt)
  <1>1. /\ pools' = [pools EXCEPT ![m.pool] = t] /\ m.claim \in ClaimHashes
        /\ received' = received \cup {m}
        /\ m.pool \in Pools /\ Denom[m.pool] = m.denomination
        /\ m.minted \in Nat /\ m.denomination \in Nat
    BY SettleFacts, FundPoolFacts DEF CctpInv
  <1>2. pools[m.pool].claims[m.claim].status = "NONE" /\ Funding(m)
    BY <1>1, SettleFacts DEF FundPool, Fundable, CanFund, NewClaim, Underfunded, Funding, CctpInv
  <1>3. /\ t.claims[m.claim] = [status |-> "FUNDED", kind |-> "CCTP", recipient |-> m.recipient,
                                refundHash |-> NoHash, expiresAt |-> m.expiresAt]
        /\ \A h \in ClaimHashes \ {m.claim} : t.claims[h] = pools[m.pool].claims[h]
    BY <1>1 DEF Funded, CctpInv, TypeOK, Storage
  <1> HIDE DEF t
  <1>4. /\ pools'[m.pool] = t
        /\ \A p \in Pools \ {m.pool} : pools'[p] = pools[p]
    BY <1>1 DEF CctpInv, TypeOK
  <1>5. ASSUME NEW n \in received, Funding(n)
        PROVE  ~(n.pool = m.pool /\ n.claim = m.claim)
    BY <1>2, <1>5 DEF CctpInv, BurnsAreClaims
  <1>6. SameTerms(m, m.pool, m.claim)' /\ pools'[m.pool].claims[m.claim].kind = "CCTP"
        /\ pools'[m.pool].claims[m.claim].status # "NONE"
    BY <1>1, <1>2, <1>3, <1>4 DEF SameTerms, Funding
  <1>7. \A p \in Pools, h \in ClaimHashes :
           ~(p = m.pool /\ h = m.claim) => pools'[p].claims[h] = pools[p].claims[h]
    BY <1>3, <1>4
  <1>8. BurnsAreClaims'
    <2>1. ASSUME NEW n \in received
          PROVE  /\ n \in Messages /\ n.pool \in Pools /\ Denom[n.pool] = n.denomination
                 /\ Funding(n) => /\ n.claim \in ClaimHashes
                                  /\ SameTerms(n, n.pool, n.claim)'
                                  /\ pools'[n.pool].claims[n.claim].kind = "CCTP"
                                  /\ pools'[n.pool].claims[n.claim].status # "NONE"
      BY <1>5, <1>7 DEF CctpInv, BurnsAreClaims, SameTerms
    <2>2. QED
      BY <1>1, <1>6, <2>1 DEF BurnsAreClaims, Funding
  <1>9. ClaimsAreBurns'
    <2>1. ASSUME NEW p \in Pools, NEW h \in ClaimHashes, pools'[p].claims[h].kind = "CCTP"
          PROVE  \E n \in received' : SameTerms(n, p, h)'
      <3>1. CASE p = m.pool /\ h = m.claim
        BY <1>1, <1>6, <3>1
      <3>2. CASE ~(p = m.pool /\ h = m.claim)
        <4>1. PICK n \in received : SameTerms(n, p, h)
          BY <1>7, <2>1, <3>2 DEF CctpInv, ClaimsAreBurns
        <4>2. n \in received' /\ SameTerms(n, p, h)'
          BY <1>1, <1>7, <3>2, <4>1 DEF SameTerms
        <4>3. QED
          BY <4>2
      <3>3. QED
        BY <3>1, <3>2
    <2>2. QED
      BY <2>1 DEF ClaimsAreBurns
  <1>10. OneBurnPerClaim'
    BY <1>1, <1>5 DEF CctpInv, OneBurnPerClaim, Funding
  <1>11. QED
    BY <1>8, <1>9, <1>10 DEF CctpInv

LEMMA OnPoolKept ==
    ASSUME TypeOK, NEW p \in Pools, NEW storage, NEW credit, OnPool(p, storage, credit),
           NEW o \in Pools, NEW g \in ClaimHashes,
           LET c == pools[p].claims[g]
               d == storage.claims[g]
           IN  \/ /\ d.kind = c.kind /\ d.recipient = c.recipient /\ d.expiresAt = c.expiresAt
                  /\ c.status # "NONE" => d.status # "NONE"
               \/ c.status = "NONE" /\ d.kind # "CCTP"
    PROVE  KeptOrOther(o, g)
  BY DEF TypeOK, OnPool, KeptOrOther

LEMMA ClosedKept ==
    ASSUME NEW s \in Storage, NEW d, NEW h \in ClaimHashes, NEW g \in ClaimHashes,
           NEW status \in Statuses \ {"NONE"}
    PROVE  LET c == s.claims[g]
               e == Closed(s, d, h, status).claims[g]
           IN  /\ e.kind = c.kind /\ e.recipient = c.recipient /\ e.expiresAt = c.expiresAt
               /\ c.status # "NONE" => e.status # "NONE"
  <1>1. s.claims \in [ClaimHashes -> ClaimRecord]
    BY DEF Storage
  <1>2. Closed(s, d, h, status).claims[g] =
           IF g = h THEN [s.claims[h] EXCEPT !.status = status] ELSE s.claims[g]
    BY <1>1 DEF Closed
  <1>3. s.claims[h] \in ClaimRecord
    BY <1>1
  <1>4. QED
    BY <1>2, <1>3 DEF ClaimRecord

\* The claims in a pool and the burns Circle has minted match one to one.
THEOREM CctpClaimsAreBurnsHolds == Spec => []CctpClaimsAreBurns
  <1>1. Init => CctpInv
    <2> SUFFICES ASSUME Init PROVE CctpInv
      OBVIOUS
    <2>1. \A p \in Pools, h \in ClaimHashes : pools[p].claims[h].kind = "NO_KIND"
      BY DEF Init, EmptyStorage, NoClaim
    <2>2. QED
      BY <2>1, InitTypeOK
         DEF Init, CctpInv, BurnsAreClaims, ClaimsAreBurns, OneBurnPerClaim
  <1>2. CctpInv /\ [Next]_vars => CctpInv'
    <2> SUFFICES ASSUME CctpInv, [Next]_vars PROVE CctpInv'
      OBVIOUS
    <2>1. TypeOK /\ TypeOK'
      BY NextTypeOK DEF CctpInv
    <2>2. CASE UNCHANGED <<pools, received>>
      BY <2>1, <2>2, KeptSuffices DEF KeptOrOther
    <2>3. ASSUME NEW m \in Messages, Settle(m)
          PROVE  CctpInv'
      <3>1. CASE RefundUnderfunded(m, m.minted)
        <4>1. UNCHANGED pools /\ ~Funding(m)
          BY <2>1, <2>3, <3>1, RefundFacts, SettleFacts DEF Funding
        <4>2. QED
          BY <2>1, <2>3, <4>1, SettleFacts, KeptSuffices DEF KeptOrOther
      <3>2. CASE FundPool(m, m.minted)
        BY <2>1, <2>3, <3>2, FundPoolCctp
      <3>3. QED
        BY <2>1, <2>3, <3>1, <3>2, SettleFacts
    <2>4. ASSUME NEW p \in Pools, NEW h \in ClaimHashes, ClaimNote(p, h)
          PROVE  CctpInv'
      <3>1. \A o \in Pools, g \in ClaimHashes : KeptOrOther(o, g)
        BY <2>1, <2>4, ClosedKept, OnPoolKept DEF ClaimNote, Statuses, TypeOK
      <3>2. QED
        BY <2>1, <2>4, <3>1, KeptSuffices DEF ClaimNote, OnPool
    <2>5. ASSUME NEW p \in Pools, NEW q \in RefundHashes, PrivateRefund(p, q)
          PROVE  CctpInv'
      <3>1. pools[p].refundToClaim[q] \in ClaimHashes
        BY <2>1, <2>5 DEF PrivateRefund, CanRefundPrivate, TypeOK, Storage
      <3>2. \A o \in Pools, g \in ClaimHashes : KeptOrOther(o, g)
        BY <2>1, <2>5, <3>1, ClosedKept, OnPoolKept DEF PrivateRefund, Statuses, TypeOK
      <3>3. QED
        BY <2>1, <2>5, <3>2, KeptSuffices DEF PrivateRefund, OnPool
    <2>6. ASSUME NEW p \in Pools, NEW h \in ClaimHashes, RefundPublic(p, h)
          PROVE  CctpInv'
      <3>1. pools' = [pools EXCEPT ![p] = Closed(@, Denom[p], h, "REFUNDED")]
            /\ UNCHANGED received
        BY <2>6 DEF RefundPublic
      <3>2. \A o \in Pools, g \in ClaimHashes : KeptOrOther(o, g)
        BY <2>1, <3>1, ClosedKept DEF KeptOrOther, Statuses, TypeOK
      <3>3. QED
        BY <2>1, <3>1, <3>2, KeptSuffices
    <2>7. ASSUME NEW p \in Pools, NEW h \in ClaimHashes, NEW r \in Recipients, NEW e \in Expiries,
                 DepositPublic(p, h, r, e)
          PROVE  CctpInv'
      <3>1. pools[p].claims[h].status = "NONE"
        BY <2>7 DEF DepositPublic, CanFund, NewClaim
      <3>2. \A g \in ClaimHashes :
               Funded(pools[p], Denom[p], "PUBLIC_DIRECT", h, r, NoHash, e).claims[g] =
                  IF g = h THEN [status |-> "FUNDED", kind |-> "PUBLIC_DIRECT", recipient |-> r,
                                 refundHash |-> NoHash, expiresAt |-> e]
                           ELSE pools[p].claims[g]
        BY <2>1 DEF Funded, TypeOK, Storage
      <3>3. \A o \in Pools, g \in ClaimHashes : KeptOrOther(o, g)
        BY <2>1, <2>7, <3>1, <3>2, OnPoolKept DEF DepositPublic
      <3>4. QED
        BY <2>1, <2>7, <3>3, KeptSuffices DEF DepositPublic, OnPool
    <2>8. ASSUME NEW p \in Pools, NEW h \in ClaimHashes, NEW r \in Recipients, NEW e \in Expiries,
                 NEW q \in RefundHashes, NEW moved \in Transfers, PrivateFund(p, h, r, q, e, moved)
          PROVE  CctpInv'
      <3>1. pools[p].claims[h].status = "NONE"
        BY <2>8 DEF PrivateFund, CanFundPrivate, NewClaim
      <3>2. \A g \in ClaimHashes :
               FundedPrivate(pools[p], Denom[p], h, r, q, e).claims[g] =
                  IF g = h THEN [status |-> "FUNDED", kind |-> "PRIVATE", recipient |-> r,
                                 refundHash |-> q, expiresAt |-> e]
                           ELSE pools[p].claims[g]
        BY <2>1 DEF FundedPrivate, Funded, TypeOK, Storage
      <3>3. \A o \in Pools, g \in ClaimHashes : KeptOrOther(o, g)
        BY <2>1, <2>8, <3>1, <3>2, OnPoolKept DEF PrivateFund
      <3>4. QED
        BY <2>1, <2>8, <3>3, KeptSuffices DEF PrivateFund, OnPool
    <2>9. QED
      <3>1. CASE Pause \/ Unpause \/ Tick \/ UNCHANGED vars
                 \/ (\E domain \in Domains, open \in BOOLEAN :
                       SetSourceDomainAdmitted(domain, open))
                 \/ (\E a \in Pools \cup {Router}, amount \in Transfers : Donate(a, amount))
        <4>1. UNCHANGED <<pools, received>>
          BY <3>1 DEF Pause, Unpause, Tick, SetSourceDomainAdmitted, Donate, poolVars,
             routerVars, vars
        <4>2. QED
          BY <2>2, <4>1
      <3>2. QED
        BY <2>3, <2>4, <2>5, <2>6, <2>7, <2>8, <3>1 DEF Next
  <1>3. QED
    BY <1>1, <1>2, CctpInvSuffices, PTL DEF Spec

-----------------------------------------------------------------------------
(* What the API lets through, the router takes.                            *)

\* What ValidatedSettles rests on: no pool owes more than it holds.
Covered == \A p \in Pools : usdc[p] >= pools[p].liability

LEMMA CoveredKept ==
    ASSUME TypeOK, Covered, NEW o \in Pools, StepOf(o)
    PROVE  usdc'[o] >= pools'[o].liability
  <1> DEFINE d == Denom[o]
             was == pools[o].liability
             held == usdc[o]
  <1>1. d \in Nat /\ was \in Nat /\ held \in Nat /\ held >= was
    BY CctpRouterAssumption DEF Covered, TypeOK, Storage, Accounts
  <1>2. ASSUME NEW s, NEW kind, NEW h, NEW r, NEW q, NEW e
        PROVE  /\ PoolOf(o)!Funded(s, d, kind, h, r, q, e).liability = s.liability + d
               /\ PoolOf(o)!FundedPrivate(s, d, h, r, q, e).liability = s.liability + d
    BY DEF PoolOf!Funded, PoolOf!FundedPrivate
  <1>3. ASSUME NEW h, NEW status, PoolOf(o)!PayOut(h, status), PoolOf(o)!Releasable(pools[o], d)
        PROVE  usdc'[o] >= pools'[o].liability
    <2>1. pools'[o].liability = was - d /\ usdc'[o] = held - d
      BY <1>3 DEF PoolOf!PayOut, PoolOf!Closed
    <2>2. QED
      BY <1>1, <2>1
  <1>4. ASSUME NEW kind, NEW h, NEW r, NEW e, PoolOf(o)!FundWithTransfer(kind, h, r, e)
        PROVE  usdc'[o] >= pools'[o].liability
    <2>1. pools'[o].liability = was + d /\ usdc'[o] = held + d
      BY <1>4, <1>2 DEF PoolOf!FundWithTransfer
    <2>2. QED
      BY <1>1, <2>1
  <1>5. ASSUME NEW h, NEW r, NEW q, NEW e, NEW moved, NEW provided,
               PoolOf(o)!PrivateFund(h, r, q, e, moved, provided)
        PROVE  usdc'[o] >= pools'[o].liability
    <2>1. /\ pools'[o].liability = was + d /\ usdc'[o] = held + moved
          /\ held + moved >= was + d
      BY <1>5, <1>2 DEF PoolOf!PrivateFund, PoolOf!CanFundPrivate, PoolOf!Collateralized
    <2>2. QED
      BY <2>1
  <1>6. ASSUME NEW amount \in Transfers, PoolOf(o)!Donate(amount)
        PROVE  usdc'[o] >= pools'[o].liability
    <2>1. pools'[o].liability = was /\ usdc'[o] = held + amount /\ amount \in Nat
      BY <1>6, CctpRouterAssumption DEF PoolOf!Donate
    <2>2. QED
      BY <1>1, <2>1
  <1>7. CASE PoolOf(o)!Tick \/ UNCHANGED PoolOf(o)!vars
    BY <1>1, <1>7 DEF PoolOf!Tick, PoolOf!vars
  <1>8. QED
    BY <1>3, <1>4, <1>5, <1>6, <1>7
       DEF StepOf, PoolOf!Next, PoolOf!DepositPublic, PoolOf!FundFromRouter, PoolOf!Claim,
           PoolOf!RefundPublic, PoolOf!PrivateRefund, PoolOf!CanClaim,
           PoolOf!CanRefundPublic, PoolOf!CanRefundPrivate

LEMMA AlwaysCovered == Spec => [](TypeOK /\ Covered)
  <1>1. Init => TypeOK /\ Covered
    BY InitTypeOK DEF Init, Covered, Accounts, EmptyStorage
  <1>2. TypeOK /\ Covered /\ [Next]_vars => (TypeOK /\ Covered)'
    BY NextTypeOK, PoolSteps, CoveredKept DEF Covered
  <1>3. QED
    BY <1>1, <1>2, PTL DEF Spec

\* The pool looked up is the one pool of the denomination.
LEMMA PoolForIs ==
    ASSUME NEW denomination \in {Denom[p] : p \in Pools}
    PROVE  PoolFor(denomination) \in Pools /\ Denom[PoolFor(denomination)] = denomination
  <1>1. \E p \in Pools : Denom[p] = denomination
    OBVIOUS
  <1>2. QED
    BY <1>1 DEF PoolFor

\* Of a message that passes every check, the router asks nothing more.
LEMMA LetThrough ==
    ASSUME NEW d \in ToSubmit
    PROVE  LET m == AsMessage(d)
           IN  /\ ValidBindings(m) /\ m.pool \in Pools /\ m.denomination = Denom[m.pool]
               /\ m.minted \in Int /\ m.minted >= m.denomination
  <1>1. PICK job \in Jobs : validateSettlement(d, job)
    BY DEF ToSubmit
  <1>2. /\ d.destination = 25 /\ d.destinationCaller = Router /\ d.mintRecipient = Router
        /\ d.recipient = TokenMessenger
    BY <1>1 DEF validateSettlement, HeaderOk
  <1>3. /\ job.denomination \in {Denom[p] : p \in Pools}
        /\ d.pool = PoolFor(job.denomination) /\ d.denomination = job.denomination
    BY <1>1 DEF validateSettlement, HookOk
  <1>4. d.pool \in Pools /\ Denom[d.pool] = d.denomination
    BY <1>3, PoolForIs
  <1>5. d.amount - d.feeExecuted >= d.denomination
    BY <1>1, <1>3 DEF validateSettlement, FeeOk
  <1>6. d \in Decoded /\ d.amount - d.feeExecuted \in Int
    BY SettlementAssumption DEF ToSubmit
  <1>7. QED
    BY <1>2, <1>4, <1>5, <1>6 DEF AsMessage, ValidBindings

\* A message the API lets through is one the router takes: validateSettlement
\* leaves nothing for settle_cctp to refuse but the owner's switches, a
\* settled intent, and a claim that is taken or has expired, and it is never
\* sent on to the refund recipient as too little.
THEOREM ValidatedSettlesHolds == Spec => []ValidatedSettles
  <1>1. ASSUME TypeOK, Covered, NEW d \in ToSubmit
        PROVE  LET m == AsMessage(d)
               IN  /\ ValidBindings(m)
                   /\ ~Underfunded(m.minted, m.denomination)
                   /\ CanFund(pools[m.pool], m.claim, m.recipient, m.expiresAt, now) =>
                         Fundable(m, m.minted)
    <2> DEFINE m == AsMessage(d)
               a == Denom[m.pool]
               held == usdc[Router]
               owed == pools[m.pool].liability
    <2>1. /\ ValidBindings(m) /\ m.pool \in Pools /\ m.denomination = a
          /\ m.minted \in Int /\ m.minted >= m.denomination
      BY LetThrough
    <2>2. a \in Nat /\ held \in Nat /\ owed \in Nat /\ usdc[m.pool] \in Nat /\ usdc[m.pool] >= owed
      BY <1>1, <2>1, CctpRouterAssumption DEF Covered, TypeOK, Storage, Accounts
    <2> HIDE DEF m, a, held, owed
    <2>3. ~(m.minted < m.denomination)
      BY <2>1, <2>2
    <2>4. /\ a <= m.denomination /\ a <= held + m.minted
          /\ usdc[m.pool] + a >= owed + a
          /\ held + m.minted - a >= m.minted - m.denomination
      BY <2>1, <2>2
    <2>5. CanFund(pools[m.pool], m.claim, m.recipient, m.expiresAt, now) => Fundable(m, m.minted)
      BY <2>3, <2>4 DEF Fundable, Underfunded, Collateralized, a, held, owed
    <2>6. QED
      BY <2>1, <2>3, <2>5 DEF Underfunded, m
  <1>2. TypeOK /\ Covered => ValidatedSettles
    BY <1>1 DEF ValidatedSettles
  <1>3. QED
    BY <1>2, AlwaysCovered, PTL

-----------------------------------------------------------------------------
(* Quotes.  A rate is any fraction; the search for the gross amount is     *)
(* reasoned about with sets of attempts, which have a least member.        *)

\* A set of numbers has a least one.
LEMMA LeastNumber ==
    ASSUME NEW S \in SUBSET Nat, S # {}
    PROVE  \E i \in S : \A j \in S : i <= j
  <1> DEFINE R == OpToRel(<, Nat)
  <1>1. IsWellFoundedOn(R, Nat)
    BY NatLessThanWellFounded
  <1>2. \E i \in S : \A j \in S : ~ (<<j, i>> \in R)
    <2> HIDE DEF R
    <2>1. QED
      BY <1>1, WFMin
  <1>3. PICK i \in S : \A j \in S : ~ (<<j, i>> \in R)
    BY <1>2
  <1>4. \A j \in S : ~ (j < i)
    BY <1>3 DEF OpToRel
  <1>5. QED
    BY <1>4

\* A set of numbers with 0 and the successors of its members has them all.
LEMMA SetInduction ==
    ASSUME NEW S \in SUBSET Nat, 0 \in S, \A n \in S : n + 1 \in S
    PROVE  \A n \in Nat : n \in S
  <1> DEFINE R == OpToRel(<, Nat)
             T == Nat \ S
  <1>1. SUFFICES ASSUME T # {} PROVE FALSE
    OBVIOUS
  <1>2. IsWellFoundedOn(R, Nat)
    BY NatLessThanWellFounded
  <1>3. \E i \in T : \A j \in T : ~ (<<j, i>> \in R)
    <2> HIDE DEF R
    <2>1. T \in SUBSET Nat
      OBVIOUS
    <2> HIDE DEF T
    <2>2. QED
      BY <1>1, <1>2, <2>1, WFMin
  <1>4. PICK i \in T : \A j \in T : ~ (<<j, i>> \in R)
    BY <1>3
  <1>5. \A j \in T : ~ (j < i)
    BY <1>4 DEF OpToRel
  <1>6. i # 0 /\ i - 1 \in Nat /\ i - 1 < i /\ (i - 1) + 1 = i
    OBVIOUS
  <1>7. QED
    BY <1>5, <1>6

\* What is iterated has a value after every number of steps.
LEMMA Iterates ==
    ASSUME NEW F \in [Nat -> Nat], NEW s \in Nat
    PROVE  \E f \in [Nat -> Nat] : f[0] = s /\ \A n \in Nat : f[n + 1] = F[f[n]]
  <1> DEFINE Upto(g, n) == g[0] = s /\ \A m \in 1..n : g[m] = F[g[m - 1]]
             C == {n \in Nat : \E g \in [Nat -> Nat] : Upto(g, n)}
             U == {n \in Nat : \A g, k \in [Nat -> Nat] : Upto(g, n) /\ Upto(k, n) => g[n] = k[n]}
  <1>1. \A n \in Nat : n \in C
    <2>1. 0 \in C
      <3> DEFINE g == [n \in Nat |-> s]
      <3>1. g \in [Nat -> Nat] /\ Upto(g, 0)
        OBVIOUS
      <3>2. QED
        BY <3>1
    <2>2. ASSUME NEW n \in C PROVE n + 1 \in C
      <3>1. PICK g \in [Nat -> Nat] : Upto(g, n)
        BY <2>2
      <3> DEFINE k == [g EXCEPT ![n + 1] = F[g[n]]]
      <3>2. k \in [Nat -> Nat] /\ k[n + 1] = F[g[n]] /\ \A m \in 0..n : k[m] = g[m]
        BY <3>1
      <3> HIDE DEF k
      <3>3. ASSUME NEW m \in 1..(n + 1) PROVE k[m] = F[k[m - 1]]
        <4>1. CASE m = n + 1
          BY <4>1, <3>2
        <4>2. CASE m # n + 1
          <5>1. m \in 1..n /\ m \in 0..n /\ m - 1 \in 0..n
            BY <4>2
          <5>2. QED
            BY <5>1, <3>1, <3>2
        <4>3. QED
          BY <4>1, <4>2
      <3>4. k[0] = s
        BY <3>1, <3>2
      <3>5. Upto(k, n + 1)
        BY <3>3, <3>4
      <3> HIDE DEF Upto
      <3>6. QED
        BY <3>2, <3>5
    <2> HIDE DEF C
    <2>3. C \in SUBSET Nat
      BY DEF C
    <2>4. QED
      BY <2>1, <2>2, <2>3, SetInduction
  <1>2. \A n \in Nat : n \in U
    <2>1. 0 \in U
      OBVIOUS
    <2>2. ASSUME NEW n \in U PROVE n + 1 \in U
      <3> SUFFICES ASSUME NEW g \in [Nat -> Nat], NEW k \in [Nat -> Nat],
                          Upto(g, n + 1), Upto(k, n + 1)
                   PROVE  g[n + 1] = k[n + 1]
        <4>1. n \in Nat /\ n + 1 \in Nat
          OBVIOUS
        <4> HIDE DEF Upto
        <4>2. QED
          BY <4>1
      <3>1. Upto(g, n) /\ Upto(k, n)
        OBVIOUS
      <3>2. g[n] = k[n]
        BY <3>1
      <3>3. n + 1 \in 1..(n + 1) /\ (n + 1) - 1 = n
        OBVIOUS
      <3>4. g[n + 1] = F[g[n]] /\ k[n + 1] = F[k[n]]
        BY <3>3
      <3>5. QED
        BY <3>2, <3>4
    <2> HIDE DEF U
    <2>3. U \in SUBSET Nat
      BY DEF U
    <2>4. QED
      BY <2>1, <2>2, <2>3, SetInduction
  <1> DEFINE P(n) == CHOOSE g \in [Nat -> Nat] : Upto(g, n)
             f == [n \in Nat |-> P(n)[n]]
  <1>3. \A n \in Nat : P(n) \in [Nat -> Nat] /\ Upto(P(n), n)
    BY <1>1
  <1> HIDE DEF P
  <1>4. f \in [Nat -> Nat] /\ f[0] = s
    BY <1>3
  <1>5. ASSUME NEW n \in Nat PROVE f[n + 1] = F[f[n]]
    <2>1. n + 1 \in Nat /\ n + 1 \in 1..(n + 1) /\ (n + 1) - 1 = n
      OBVIOUS
    <2>2. P(n + 1)[n + 1] = F[P(n + 1)[n]]
      <3>1. Upto(P(n + 1), n + 1)
        BY <2>1, <1>3
      <3>2. P(n + 1)[n + 1] = F[P(n + 1)[(n + 1) - 1]]
        BY <2>1, <3>1
      <3>3. QED
        BY <2>1, <3>2
    <2>3. Upto(P(n + 1), n) /\ Upto(P(n), n) /\ P(n + 1) \in [Nat -> Nat] /\ P(n) \in [Nat -> Nat]
      <3>1. Upto(P(n + 1), n + 1) /\ Upto(P(n), n)
            /\ P(n + 1) \in [Nat -> Nat] /\ P(n) \in [Nat -> Nat]
        BY <2>1, <1>3
      <3>2. \A m \in 1..n : m \in 1..(n + 1)
        OBVIOUS
      <3> HIDE DEF P
      <3>3. QED
        BY <3>1, <3>2
    <2>4. P(n + 1)[n] = P(n)[n]
      BY <2>3, <1>2
    <2>5. QED
      BY <2>1, <2>2, <2>4
  <1>6. QED
    BY <1>4, <1>5

-----------------------------------------------------------------------------
\* What rounding up is good for: the least quotient that is enough.
LEMMA CeilDivIs ==
    ASSUME NEW n \in Nat, NEW d \in Nat \ {0}
    PROVE  /\ CeilDiv(n, d) \in Nat
           /\ n <= CeilDiv(n, d) * d
           /\ \A q \in Nat : n <= q * d => CeilDiv(n, d) <= q
  <1> DEFINE c == CeilDiv(n, d)
             a == n + d - 1
  <1>1. a \in Nat /\ d > 0
    OBVIOUS
  <1>2. a \div d \in Int /\ a % d \in 0..(d - 1) /\ a = d * (a \div d) + (a % d)
    BY <1>1
  <1>3. c = a \div d
    BY DEF CeilDiv
  <1> HIDE DEF c
  <1>4. d * c <= n + d - 1 /\ n <= d * c /\ c \in Int
    BY <1>2, <1>3
  <1>5. ASSUME NEW q \in Int, n <= q * d PROVE c <= q
    <2> SUFFICES ASSUME q + 1 <= c PROVE FALSE
      BY <1>4
    <2>1. d * (q + 1) <= d * c
      BY <1>1, <1>4
    <2>2. d * (q + 1) = d * q + d /\ q * d = d * q
      OBVIOUS
    <2>3. d * q \in Int /\ d * c \in Int
      BY <1>4
    <2>4. QED
      BY <1>4, <1>5, <2>1, <2>2, <2>3
  <1>6. c >= 0
    <2> SUFFICES ASSUME c <= -1 PROVE FALSE
      BY <1>4
    <2>1. d * c <= d * (-1)
      BY <1>1, <1>4
    <2>2. QED
      BY <1>1, <1>4, <2>1
  <1>7. QED
    BY <1>4, <1>5, <1>6 DEF c

LEMMA ProtocolFeeIs ==
    ASSUME NEW rate \in Rate, NEW gross \in Nat
    PROVE  /\ ProtocolFee(rate, gross) \in Nat
           /\ gross * rate.num <= ProtocolFee(rate, gross) * (rate.den * 10000)
           /\ \A q \in Nat : gross * rate.num <= q * (rate.den * 10000) =>
                                ProtocolFee(rate, gross) <= q
  <1> DEFINE x == gross * rate.num
             y == rate.den * 10000
  <1>1. x \in Nat /\ y \in Nat \ {0}
    BY DEF Rate
  <1>2. ProtocolFee(rate, gross) = CeilDiv(x, y)
    BY DEF ProtocolFee
  <1> HIDE DEF x, y
  <1>3. CeilDiv(x, y) \in Nat /\ x <= CeilDiv(x, y) * y
        /\ \A q \in Nat : x <= q * y => CeilDiv(x, y) <= q
    BY <1>1, CeilDivIs
  <1>4. QED
    BY <1>2, <1>3 DEF x, y

\* The buffer is a fifth of the fee, rounded up.
LEMMA BufferIs ==
    ASSUME NEW p \in Nat
    PROVE  /\ FeeBuffer(p) \in Nat
           /\ p <= 5 * FeeBuffer(p)
           /\ \A r \in Nat : p <= 5 * r => FeeBuffer(p) <= r
  <1> DEFINE x == p * 2000
             y == 10000
             c == CeilDiv(x, y)
  <1>1. x \in Nat /\ y \in Nat \ {0}
    OBVIOUS
  <1>2. c \in Nat /\ x <= c * y /\ \A q \in Nat : x <= q * y => c <= q
    <2> HIDE DEF x, y
    <2>1. QED
      BY <1>1, CeilDivIs
  <1> HIDE DEF c
  <1>3. p <= 5 * c
    BY <1>2
  <1>4. ASSUME NEW r \in Nat, p <= 5 * r PROVE c <= r
    <2>1. x <= r * y
      BY <1>4
    <2>2. QED
      BY <1>2, <2>1
  <1>5. QED
    BY <1>2, <1>3, <1>4 DEF c, FeeBuffer

\* A product grows with its factor.
LEMMA TimesGrows ==
    ASSUME NEW i \in Nat, NEW j \in Nat, i <= j, NEW k \in Nat
    PROVE  i * k \in Nat /\ j * k \in Nat /\ i * k <= j * k
  <1> DEFINE l == j - i
  <1>1. l \in Nat /\ j = i + l
    OBVIOUS
  <1> HIDE DEF l
  <1>2. (i + l) * k = i * k + l * k /\ i * k \in Nat /\ l * k \in Nat
    BY <1>1
  <1>3. QED
    BY <1>1, <1>2

\* A fee is a natural number and grows with the amount.
LEMMA FeeGrows ==
    ASSUME NEW rate \in Rate, NEW less \in Nat, NEW gross \in Nat, less <= gross
    PROVE  /\ FeeForGross(rate, less) \in Nat /\ FeeForGross(rate, gross) \in Nat
           /\ FeeForGross(rate, less) <= FeeForGross(rate, gross)
  <1> DEFINE small == ProtocolFee(rate, less)
             large == ProtocolFee(rate, gross)
  <1>1. small \in Nat /\ large \in Nat /\ small <= large
    <2> DEFINE y == large * (rate.den * 10000)
    <2>1. /\ small \in Nat /\ large \in Nat /\ gross * rate.num <= y
          /\ less * rate.num <= y => small <= large
      BY ProtocolFeeIs
    <2>2. y \in Nat
      BY <2>1 DEF Rate
    <2>3. less * rate.num \in Nat /\ gross * rate.num \in Nat /\ less * rate.num <= gross * rate.num
      BY TimesGrows DEF Rate
    <2> HIDE DEF small, large, y
    <2>4. QED
      BY <2>1, <2>2, <2>3
  <1>2. FeeForGross(rate, less) = small + FeeBuffer(small) /\ FeeForGross(rate, gross) = large + FeeBuffer(large)
    BY DEF FeeForGross
  <1> HIDE DEF small, large
  <1>3. /\ FeeBuffer(small) \in Nat /\ FeeBuffer(large) \in Nat /\ large <= 5 * FeeBuffer(large)
        /\ \A r \in Nat : small <= 5 * r => FeeBuffer(small) <= r
    BY <1>1, BufferIs
  <1>4. FeeBuffer(small) <= FeeBuffer(large)
    BY <1>1, <1>3
  <1>5. QED
    BY <1>1, <1>2, <1>3, <1>4

\* What is tried next is the payment and the fee of what was tried last.
LEMMA TriedIs ==
    ASSUME NEW rate \in Rate, NEW requested \in Nat
    PROVE  LET tried == Tried(rate, requested)
           IN  /\ tried \in [Nat -> Nat] /\ tried[0] = requested
               /\ \A n \in Nat : tried[n + 1] = requested + FeeForGross(rate, tried[n])
  <1> DEFINE F == [g \in Nat |-> requested + FeeForGross(rate, g)]
             Eq(f) == f = [n \in Nat |-> IF n = 0 THEN requested
                                         ELSE requested + FeeForGross(rate, f[n - 1])]
  <1>1. \A g \in Nat : FeeForGross(rate, g) \in Nat
    BY FeeGrows
  <1>2. F \in [Nat -> Nat]
    BY <1>1
  <1>3. \E f \in [Nat -> Nat] : f[0] = requested /\ \A n \in Nat : f[n + 1] = F[f[n]]
    <2> HIDE DEF F
    <2>1. QED
      BY <1>2, Iterates
  <1>4. PICK f \in [Nat -> Nat] : f[0] = requested /\ \A n \in Nat : f[n + 1] = F[f[n]]
    BY <1>3
  <1>e. Eq(f)
    <2>1. ASSUME NEW n \in Nat
          PROVE  f[n] = IF n = 0 THEN requested ELSE requested + FeeForGross(rate, f[n - 1])
      <3>1. CASE n = 0
        BY <3>1, <1>4
      <3>2. CASE n # 0
        <4>1. n - 1 \in Nat /\ (n - 1) + 1 = n
          BY <3>2
        <4>2. f[(n - 1) + 1] = F[f[n - 1]]
          BY <4>1, <1>4
        <4>3. QED
          BY <3>2, <4>1, <4>2
      <3>3. QED
        BY <3>1, <3>2
    <2> HIDE DEF F
    <2>2. QED
      BY <2>1
  <1> DEFINE tried == CHOOSE g : Eq(g)
  <1>5. Eq(tried)
    <2> HIDE DEF Eq
    <2>1. QED
      BY <1>e
  <1>6. Tried(rate, requested) = tried
    BY DEF Tried
  <1> HIDE DEF tried
  <1>7. /\ tried[0] = requested
        /\ \A n \in Nat : tried[n + 1] = requested + FeeForGross(rate, tried[n])
        /\ DOMAIN tried = Nat
    BY <1>5
  <1>8. \A n \in Nat : n \in {k \in Nat : tried[k] \in Nat}
    <2> DEFINE S == {k \in Nat : tried[k] \in Nat}
    <2>1. S \in SUBSET Nat /\ 0 \in S
      BY <1>7
    <2>2. \A n \in S : n + 1 \in S
      BY <1>1, <1>7
    <2> HIDE DEF S
    <2>3. \A n \in Nat : n \in S
      BY <2>1, <2>2, SetInduction
    <2>4. QED
      BY <2>3 DEF S
  <1>9. tried \in [Nat -> Nat]
    <2>1. tried = [n \in Nat |-> tried[n]]
      BY <1>5
    <2>2. QED
      BY <1>8, <2>1
  <1>10. QED
    BY <1>6, <1>7, <1>9

\* Nothing below an amount tried leaves enough, as long as none before did.
LEMMA BelowIsTooLittle ==
    ASSUME NEW rate \in Rate, NEW requested \in Nat \ {0}, NEW last \in Nat,
           \A m \in 0..last - 1 : ~Ends(rate, requested, Tried(rate, requested)[m])
    PROVE  \A less \in 0..Tried(rate, requested)[last] - 1 : Net(rate, less) < requested
  <1> DEFINE tried == Tried(rate, requested)
             Low(n) == \A less \in 0..tried[n] - 1 : Net(rate, less) < requested
             S == {n \in Nat : n <= last => Low(n)}
  <1>1. /\ tried \in [Nat -> Nat] /\ tried[0] = requested
        /\ \A n \in Nat : tried[n + 1] = requested + FeeForGross(rate, tried[n])
    BY TriedIs
  <1>2. \A m \in 0..last - 1 : ~Ends(rate, requested, tried[m])
    OBVIOUS
  <1> HIDE DEF tried
  <1>3. 0 \in S
    <2>1. ASSUME NEW less \in 0..requested - 1 PROVE Net(rate, less) < requested
      <3>1. FeeForGross(rate, less) \in Nat
        BY FeeGrows
      <3>2. QED
        BY <3>1 DEF Net
    <2>2. QED
      BY <1>1, <2>1
  <1>4. ASSUME NEW n \in S PROVE n + 1 \in S
    <2>1. SUFFICES ASSUME n + 1 <= last PROVE Low(n + 1)
      OBVIOUS
    <2>2. Low(n)
      BY <2>1
    <2>3. SUFFICES ASSUME NEW less \in 0..tried[n + 1] - 1, less >= tried[n]
                   PROVE  Net(rate, less) < requested
      BY <2>2, <1>1
    <2>4. /\ FeeForGross(rate, tried[n]) \in Nat /\ FeeForGross(rate, less) \in Nat
          /\ FeeForGross(rate, tried[n]) <= FeeForGross(rate, less)
      BY <1>1, <2>3, FeeGrows
    <2>5. less < requested + FeeForGross(rate, tried[n])
      BY <1>1, <2>4
    <2>6. QED
      BY <2>4, <2>5 DEF Net
  <1> HIDE DEF S
  <1>5. \A n \in Nat : n \in S
    <2>1. S \in SUBSET Nat
      BY DEF S
    <2>2. QED
      BY <2>1, <1>3, <1>4, SetInduction
  <1>6. Low(last)
    BY <1>5 DEF S
  <1>7. QED
    BY <1>6 DEF tried

\* What the search returns, when it returns a quote.
LEMMA QuoteIsLastTried ==
    ASSUME NEW rate \in Rate, NEW requested \in Nat \ {0}, solveExactNet(rate, requested) # 0
    PROVE  LET gross == solveExactNet(rate, requested)
           IN  /\ gross \in Nat /\ Payable(rate, gross) /\ Net(rate, gross) >= requested
               /\ \A less \in 0..gross - 1 : Net(rate, less) < requested
  <1> DEFINE tried == Tried(rate, requested)
             last == LastOf(rate, requested)
             EndsAt(n) == Ends(rate, requested, tried[n])
             N == {n \in Nat : n <= Attempts - 1 /\ EndsAt(n)}
  <1>1. /\ solveExactNet(rate, requested) = tried[last] /\ Payable(rate, tried[last])
        /\ \E n \in 0..Attempts - 1 : EndsAt(n)
    BY DEF solveExactNet
  <1>2. last \in 0..Attempts - 1 /\ EndsAt(last) /\ \A m \in 0..last - 1 : ~EndsAt(m)
    <2>1. \E i \in N : \A j \in N : i <= j
      <3>1. N # {} /\ N \in SUBSET Nat
        BY <1>1
      <3> HIDE DEF N
      <3>2. QED
        BY <3>1, LeastNumber
    <2>2. PICK i \in N : \A j \in N : i <= j
      BY <2>1
    <2>3. Attempts \in Nat
      BY DEF Attempts
    <2>4. i \in 0..Attempts - 1 /\ EndsAt(i) /\ \A m \in 0..i - 1 : ~EndsAt(m)
      <3>1. i \in Nat /\ i <= Attempts - 1 /\ EndsAt(i)
        OBVIOUS
      <3>2. ASSUME NEW m \in 0..i - 1, EndsAt(m) PROVE FALSE
        <4>1. m \in Nat /\ m < i /\ m <= Attempts - 1
          BY <2>3, <3>1
        <4>2. m \in N
          BY <3>2, <4>1
        <4>3. QED
          BY <2>2, <3>1, <4>1, <4>2
      <3>3. QED
        BY <2>3, <3>1, <3>2
    <2> HIDE DEF tried, N
    <2> DEFINE First(n) == EndsAt(n) /\ \A m \in 0..n - 1 : ~EndsAt(m)
    <2>5. last = CHOOSE n \in 0..Attempts - 1 : First(n)
      BY DEF LastOf, tried
    <2>6. \E n \in 0..Attempts - 1 : First(n)
      BY <2>4
    <2> HIDE DEF last, First
    <2>7. last \in 0..Attempts - 1 /\ First(last)
      BY <2>5, <2>6
    <2>8. QED
      BY <2>7 DEF First
  <1> HIDE DEF last
  <1>3. last \in Nat
    <2>1. last \in 0..Attempts - 1
      BY <1>2
    <2>2. QED
      BY <2>1 DEF Attempts
  <1>4. tried[last] \in Nat
    BY <1>3, TriedIs
  <1>5. \A less \in 0..tried[last] - 1 : Net(rate, less) < requested
    BY <1>2, <1>3, BelowIsTooLittle
  <1> HIDE DEF tried
  <1>6. QED
    BY <1>1, <1>2, <1>4, <1>5 DEF Ends

\* quoteCircleExactNet asks the sender for the least gross amount of which
\* the payment is left after the largest fee allowed: of no smaller one it
\* would be.  For every rate Circle may state and every amount.
THEOREM QuoteIsLeastHolds ==
    \A rate \in Rate, requested \in Nat \ {0} :
        LET gross == solveExactNet(rate, requested)
        IN  gross # 0 => IsLeast(rate, requested, gross)
  BY QuoteIsLastTried DEF IsLeast

\* A quote pays what it promises at any rate up to a fifth above the one it
\* was made for: what Circle takes at the burn is within the fee allowed.
THEOREM QuoteSurvivesHolds ==
    \A rate \in Rate, risen \in Rate, requested \in Nat \ {0} :
        LET gross == solveExactNet(rate, requested)
        IN  gross # 0 /\ AtMostAFifthMore(rate, risen) => Survives(risen, requested, gross)
  <1> SUFFICES ASSUME NEW rate \in Rate, NEW risen \in Rate, NEW requested \in Nat \ {0},
                      solveExactNet(rate, requested) # 0, AtMostAFifthMore(rate, risen)
               PROVE  Survives(risen, requested, solveExactNet(rate, requested))
    OBVIOUS
  <1> DEFINE gross == solveExactNet(rate, requested)
             p == ProtocolFee(rate, gross)
             q == FeeBuffer(p)
             a == rate.num
             b == rate.den
             c == risen.num
             d == risen.den
  <1>1. gross \in Nat /\ Net(rate, gross) >= requested
    BY QuoteIsLastTried
  <1>2. a \in Nat /\ b \in Nat \ {0} /\ c \in Nat /\ d \in Nat \ {0}
    BY DEF Rate
  <1>3. 5 * (c * b) <= 6 * (a * d)
    BY DEF AtMostAFifthMore
  <1> HIDE DEF gross
  <1>4. p \in Nat /\ gross * a <= p * (b * 10000)
    BY <1>1, ProtocolFeeIs
  <1> HIDE DEF p
  <1>5. q \in Nat /\ p <= 5 * q
    BY <1>4, BufferIs
  <1>6. Net(rate, gross) = gross - (p + q)
    BY DEF Net, FeeForGross, p, q
  <1> HIDE DEF q
  <1>7. gross * c <= (p + q) * (d * 10000)
    <2> HIDE DEF a, b, c, d
    <2> DEFINE x == gross * c
               y == (p + q) * (d * 10000)
    <2>1. (5 * (c * b)) * gross <= (6 * (a * d)) * gross
      <3>1. 5 * (c * b) \in Nat /\ 6 * (a * d) \in Nat
        BY <1>2
      <3>2. QED
        BY <3>1, <1>1, <1>3, TimesGrows
    <2>2. (gross * a) * (6 * d) <= (p * (b * 10000)) * (6 * d)
      <3>1. gross * a \in Nat /\ p * (b * 10000) \in Nat /\ 6 * d \in Nat
        BY <1>1, <1>2, <1>4
      <3>2. QED
        BY <3>1, <1>4, TimesGrows
    <2>3. (6 * p) * ((b * 10000) * d) <= (5 * (p + q)) * ((b * 10000) * d)
      <3>1. 6 * p \in Nat /\ 5 * (p + q) \in Nat /\ 6 * p <= 5 * (p + q)
        BY <1>4, <1>5
      <3>2. (b * 10000) * d \in Nat
        BY <1>2
      <3>3. QED
        BY <3>1, <3>2, TimesGrows
    <2>4. /\ (5 * (c * b)) * gross = x * (5 * b)
          /\ (6 * (a * d)) * gross = (gross * a) * (6 * d)
          /\ (p * (b * 10000)) * (6 * d) = (6 * p) * ((b * 10000) * d)
          /\ (5 * (p + q)) * ((b * 10000) * d) = y * (5 * b)
      BY <1>1, <1>2, <1>4, <1>5
    <2>5. x \in Nat /\ y \in Nat /\ 5 * b \in Nat \ {0}
      BY <1>1, <1>2, <1>4, <1>5
    <2>6. x * (5 * b) <= y * (5 * b)
      <3>1. /\ (gross * a) * (6 * d) \in Nat /\ (6 * p) * ((b * 10000) * d) \in Nat
            /\ x * (5 * b) \in Nat /\ y * (5 * b) \in Nat
        BY <1>1, <1>2, <1>4, <1>5, <2>5
      <3>2. QED
        BY <2>1, <2>2, <2>3, <2>4, <3>1
    <2> HIDE DEF x, y
    <2>7. SUFFICES ASSUME y + 1 <= x PROVE FALSE
      BY <2>5 DEF x, y
    <2>8. (y + 1) * (5 * b) <= x * (5 * b)
      BY <2>5, <2>7, TimesGrows
    <2>9. (y + 1) * (5 * b) = y * (5 * b) + 5 * b /\ y * (5 * b) \in Nat
      BY <2>5
    <2>10. QED
      BY <2>5, <2>6, <2>8, <2>9
  <1>8. ProtocolFee(risen, gross) \in Nat /\ ProtocolFee(risen, gross) <= p + q
    <2>1. p + q \in Nat
      BY <1>4, <1>5
    <2>2. QED
      BY <1>1, <1>7, <2>1, ProtocolFeeIs
  <1>9. QED
    BY <1>1, <1>4, <1>5, <1>6, <1>8 DEF Survives, gross
=============================================================================
