----------------------------- MODULE CctpRouter -----------------------------
(***************************************************************************)
(* WottaCctpRouter with the escrow pools it funds: the settlement of       *)
(* Circle CCTP messages on Starknet, next to everything else that happens  *)
(* to the pools.  One action is one transaction.                           *)
(*                                                                         *)
(* Circle is external: Messages are the burns it attests, sooner or later  *)
(* (nothing here depends on when), received those its transmitter has      *)
(* consumed (each once), and the amount it mints for one is whatever is    *)
(* left after fees.  The 512 bytes of a message are a record of the fields *)
(* the router reads; a message it cannot decode is one it reverts on.      *)
(* bound stands for the four header bindings: destination domain 25, the   *)
(* token messenger as recipient, the router as mint recipient and as       *)
(* destination caller.                                                     *)
(***************************************************************************)
EXTENDS EscrowContract, FiniteSets

CONSTANTS Pools,            \* the escrow pools with this router and its USDC
          Denom,            \* the denomination of each pool
          Router,           \* the router's own address
          Messages,         \* the messages Circle attests
          PilotDomains, TestnetDomains, IsMainnet,
          Transfers, Expiries, MaxTime   \* as in EscrowPool

Domains == PilotDomains \cup TestnetDomains
Intents == {m.intent : m \in Messages}
Accounts == Pools \cup {Router} \cup Recipients

ASSUME CctpRouterAssumption ==
    /\ Denom \in [Pools -> Nat \ {0}]
    /\ Router \notin Pools \cup Recipients
    /\ Pools \cap Recipients = {}
    /\ IsMainnet \in BOOLEAN
    /\ NoRecipient \notin Accounts
    /\ NoHash \notin ClaimHashes \cup RefundHashes
    /\ Transfers \subseteq Nat /\ \A p \in Pools : Denom[p] \in Transfers
    /\ Expiries \subseteq Nat /\ MaxTime \in Nat
    /\ \A m \in Messages : /\ m.claim \in ClaimHashes \cup {NoHash}
                           /\ m.recipient \in Recipients \cup {NoRecipient}
                           /\ m.expiresAt \in Expiries
                           /\ m.denomination \in Nat \ {0} /\ m.minted \in Nat

VARIABLES pools,      \* the storage of every pool
          usdc,       \* USDC balances
          now,        \* the block timestamp
          paused,     \* the owner's switch
          admitted,   \* the source domains the owner has admitted
          processed,  \* processed_intents
          received    \* the messages Circle's transmitter has consumed

poolVars == <<pools, usdc, now>>
routerVars == <<paused, admitted, processed>>
vars == <<pools, usdc, now, paused, admitted, processed, received>>

TypeOK == /\ pools \in [Pools -> Storage]
          /\ usdc \in [Accounts -> Nat]
          /\ now \in Nat
          /\ paused \in BOOLEAN
          /\ admitted \subseteq Domains
          /\ processed \subseteq Intents
          /\ received \subseteq Messages

Init == /\ pools = [p \in Pools |-> EmptyStorage]
        /\ usdc = [a \in Accounts |-> 0]
        /\ now = 0
        /\ paused = TRUE
        /\ admitted = IF IsMainnet THEN {} ELSE Domains
        /\ processed = {}
        /\ received = {}

-----------------------------------------------------------------------------
(* The router's entry points. *)

Pause == /\ ~paused
         /\ paused' = TRUE
         /\ UNCHANGED <<poolVars, admitted, processed, received>>

Unpause == /\ paused
           /\ paused' = FALSE
           /\ UNCHANGED <<poolVars, admitted, processed, received>>

SetSourceDomainAdmitted(domain, open) ==
    /\ domain \in PilotDomains \/ (~IsMainnet /\ domain \in TestnetDomains)
    /\ admitted' = IF open THEN admitted \cup {domain} ELSE admitted \ {domain}
    /\ UNCHANGED <<poolVars, paused, processed, received>>

ValidBindings_AnyDenomination(m) == m.bound /\ m.pool \in Pools

ValidBindings(m) == /\ m.bound
                    /\ m.pool \in Pools
                    /\ Denom[m.pool] = m.denomination

\* What the mint added, whatever the router held before.
Received(before, after) == after - before

Underfunded_UpToExact(amount, denomination) == amount <= denomination
Underfunded(amount, denomination) == amount < denomination

\* An entry of the token's ledger; of addresses outside the model none is kept.
Credit(balances, a, amount) == [balances EXCEPT ![a] = @ + amount]

\* Too little arrived: the intent is spent all the same, the tokens go on.
RefundUnderfunded_IntentStaysOpen(m, amount) ==
    /\ Underfunded(amount, m.denomination)
    /\ m.recipient # NoRecipient \/ amount = 0
    /\ usdc' = Credit(Credit(usdc, Router, m.minted - amount), m.recipient, amount)
    /\ UNCHANGED <<pools, processed>>

RefundUnderfunded(m, amount) ==
    /\ Underfunded(amount, m.denomination)
    /\ m.recipient # NoRecipient \/ amount = 0
    /\ usdc' = Credit(Credit(usdc, Router, m.minted - amount), m.recipient, amount)
    /\ processed' = processed \cup {m.intent}
    /\ UNCHANGED pools

\* The pool pulls its own denomination out of an allowance for the message's;
\* the rest of what arrived goes to the refund recipient.
Fundable(m, amount) ==
    LET d == Denom[m.pool]
    IN  /\ ~Underfunded(amount, m.denomination)
        /\ CanFund(pools[m.pool], m.claim, m.recipient, m.expiresAt, now)
        /\ d <= m.denomination /\ d <= usdc[Router] + m.minted
        /\ Collateralized(pools[m.pool], d, usdc[m.pool] + d)
        /\ usdc[Router] + m.minted - d >= amount - m.denomination

FundPool(m, amount) ==
    LET p == m.pool
        d == Denom[p]
        surplus == amount - m.denomination
    IN  /\ Fundable(m, amount)
        /\ pools' = [pools EXCEPT ![p] =
                        Funded(@, d, "CCTP", m.claim, m.recipient, NoHash, m.expiresAt)]
        /\ usdc' = Credit(Credit(Credit(usdc, p, d), Router, m.minted - d - surplus),
                          m.recipient, surplus)
        /\ processed' = processed \cup {m.intent}

Settle(m) ==
    /\ ~paused
    /\ m.domain \in admitted
    /\ ValidBindings(m)
    /\ m.intent \notin processed
    /\ m \in Messages \ received
    /\ LET amount == Received(usdc[Router], usdc[Router] + m.minted)
       IN  RefundUnderfunded(m, amount) \/ FundPool(m, amount)
    /\ received' = received \cup {m}
    /\ UNCHANGED <<now, paused, admitted>>

-----------------------------------------------------------------------------
(* Everything else that happens to the pools, and the world outside. *)

OnPool(p, storage, credit) == /\ pools' = [pools EXCEPT ![p] = storage]
                              /\ usdc' = Credit(usdc, p, credit)
                              /\ UNCHANGED <<now, routerVars, received>>

DepositPublic(p, h, r, e) ==
    /\ CanFund(pools[p], h, r, e, now)
    /\ Collateralized(pools[p], Denom[p], usdc[p] + Denom[p])
    /\ OnPool(p, Funded(pools[p], Denom[p], "PUBLIC_DIRECT", h, r, NoHash, e), Denom[p])

PrivateFund(p, h, r, q, e, moved) ==
    /\ CanFundPrivate(pools[p], Denom[p], h, q, e, Denom[p], usdc[p] + moved, now)
    /\ OnPool(p, FundedPrivate(pools[p], Denom[p], h, r, q, e), moved)

\* Claimed and privately refunded tokens go to the privacy pool.
ClaimNote_KeepsTokens(p, h) ==
    /\ CanClaim(pools[p], Denom[p], h, now)
    /\ OnPool(p, Closed(pools[p], Denom[p], h, "CLAIMED"), 0)

ClaimNote(p, h) ==
    /\ CanClaim(pools[p], Denom[p], h, now)
    /\ usdc[p] >= Denom[p]
    /\ OnPool(p, Closed(pools[p], Denom[p], h, "CLAIMED"), - Denom[p])

PrivateRefund(p, q) ==
    /\ CanRefundPrivate(pools[p], Denom[p], q, now)
    /\ usdc[p] >= Denom[p]
    /\ OnPool(p, Closed(pools[p], Denom[p], pools[p].refundToClaim[q], "REFUNDED"), - Denom[p])

RefundPublic(p, h) ==
    /\ CanRefundPublic(pools[p], Denom[p], h, now)
    /\ usdc[p] >= Denom[p]
    /\ pools' = [pools EXCEPT ![p] = Closed(@, Denom[p], h, "REFUNDED")]
    /\ usdc' = Credit(Credit(usdc, p, - Denom[p]), pools[p].claims[h].recipient, Denom[p])
    /\ UNCHANGED <<now, routerVars, received>>

Donate(a, amount) == /\ amount > 0
                     /\ usdc' = Credit(usdc, a, amount)
                     /\ UNCHANGED <<pools, now, routerVars, received>>

Tick == /\ now < MaxTime
        /\ now' = now + 1
        /\ UNCHANGED <<pools, usdc, routerVars, received>>

Next == \/ Pause \/ Unpause \/ Tick
        \/ \E domain \in Domains, open \in BOOLEAN : SetSourceDomainAdmitted(domain, open)
        \/ \E m \in Messages : Settle(m)
        \/ \E a \in Pools \cup {Router}, amount \in Transfers : Donate(a, amount)
        \/ \E p \in Pools :
              \/ \E h \in ClaimHashes : ClaimNote(p, h) \/ RefundPublic(p, h)
              \/ \E q \in RefundHashes : PrivateRefund(p, q)
              \/ \E h \in ClaimHashes, r \in Recipients, e \in Expiries :
                    \/ DepositPublic(p, h, r, e)
                    \/ \E q \in RefundHashes, moved \in Transfers :
                          PrivateFund(p, h, r, q, e, moved)

Spec == Init /\ [][Next]_vars

-----------------------------------------------------------------------------
\* processed and Circle's nonces together: of all the messages that carry one
\* intent (a resent burn, the same hook twice) at most one is ever minted, so
\* an intent never funds two claims and is never both refunded and funded.
OneSettlementPerIntent ==
    \A m, n \in received : m.intent = n.intent => m = n

\* Every CCTP claim of every pool comes from one minted burn with the same
\* pool, claim hash, recipient and expiry and enough tokens, and every such
\* burn that was minted has its claim: none is minted and then forgotten.
SameTerms(m, p, h) == /\ m.pool = p
                      /\ m.claim = h
                      /\ m.recipient = pools[p].claims[h].recipient
                      /\ m.expiresAt = pools[p].claims[h].expiresAt
                      /\ m.minted >= Denom[p]

CctpClaimsAreBurns ==
    /\ \A p \in Pools, h \in ClaimHashes :
          pools[p].claims[h].kind = "CCTP" =>
             \E m \in received : /\ SameTerms(m, p, h)
                                 /\ \A n \in received : SameTerms(n, p, h) => n = m
    /\ \A m \in received :
          m.minted >= m.denomination => /\ SameTerms(m, m.pool, m.claim)
                                        /\ pools[m.pool].claims[m.claim].kind = "CCTP"

Gained(a) == IF a \in Accounts THEN usdc'[a] - usdc[a] ELSE 0

\* A settlement moves exactly the minted tokens on: what did not become the
\* pool's denomination is the refund recipient's, and the tokens the router
\* held before (somebody's stray transfer) are neither spent nor added to.
RouterPassesThrough ==
    [][\A m \in received' \ received :
          /\ Gained(Router) = 0
          /\ Gained(m.pool) + Gained(m.recipient) = m.minted
          /\ Gained(m.pool) = pools'[m.pool].liability - pools[m.pool].liability]_vars

\* Composed with the router and with each other, the pools still behave as
\* EscrowPool says one pool does.
PoolOf(p) == INSTANCE EscrowPool WITH pool <- pools[p], balance <- usdc[p],
                                      Denomination <- Denom[p]

PoolsAreEscrows == /\ \A p \in Pools : PoolOf(p)!Init
                   /\ [][\A p \in Pools : UNCHANGED PoolOf(p)!vars \/ PoolOf(p)!Next]_vars
=============================================================================
