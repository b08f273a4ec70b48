----------------------------- MODULE Settlement -----------------------------
(***************************************************************************)
(* What the API decides about a CCTP burn on its two ends: the amounts it  *)
(* quotes before the burn (Quotes), and what it lets the relayer submit to *)
(* the router after it (relayer/validate-settlement.ts), next to the       *)
(* router and the pools the submission meets.                              *)
(*                                                                         *)
(* A decoded message keeps its fields apart, as CctpMessage reads them; an *)
(* amount is a number.  The pools of the router are those of the manifest, *)
(* one for a denomination.  Denomination codes are one to one, so a code   *)
(* stands for its amount.                                                  *)
(***************************************************************************)
EXTENDS CctpRouter, Quotes

CONSTANTS Jobs,            \* stored intents with the quotes signed for them
          Decoded,         \* decoded messages
          TokenMessenger,  \* Circle's on Starknet
          Usdc             \* the burn token of the source chain

ASSUME SettlementAssumption ==
    /\ \A job \in Jobs : job.quote.grossDebit - job.quote.maxFee >= job.denomination
    /\ \A p, q \in Pools : Denom[p] = Denom[q] => p = q
    /\ \A d \in Decoded : d.amount \in Nat /\ d.feeExecuted \in Nat

-----------------------------------------------------------------------------
(* validateSettlement, check by check; job.quote is what was signed.       *)

PoolFor(denomination) == CHOOSE p \in Pools : Denom[p] = denomination

\* The token of a Stellar burn is not looked at.
HeaderOk(d, job) == /\ d.domain = job.domain
                    /\ d.destination = 25
                    /\ d.destinationCaller = Router /\ d.mintRecipient = Router
                    /\ d.recipient = TokenMessenger
                    /\ d.burnToken = Usdc \/ job.domain = "stellar"

\* The pool looked up and not compared.
HookOk_AnyPool(d, job) == /\ d.intent = job.intent
                          /\ job.denomination \in {Denom[p] : p \in Pools}
                          /\ d.denomination = job.denomination
                          /\ d.claim = job.claim
                          /\ d.refund = job.refund
                          /\ d.expiresAt = job.expiresAt

HookOk(d, job) == /\ d.intent = job.intent
                  /\ job.denomination \in {Denom[p] : p \in Pools}
                  /\ d.pool = PoolFor(job.denomination)
                  /\ d.denomination = job.denomination
                  /\ d.claim = job.claim
                  /\ d.refund = job.refund
                  /\ d.expiresAt = job.expiresAt

FeeOk(d, job) == /\ d.amount = job.quote.grossDebit
                 /\ d.maxFee = job.quote.maxFee
                 /\ d.feeExecuted <= d.maxFee
                 /\ d.amount - d.feeExecuted >= job.denomination

FinalityOk(d, job) == /\ d.minFinality = job.quote.minFinality
                      /\ d.finalityExecuted >= d.minFinality

validateSettlement(d, job) == /\ HeaderOk(d, job) /\ HookOk(d, job)
                              /\ FeeOk(d, job) /\ FinalityOk(d, job)

\* The message as CctpRouter has it; Circle mints what the fee has left.
AsMessage(d) ==
    [domain |-> d.domain, intent |-> d.intent,
     bound |-> /\ d.destination = 25 /\ d.recipient = TokenMessenger
               /\ d.mintRecipient = Router /\ d.destinationCaller = Router,
     pool |-> d.pool, denomination |-> d.denomination, claim |-> d.claim,
     recipient |-> d.refund, expiresAt |-> d.expiresAt,
     minted |-> d.amount - d.feeExecuted]

ToSubmit == {d \in Decoded : \E job \in Jobs : validateSettlement(d, job)}

\* A message the API lets through is one the router takes: in every state
\* nothing but the owner's switches, an intent already settled, or a claim
\* that is taken or has expired keeps it from funding the pool it names, and
\* it is never sent on to the refund recipient as too little.
ValidatedSettles ==
    \A d \in ToSubmit :
        LET m == AsMessage(d)
        IN  /\ ValidBindings(m)
            /\ ~Underfunded(m.minted, m.denomination)
            /\ CanFund(pools[m.pool], m.claim, m.recipient, m.expiresAt, now) =>
                  Fundable(m, m.minted)
=============================================================================
