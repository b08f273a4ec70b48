----------------------------- MODULE ClaimLedger -----------------------------
(***************************************************************************)
(* What a Wotta escrow pool promises, without saying how: a ledger of      *)
(* claims of one fixed amount, and a vault that holds the tokens.  A claim *)
(* is funded once, leaves the ledger once (claimed or refunded), and no    *)
(* claim is ever funded unless the vault holds the tokens of every claim   *)
(* that is still live, the new one included.  Anybody may add tokens.      *)
(***************************************************************************)
EXTENDS Integers, FiniteSets

CONSTANTS Claims,      \* the identifiers a claim can have
          Amount       \* the tokens one claim is worth

VARIABLES ledger,      \* the stage of every claim
          vault        \* the tokens held

vars == <<ledger, vault>>

Stages == {"none", "funded", "claimed", "refunded"}

Live(l) == {c \in Claims : l[c] = "funded"}
Owed(l) == Amount * Cardinality(Live(l))

TypeOK == /\ ledger \in [Claims -> Stages]
          /\ vault \in Nat

Init == /\ ledger = [c \in Claims |-> "none"]
        /\ vault = 0

\* The tokens may come with the claim or have been there before it.
Fund(c) == /\ ledger[c] = "none"
           /\ ledger' = [ledger EXCEPT ![c] = "funded"]
           /\ vault' \in Nat
           /\ vault' >= vault
           /\ vault' >= Owed(ledger')

\* A claim leaves with exactly its own tokens.
Settle(c, stage) == /\ ledger[c] = "funded"
                    /\ ledger' = [ledger EXCEPT ![c] = stage]
                    /\ vault' = vault - Amount

Gift == /\ vault' \in Nat
        /\ vault' > vault
        /\ UNCHANGED ledger

Next == \/ \E c \in Claims : \/ Fund(c)
                             \/ Settle(c, "claimed")
                             \/ Settle(c, "refunded")
        \/ Gift

Spec == Init /\ [][Next]_vars

\* The vault holds what the live claims are worth.
Backed == vault >= Owed(ledger)
=============================================================================
