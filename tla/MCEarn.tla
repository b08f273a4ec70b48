------------------------------- MODULE MCEarn -------------------------------
(***************************************************************************)
(* Earn with one tab, where the claim view has been mounted twice beside   *)
(* the Earn panel, or with two tabs, each with an Earn panel; and the      *)
(* receipts of transactions of four to six events.                         *)
(***************************************************************************)
EXTENDS Earn, EarnReceipt

CONSTANTS e1, e2, c1, c2, t1, t2

MCLayouts ==
    {(e1 :> t1) @@ (e2 :> Nobody) @@ (c1 :> t1) @@ (c2 :> t1),
     (e1 :> t1) @@ (e2 :> t2) @@ (c1 :> Nobody) @@ (c2 :> Nobody)}

MCEvents ==
    {Withdrawal("anonymizer", token, amount, 1) :
        token \in {"underlying", "vToken"}, amount \in {2, 4}}
    \cup {Withdrawal("anonymizer", "underlying", 2, 2), Withdrawal("paymaster", "vToken", 2, 1)}
    \cup {Invoked("anonymizer", "privacy_invoke"), Invoked("other", "privacy_invoke")}
    \cup {Vesu(op, "anonymizer", 2 * shares, shares, 1) :
             op \in Operations, shares \in {1, 2, 4}}
    \cup {Vesu("deposit", "other", 4, 2, 1)}
    \cup {OpenNote("anonymizer", token, amount, 1) :
             token \in {"underlying", "vToken"}, amount \in {2, 4}}

MCTxs == {events \in SUBSET MCEvents : Cardinality(events) \in 4..6}

Symmetric == Permutations(ClaimViews)
=============================================================================
