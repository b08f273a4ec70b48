---------------------------- MODULE EarnReceipt ----------------------------
(***************************************************************************)
(* What a deposit into Vesu or a redemption asks of Ready (vesu/actions),  *)
(* and how its receipt is judged (vesu/verify-receipt).  An event is a     *)
(* record of what the code reads of it, its selector as kind; the copy     *)
(* tells two equal events apart.  The order of events is never looked at.  *)
(* Status, finality and malformed amounts end the judgement and are left   *)
(* out.  The pool, the anonymizer and the vToken are external.             *)
(***************************************************************************)
EXTENDS Integers, FiniteSets

LOCAL INSTANCE FiniteSetsExt

CONSTANTS Txs,    \* sets of events a transaction may emit
          InAmounts  \* the amounts asked for

Operations == {"deposit", "redeem"}
InToken(op) == IF op = "deposit" THEN "underlying" ELSE "vToken"
OutToken(op) == IF op = "deposit" THEN "vToken" ELSE "underlying"

Withdrawal(to, token, amount, copy) ==
    [kind |-> "Withdrawal", to |-> to, token |-> token, amount |-> amount, copy |-> copy]
Invoked(target, selector) ==
    [kind |-> "ExternalContractInvoked", to |-> target, selector |-> selector]
Vesu(op, actors, assets, shares, copy) ==
    [kind |-> op, actors |-> actors, assets |-> assets, shares |-> shares, copy |-> copy]
OpenNote(depositor, token, amount, copy) ==
    [kind |-> "OpenNoteDeposited", depositor |-> depositor, token |-> token,
     amount |-> amount, copy |-> copy]

Matching(events, kind) == {e \in events : e.kind = kind}
Unique(events, e) == events = {e}

\* Extra withdrawals of the pool are Ready's, a fee or gas.
EarnWithdrawals(events, op) ==
    {e \in Matching(events, "Withdrawal") : e.to = "anonymizer" /\ e.token = InToken(op)}

verifyVesuEarnReceipt(events, op, amount) ==
    \E call \in Matching(events, "ExternalContractInvoked"),
       withdrawal \in EarnWithdrawals(events, op),
       vesu \in Matching(events, op), note \in Matching(events, "OpenNoteDeposited") :
        /\ Unique(Matching(events, "ExternalContractInvoked"), call)
        /\ call.to = "anonymizer" /\ call.selector = "privacy_invoke"
        /\ Unique(EarnWithdrawals(events, op), withdrawal)
        /\ withdrawal.amount = amount
        /\ Unique(Matching(events, op), vesu)
        /\ vesu.actors = "anonymizer"
        /\ (IF op = "deposit" THEN vesu.assets ELSE vesu.shares) = amount
        /\ Unique(Matching(events, "OpenNoteDeposited"), note)
        /\ note.depositor = "anonymizer" /\ note.token = OutToken(op)
        /\ note.amount > 0
        /\ note.amount = IF op = "deposit" THEN vesu.shares ELSE vesu.assets

-----------------------------------------------------------------------------
(* The anonymizer's balance, from what the events moved.                   *)

Total(events, kind, token) ==
    MapThenSumSet(LAMBDA e : e.amount,
                  {e \in Matching(events, kind) : e.token = token /\
                      (IF kind = "Withdrawal" THEN e.to ELSE e.depositor) = "anonymizer"})
Converted(events, op, shares) ==
    MapThenSumSet(LAMBDA e : IF shares THEN e.shares ELSE e.assets,
                  {e \in Matching(events, op) : e.actors = "anonymizer"})

PoolGave(events, token) == Total(events, "Withdrawal", token)
                           - Total(events, "OpenNoteDeposited", token)
VesuGave(events, token) ==
    IF token = "vToken"
    THEN Converted(events, "deposit", TRUE) - Converted(events, "redeem", TRUE)
    ELSE Converted(events, "redeem", FALSE) - Converted(events, "deposit", FALSE)

\* assertAnonymizerBalancesCleared, at the block of the transaction.
BalancesCleared(events) ==
    \A token \in {"underlying", "vToken"} : PoolGave(events, token) + VesuGave(events, token) = 0

verifyVesuEarnTransaction(events, op, amount) ==
    verifyVesuEarnReceipt(events, op, amount) /\ BalancesCleared(events)

-----------------------------------------------------------------------------
(* vesuDepositActions and vesuRedeemActions, and what comes of them.  A    *)
(* share is worth two assets.                                              *)

VesuActions(op, amount) ==
    [withdraw |-> [token |-> InToken(op), amount |-> amount, recipient |-> "anonymizer"],
     transfer |-> [token |-> OutToken(op), amount |-> "OPEN"],
     invoke |-> [contract |-> "anonymizer", operation |-> op, in |-> InToken(op),
                 out |-> OutToken(op), amount |-> amount]]

Converts(op, amount) == IF op = "deposit" THEN amount \div 2 ELSE amount * 2

Executed(actions) ==
    LET op == actions.invoke.operation
        in == actions.invoke.amount
        out == Converts(op, in)
    IN  { Withdrawal(actions.withdraw.recipient, actions.withdraw.token,
                     actions.withdraw.amount, 1),
          Invoked(actions.invoke.contract, "privacy_invoke"),
          IF op = "deposit" THEN Vesu(op, "anonymizer", in, out, 1)
          ELSE Vesu(op, "anonymizer", out, in, 1),
          OpenNote("anonymizer", actions.transfer.token, out, 1) }

\* What is built is verified, with Ready's fee beside it or without; and of
\* whatever else a transaction may be, one that is verified has taken exactly
\* the amount out of the private balance of the input token and has put what
\* Vesu gives for that amount into the private balance of the other, although
\* other withdrawals and another use of Vesu in it are not looked at.
ASSUME ReceiptMeansEarned ==
    \A op \in Operations, amount \in InAmounts :
        /\ \A fee \in {{}, {Withdrawal("paymaster", "underlying", 1, 1)}} :
              verifyVesuEarnTransaction(Executed(VesuActions(op, amount)) \cup fee, op, amount)
        /\ \A events \in Txs :
              verifyVesuEarnTransaction(events, op, amount) =>
                  /\ PoolGave(events, InToken(op)) = amount
                  /\ PoolGave(events, OutToken(op)) = - Converts(op, amount)
=============================================================================
