------------------------------- MODULE Quotes -------------------------------
(***************************************************************************)
(* The amounts the API quotes for a burn (quotes/circle.ts): the least     *)
(* gross amount of which the payment is left after the largest fee that    *)
(* the burn allows Circle.  All of it is arithmetic of natural numbers.    *)
(***************************************************************************)
EXTENDS Integers

CeilDiv(n, d) == (n + d - 1) \div d

\* Circle's fee in basis points, a decimal number: decimalRational.
Rate == [num: Nat, den: Nat \ {0}]

\* What Circle takes of a burn at a rate, rounded up.
ProtocolFee(rate, gross) == CeilDiv(gross * rate.num, rate.den * 10000)

\* FEE_BUFFER_BPS: a fifth of it, rounded up, in case the rate rises.
FeeBuffer(protocolFee) == CeilDiv(protocolFee * 2000, 10000)

FeeForGross(rate, gross) ==
    LET protocolFee == ProtocolFee(rate, gross)
    IN  protocolFee + FeeBuffer(protocolFee)

Net(rate, gross) == gross - FeeForGross(rate, gross)

\* A fee that leaves nothing of the gross ends the search with an error.
Payable(rate, gross) == FeeForGross(rate, gross) < gross

-----------------------------------------------------------------------------
(* solveExactNet: raise the gross by what is missing, until nothing is.    *)

Attempts == 10000

\* The gross of every attempt, and of those there would be after the last.
Tried(rate, requested) ==
    LET gross[n \in Nat] == IF n = 0 THEN requested
                            ELSE requested + FeeForGross(rate, gross[n - 1])
    IN  gross

Ends(rate, requested, gross) == ~Payable(rate, gross) \/ Net(rate, gross) >= requested

LastOf(rate, requested) ==
    LET tried == Tried(rate, requested)
    IN  CHOOSE n \in 0..Attempts - 1 :
            /\ Ends(rate, requested, tried[n])
            /\ \A m \in 0..n - 1 : ~Ends(rate, requested, tried[m])

\* 0 stands for an error.
solveExactNet(rate, requested) ==
    LET tried == Tried(rate, requested)
        last == tried[LastOf(rate, requested)]
    IN  IF /\ \E n \in 0..Attempts - 1 : Ends(rate, requested, tried[n])
           /\ Payable(rate, last)
        THEN last
        ELSE 0

-----------------------------------------------------------------------------
\* A quote asks the sender for the least amount of which the payment is left
\* after the largest fee it allows.
IsLeast(rate, requested, gross) ==
    /\ Net(rate, gross) >= requested
    /\ \A less \in 0..gross - 1 : Net(rate, less) < requested

AtMostAFifthMore(rate, risen) == 5 * (risen.num * rate.den) <= 6 * (rate.num * risen.den)

\* It keeps its promise at the rate of the burn, which may not be its own.
Survives(risen, requested, gross) == gross - ProtocolFee(risen, gross) >= requested
=============================================================================
