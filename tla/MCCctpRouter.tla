---------------------------- MODULE MCCctpRouter ----------------------------
(***************************************************************************)
(* CctpRouter on two pools of different denominations and the burns that   *)
(* matter: exact, with a surplus, with too little, with nothing, one       *)
(* intent burned twice, two intents for one claim, another expiry, the     *)
(* wrong denomination for the pool, a header that names somebody else, a   *)
(* source domain that mainnet never admits.  Beside them, what the API     *)
(* checks: decoded messages right and wrong in every field, and bytes.     *)
(***************************************************************************)
EXTENDS Settlement, CctpMessage, RelayerRow, TLC

CONSTANTS p1, p2, h1, alice, i1, i2, i3, MaxHeld,
          MaxRequested, MaxFeeBps   \* bounds of the quotes looked at

TheDenom == p1 :> 1 @@ p2 :> 2

Message(domain, intent, bound, pool, denomination, claim, expiresAt, minted) ==
    [domain |-> domain, intent |-> intent, bound |-> bound, pool |-> pool,
     denomination |-> denomination, claim |-> claim, recipient |-> alice,
     expiresAt |-> expiresAt, minted |-> minted]

TheMessages ==
    { Message("base", i1, TRUE, p1, 1, h1, 2, 1),
      Message("base", i1, TRUE, p1, 1, h1, 2, 0),
      Message("base", i2, TRUE, p2, 2, h1, 2, 3),
      Message("base", i3, TRUE, p2, 2, h1, 1, 2),
      Message("base", i3, TRUE, p2, 2, h1, 2, 1),
      Message("base", i2, TRUE, p1, 2, h1, 2, 2),
      Message("base", i2, FALSE, p1, 1, h1, 2, 0),
      Message("ethereum", i2, TRUE, p1, 1, h1, 2, 1) }

Job(intent, domain, denomination, expiresAt, grossDebit, maxFee, minFinality) ==
    [intent |-> intent, domain |-> domain, denomination |-> denomination, claim |-> h1,
     refund |-> alice, expiresAt |-> expiresAt,
     quote |-> [grossDebit |-> grossDebit, maxFee |-> maxFee, minFinality |-> minFinality]]

TheJobs == {Job(i1, "base", 1, 2, 2, 1, 1000), Job(i2, "ethereum", 2, 1, 2, 0, 2000)}

\* The message of a job, and every value its fields take.
Exact(job, pool) ==
    [domain |-> job.domain, destination |-> 25, destinationCaller |-> Router,
     mintRecipient |-> Router, recipient |-> "messenger", burnToken |-> "usdc",
     intent |-> job.intent, pool |-> pool, denomination |-> job.denomination,
     claim |-> h1, refund |-> alice, expiresAt |-> job.expiresAt,
     amount |-> job.quote.grossDebit, maxFee |-> job.quote.maxFee,
     feeExecuted |-> job.quote.maxFee, minFinality |-> job.quote.minFinality,
     finalityExecuted |-> 2000]

Values ==
    [domain |-> {"base", "ethereum"}, destination |-> {25, 0},
     destinationCaller |-> {Router, alice}, mintRecipient |-> {Router, alice},
     recipient |-> {"messenger", "other"}, burnToken |-> {"usdc", "other"},
     intent |-> {i1, i2}, pool |-> Pools \cup {alice}, denomination |-> {1, 2},
     claim |-> {h1, NoHash}, refund |-> {alice, NoRecipient}, expiresAt |-> {1, 2},
     amount |-> 0..2, maxFee |-> {0, 1}, feeExecuted |-> 0..2,
     minFinality |-> {1000, 2000}, finalityExecuted |-> {1000, 2000}]

\* Any two fields of either message taking any of their values.
TheDecoded ==
    UNION {{[message EXCEPT ![f] = v, ![g] = w] : v \in Values[f], w \in Values[g]} :
              f \in DOMAIN Values, g \in DOMAIN Values,
              message \in {Exact(job, CHOOSE p \in Pools : Denom[p] = job.denomination) :
                              job \in TheJobs}}

\* Bytes that differ from field to field and from place to place.
Ruler(n, width) == <<1>> \o [i \in 1..width - 1 |-> (n * 37 + i) % 256]

BaseInput ==
    [sourceDomain |-> Small(6, 4), destinationDomain |-> StarknetDomain,
     recipient |-> Ruler(1, 32), destinationCaller |-> Ruler(2, 32),
     mintRecipient |-> Ruler(3, 32), amount |-> Ruler(4, 16),
     intentId |-> Wide(Ruler(5, 16)), denominationCode |-> Small(258, 32),
     escrowPool |-> Ruler(6, 32), claimHash |-> Ruler(7, 32),
     publicRefundRecipient |-> Ruler(8, 32), expiresAt |-> Ruler(9, 8),
     manifestVersion |-> Small(1, 32), minFinalityThreshold |-> Zeros(4),
     finalityThresholdExecuted |-> Zeros(4), burnToken |-> Small(1110, 32),
     maxFee |-> Zeros(32), feeExecuted |-> Zeros(32)]

TheInputs == {BaseInput, [BaseInput EXCEPT !.claimHash = Prime],
              [BaseInput EXCEPT !.escrowPool = Prime],
              [BaseInput EXCEPT !.manifestVersion = Small(2, 32)]}

\* Rates in whole basis points and, up to a tenth of them, in tenths.
TheRates == [num: 0..MaxFeeBps, den: {1}] \cup [num: 0..MaxFeeBps \div 10, den: {10}]

\* Every quote within the bounds is the least, and good for any rate a fifth
\* higher; there is none only where a fee eats the whole of an amount tried.
ASSUME QuoteIsLeast ==
    \A rate \in TheRates, requested \in 1..MaxRequested :
        LET gross == solveExactNet(rate, requested)
        IN  IF gross = 0 THEN \E g \in requested..2 * requested : ~Payable(rate, g)
            ELSE /\ IsLeast(rate, requested, gross)
                 /\ \A num \in rate.num..(rate.num * 6) \div 5 :
                       Survives([rate EXCEPT !.num = num], requested, gross)

-----------------------------------------------------------------------------
(* The other way a burn is settled is by the workers of the API.  A        *)
(* behaviour is of the contracts or of two workers that hold one job, and  *)
(* leaves the other where it began.                                        *)

CONSTANTS MaxTxs,      \* bounds: TLC goes on from states with so many sent
          MaxVersion   \* and so many changes of the row

VARIABLE scene

settlement == <<jobRow, intentRow, txs, chain, worker, indexer, cursor, faults, cuts>>

SceneInit == Init /\ R!Init /\ scene \in {"contracts", "workers"}

SceneNext == /\ \/ scene = "contracts" /\ Next /\ UNCHANGED settlement
                \/ scene = "workers" /\ R!Next /\ UNCHANGED vars
             /\ UNCHANGED scene

SceneSpec == SceneInit /\ [][SceneNext]_<<vars, settlement, scene>>

Symmetric == Permutations(Workers)

\* The states from which TLC goes on; every invariant is checked at the rim.
WithinBounds == /\ \A a \in Pools \cup {Router} : usdc[a] <= MaxHeld
                /\ Len(txs) <= MaxTxs
                /\ intentRow.version <= MaxVersion
=============================================================================
