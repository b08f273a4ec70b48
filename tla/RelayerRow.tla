------------------------------ MODULE RelayerRow ------------------------------
(***************************************************************************)
(* Relayer, under names that leave those of CctpRouter and Settlement      *)
(* free: a burn is settled by the calls of outsiders to the router, or by  *)
(* the workers of the API, which hold a job and change the row of an       *)
(* intent.                                                                 *)
(***************************************************************************)
CONSTANTS Workers, MaxAttempts, Exits, MaxFaults, MaxCuts  \* as in Relayer

VARIABLES jobRow,       \* relayer_jobs
          intentRow,    \* intents
          txs, chain, worker, indexer, cursor, faults, cuts

R == INSTANCE Relayer WITH job <- jobRow, intent <- intentRow

ASSUME RelayerRowAssumption == R!RelayerAssumption

(* No worker calls an intent funded, or a job succeeded, whose burn is not *)
(* settled: processJob.                                                    *)
FundedMeansSettled == R!FundedMeansSettled
=============================================================================
