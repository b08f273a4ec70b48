------------------------------ MODULE ReadModel ------------------------------
(***************************************************************************)
(* The indexer with its chain and read model, under names that leave those *)
(* of IntentWorkflow free: the two speak of the same indexer, one of its   *)
(* events and the column onchain_state, the other of the row's state.      *)
(***************************************************************************)
CONSTANTS Followers,    \* processes that run the loop
          Claims, MaxHeight, MaxReorgs,
          MaxBreaks     \* bound: how often an iteration breaks off

VARIABLES blocks,       \* the chain
          forks, lease,
          saved,        \* the cursor
          canonical, onchain, iter, breaks, torn, unseen

Ix == INSTANCE Indexer WITH Indexers <- Followers, MaxCuts <- MaxBreaks,
                            chain <- blocks, cursor <- saved, cuts <- breaks

ASSUME ReadModelAssumption == Ix!IndexerAssumption

(* A reorganisation that takes the block of the cursor, or nothing of what *)
(* is projected, is noticed and mended: runIndexerOnce.                    *)
ReadModelTrue == Ix!ReadModelTrue
=============================================================================
