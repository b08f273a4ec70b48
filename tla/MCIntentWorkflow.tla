-------------------------- MODULE MCIntentWorkflow --------------------------
(***************************************************************************)
(* IntentWorkflow with a few tasks.  Tasks of a kind are interchangeable.  *)
(***************************************************************************)
EXTENDS IntentWorkflow, PathSearch, TLC

CONSTANTS MaxVersion   \* bound: TLC goes on from rows that changed less often

WithinBounds == intent.version < MaxVersion

Symmetric == Permutations(Requests) \cup Permutations(Indexers)
=============================================================================
