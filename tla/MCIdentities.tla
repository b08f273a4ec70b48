---------------------------- MODULE MCIdentities ----------------------------
(***************************************************************************)
(* Identities with a login at Google and one at X.                         *)
(***************************************************************************)
EXTENDS Identities, TLC

CONSTANTS g, x

GoogleAndX == g :> "google" @@ x :> "x"

Symmetric == Permutations(Persons) \cup Permutations(Syncs) \cup Permutations(Handles)
=============================================================================
