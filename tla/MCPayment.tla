----------------------------- MODULE MCPayment -----------------------------
(***************************************************************************)
(* A payment from the form to its end, in two scenes; a behaviour plays    *)
(* one of them and leaves the other where it began.                        *)
(*   form  one run of the send form and all its attempts: every race with  *)
(*         the API, the user and the source chain;                         *)
(*   row   the row of the intent from draft on, next to the claim in the   *)
(*         escrow pool.                                                    *)
(***************************************************************************)
EXTENDS SendFlow, IntentWorkflow

CONSTANTS s1

VARIABLE scene

all == <<sendVars, vars, scene>>

SceneInit == /\ SendInit /\ Init
             /\ scene \in {"form", "row"}
             /\ scene # "form" => /\ page = Blank("mainnet")
                                  /\ \A s \in Sends : send[s].route = "starknet"

SceneNext == /\ \/ scene = "form" /\ SendNext /\ UNCHANGED vars
                \/ scene = "row" /\ Next /\ UNCHANGED sendVars
             /\ UNCHANGED scene

InForm(step) == scene = "form" /\ step /\ UNCHANGED <<vars, scene>>
InRow(step) == scene = "row" /\ step /\ UNCHANGED <<sendVars, scene>>

\* The fairness of the two, each in its scene.
SceneSpec == /\ SceneInit /\ [][SceneNext]_all
             /\ \A s \in Sends : WF_all(InForm(RunStep(s)))
             /\ \A x \in Indexers : WF_all(InRow(IndexerStep(x)))
             /\ \A r \in Requests : WF_all(InRow(Continue(r)))
=============================================================================
