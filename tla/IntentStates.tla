---------------------------- MODULE IntentStates ----------------------------
(***************************************************************************)
(* The states of a payment intent, the edges the API may take between      *)
(* them, and the walk it takes from one state to another that is several   *)
(* edges away.  transitionToward never skips an edge: it writes every      *)
(* state of pathToward in turn.                                            *)
(***************************************************************************)
EXTENDS Integers, Sequences

\* The order matters: of two walks of the same length, the one that goes
\* through the earlier state is taken.
INTENT_STATES ==
    <<"draft", "quoted", "source_submitted", "source_confirmed",
      "attestation_ready", "destination_submitted", "funded", "delivered",
      "claimable", "claimed", "expired", "refundable", "refunded",
      "completed", "failed_recoverable", "failed_terminal">>

IntentState == {INTENT_STATES[i] : i \in 1..Len(INTENT_STATES)}

allowed ==
    [draft |-> {"quoted", "failed_terminal"},
     quoted |-> {"source_submitted", "failed_recoverable", "failed_terminal"},
     source_submitted |-> {"source_confirmed", "failed_recoverable", "failed_terminal"},
     source_confirmed |-> {"attestation_ready", "funded", "delivered", "completed",
                           "failed_recoverable"},
     attestation_ready |-> {"destination_submitted", "failed_recoverable"},
     destination_submitted |-> {"funded", "failed_recoverable"},
     funded |-> {"delivered", "claimable", "expired", "failed_recoverable"},
     delivered |-> {"claimable", "completed", "expired", "failed_recoverable"},
     claimable |-> {"claimed", "expired", "failed_recoverable"},
     claimed |-> {},
     expired |-> {"refundable", "failed_recoverable"},
     refundable |-> {"refunded", "failed_recoverable"},
     refunded |-> {},
     completed |-> {},
     failed_recoverable |-> {"source_submitted", "source_confirmed", "attestation_ready",
                             "destination_submitted", "funded", "delivered", "claimable",
                             "expired", "refundable", "failed_terminal"},
     failed_terminal |-> {}]

TransitionAllowed(from, to) == to \in allowed[from]

Terminal == {s \in IntentState : allowed[s] = {}}

-----------------------------------------------------------------------------
(* pathToward, said without its breadth-first loop (PathSearch has that):  *)
(* every step leads to the first state, in the order above, from which the *)
(* target is one edge nearer.                                              *)

\* No walk of this table is longer (PathSearch would find one that is).
Longest == 4
Steps == 0..Longest

AtMostOneEdgeFrom(t) == {s \in IntentState : s = t \/ TransitionAllowed(s, t)}

\* Within[t][n]: the states from which t is at most n edges away.
Within == [t \in IntentState |->
             LET W[n \in Steps] ==
                   IF n = 0 THEN {t} ELSE UNION {AtMostOneEdgeFrom(s) : s \in W[n-1]}
             IN  W]

Reachable(from, target) == from \in Within[target][Longest]

Distance(from, target) ==
    CHOOSE n \in Steps : /\ from \in Within[target][n]
                         /\ n = 0 \/ from \notin Within[target][n-1]

OneEdgeNearer(from, target) == allowed[from] \cap Within[target][Distance(from, target) - 1]

NextToward(from, target) ==
    LET nearer == OneEdgeNearer(from, target)
    IN  INTENT_STATES[CHOOSE i \in DOMAIN INTENT_STATES :
            /\ INTENT_STATES[i] \in nearer
            /\ \A j \in 1..(i-1) : INTENT_STATES[j] \notin nearer]

\* The walk, without the state it starts from.
PathToward(from, target) ==
    LET Walk[n \in Steps] ==
          IF n = 0 THEN <<from>>
          ELSE LET walk == Walk[n-1]
               IN  Append(walk, NextToward(walk[n], target))
    IN  Tail(Walk[Distance(from, target)])
=============================================================================
