----------------------------- MODULE PathSearch -----------------------------
(***************************************************************************)
(* pathToward as it runs: a breadth-first search over the table of allowed *)
(* edges.  TLC evaluates SearchIsRight for all pairs of states before it   *)
(* checks a run whose module extends this one.                             *)
(***************************************************************************)
EXTENDS IntentStates, SequencesExt

\* The states the inner loop visits for a path that ends in last, in order.
Successors(last, seen) ==
    SelectSeq(INTENT_STATES,
              LAMBDA next : TransitionAllowed(last, next) /\ next \notin seen)

\* The outer loop: a path is taken from the queue and extended by every state
\* that no path has reached; finding the target returns from the middle.
RECURSIVE Search(_, _, _)
Search(queue, seen, target) ==
    IF queue = <<>> THEN <<"invalid_transition">>
    ELSE LET path == Head(queue)
             next == Successors(Last(path), seen)
         IN  IF Contains(next, target) THEN Append(Tail(path), target)
             ELSE Search(Tail(queue) \o [i \in DOMAIN next |-> Append(path, next[i])],
                         seen \cup ToSet(next), target)

SearchPath(from, target) ==
    IF from = target THEN <<>> ELSE Search(<<<<from>>>>, {from}, target)

\* The search returns a shortest walk along allowed edges, of the shortest
\* ones the first in the order of INTENT_STATES, and throws only for a target
\* that no walk reaches: nothing is cut off by marking states as seen when
\* they are queued rather than when they are taken from the queue.
ASSUME SearchIsRight ==
    \A from, target \in IntentState :
        SearchPath(from, target) = IF Reachable(from, target) THEN PathToward(from, target)
                                   ELSE <<"invalid_transition">>
=============================================================================
