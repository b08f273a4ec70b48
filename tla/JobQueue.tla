------------------------------- MODULE JobQueue -------------------------------
(***************************************************************************)
(* The queue of relayer_jobs, the loop of a relayer that works it off, and *)
(* the client of Circle's Iris in its process.  An iteration takes the     *)
(* oldest jobs that are queued, ten at most, and goes through them one     *)
(* after the other.  The client remembers attestations, waits longer and   *)
(* longer between two questions about a burn, and keeps quiet after a 429. *)
(* A job whose attestation is not there goes back to where it was.         *)
(*                                                                         *)
(* One job in the hands of several workers, and what its settlement does,  *)
(* are in Relayer: here it succeeds, or throws.  There is one request to   *)
(* Iris at a time, as the loop awaits each, so IRIS_IN_FLIGHT is left out. *)
(* A point in time is a number of ticks from now; a tick is the first      *)
(* backoff, five seconds.                                                  *)
(***************************************************************************)
EXTENDS Naturals, Sequences, FiniteSets

CONSTANTS NumJobs,      \* jobs, one for each burn, numbered by created_at
          Batch,        \* 10: limit of the selection
          MaxEntries,   \* IRIS_CACHE_MAX_ENTRIES
          Lifetime,     \* IRIS_CACHE_TTL_MS
          Doublings,    \* 5: the backoff doubles so often
          LongestWait,  \* 120 s
          Cooldowns,    \* bound: what a 429 may ask for, the five minutes among it
          MaxTrouble    \* bound: errors of Iris or of a settlement, restarts

ASSUME QueueAssumption ==
    /\ NumJobs \in Nat \ {0} /\ Batch \in Nat \ {0}
    /\ MaxEntries \in Nat \ {0} /\ Lifetime \in Nat \ {0}
    /\ Doublings \in 0..5 /\ LongestWait \in Nat \ {0}
    /\ Cooldowns \subseteq Nat \ {0}
    /\ MaxTrouble \in Nat

Jobs == 1..NumJobs

VARIABLES
    status,     \* relayer_jobs.status; done is succeeded or failed
    round,      \* the jobs of the iteration that are still to come
    hand,       \* the job the loop is at, and what it is about to do
    complete,   \* Iris has the attestation
    cache,      \* IRIS_CACHE, in the order of insertion
    tries,      \* IRIS_POLL_STATE: attempts; 0 is no entry
    wait,       \*   and the time until nextPollAt
    limited,    \* the time until irisRateLimitedUntil
    trouble

loop == <<status, round, hand>>
polling == <<tries, wait, limited>>
queueVars == <<loop, complete, cache, polling, trouble>>

Entry == [burn: Jobs, left: 0..Lifetime]
EmptyHand == [job |-> 0, pc |-> "free"]

QueueTypeOK ==
    /\ status \in [Jobs -> {"none", "queued", "processing", "done"}]
    /\ round \subseteq Jobs
    /\ hand \in [job: Jobs, pc: {"look", "ask", "settle", "back", "fail"}] \cup {EmptyHand}
    /\ complete \subseteq Jobs
    /\ cache \in Seq(Entry)
    /\ tries \in [Jobs -> 0..Doublings + 1]
    /\ wait \in [Jobs -> Nat]
    /\ limited \in Nat
    /\ trouble \in 0..MaxTrouble

QueueInit ==
    /\ status = [j \in Jobs |-> "none"]
    /\ round = {}
    /\ hand = EmptyHand
    /\ complete = {}
    /\ cache = <<>>
    /\ tries = [j \in Jobs |-> 0]
    /\ wait = [j \in Jobs |-> 0]
    /\ limited = 0
    /\ trouble = 0

-----------------------------------------------------------------------------
(* The client's memory. *)

Least(m, n) == IF m <= n THEN m ELSE n

\* irisBackoffMs, with the jitter rounded up or down.
Backoff(attempt) ==
    LET ticks == Least(LongestWait, <<1, 2, 4, 8, 16, 32>>[Least(attempt, Doublings) + 1])
    IN  {ticks, ticks + 1}

\* deferPoll, counted from the time at; attempts beyond the last doubling are alike.
DeferPoll(j, at) ==
    /\ tries' = [tries EXCEPT ![j] = Least(@ + 1, Doublings + 1)]
    /\ \E backoff \in Backoff(tries[j]) : wait' = [wait EXCEPT ![j] = at + backoff]

Places(j) == {i \in 1..Len(cache) : cache[i].burn = j}
Held(j) == \E i \in Places(j) : cache[i].left > 0
Due(j) == limited = 0 /\ wait[j] = 0

Drop(s, i) == [k \in 1..Len(s) - 1 |-> IF k < i THEN s[k] ELSE s[k + 1]]

\* Map.delete: the others keep their order.
Deleted(j) == IF Places(j) = {} THEN cache
              ELSE Drop(cache, CHOOSE i \in Places(j) : TRUE)

\* cacheCompleted: Map.set puts a key at the end, but for one it already has.
Fresh(j) == [burn |-> j, left |-> Lifetime]

\* Makes room at the end at which the new entry is put.
Remembered_ForNewest(j) ==
    LET room == IF Len(cache) >= MaxEntries THEN Drop(cache, Len(cache)) ELSE cache
        here == {i \in 1..Len(room) : room[i].burn = j}
    IN  IF here # {} THEN [room EXCEPT ![CHOOSE i \in here : TRUE] = Fresh(j)]
                     ELSE Append(room, Fresh(j))

Remembered(j) ==
    LET room == IF Len(cache) >= MaxEntries THEN Tail(cache) ELSE cache
        here == {i \in 1..Len(room) : room[i].burn = j}
    IN  IF here # {} THEN [room EXCEPT ![CHOOSE i \in here : TRUE] = Fresh(j)]
                     ELSE Append(room, Fresh(j))

-----------------------------------------------------------------------------
(* An iteration: runRelayerOnce, and fetchAttestationWithBackoff in it. *)

Queued == {j \in Jobs : status[j] = "queued"}

Goes(j, pc) == hand' = [job |-> j, pc |-> pc]
Leaves(j, as) == /\ status' = [status EXCEPT ![j] = as]
                 /\ hand' = EmptyHand

\* The selection is not ordered.
SelectJobs_AsTheyCome ==
    /\ hand = EmptyHand /\ round = {}
    /\ \E some \in SUBSET Queued :
          Cardinality(some) = Least(Batch, Cardinality(Queued)) /\ round' = some
    /\ UNCHANGED <<status, hand, complete, cache, polling, trouble>>

SelectJobs ==
    /\ hand = EmptyHand /\ round = {}
    /\ round' = {j \in Queued : Cardinality({i \in Queued : i < j}) < Batch}
    /\ UNCHANGED <<status, hand, complete, cache, polling, trouble>>

\* The claim of the next one: nobody else takes a job, so it is still queued.
TakeJob ==
    /\ hand = EmptyHand
    /\ \E j \in round : /\ \A i \in round : j <= i
                        /\ round' = round \ {j}
                        /\ status' = [status EXCEPT ![j] = "processing"]
                        /\ Goes(j, "look")
    /\ UNCHANGED <<complete, cache, polling, trouble>>

\* Up to the await of the request, if there is one.
Look ==
    LET j == hand.job
    IN  /\ hand.pc = "look"
        /\ cache' = IF Held(j) THEN cache ELSE Deleted(j)
        /\ Goes(j, IF Held(j) THEN "settle" ELSE IF Due(j) THEN "ask" ELSE "back")
        /\ UNCHANGED <<status, round, complete, polling, trouble>>

Trouble == trouble < MaxTrouble /\ trouble' = trouble + 1

Arrived ==
    /\ hand.pc = "ask" /\ hand.job \in complete
    /\ cache' = Remembered(hand.job)
    /\ tries' = [tries EXCEPT ![hand.job] = 0]
    /\ wait' = [wait EXCEPT ![hand.job] = 0]
    /\ Goes(hand.job, "settle")
    /\ UNCHANGED <<status, round, complete, limited, trouble>>

\* A 404, or a message whose status is not complete.
Incomplete ==
    /\ hand.pc = "ask" /\ hand.job \notin complete
    /\ DeferPoll(hand.job, 0)
    /\ Goes(hand.job, "back")
    /\ UNCHANGED <<status, round, complete, cache, limited, trouble>>

\* A 5xx, or no connection.
Down ==
    /\ hand.pc = "ask" /\ Trouble
    /\ DeferPoll(hand.job, 0)
    /\ Goes(hand.job, "back")
    /\ UNCHANGED <<status, round, complete, cache, limited>>

RateLimited ==
    /\ hand.pc = "ask" /\ Trouble
    /\ \E cooldown \in Cooldowns :
          limited' = cooldown /\ DeferPoll(hand.job, cooldown)
    /\ Goes(hand.job, "back")
    /\ UNCHANGED <<status, round, complete, cache>>

\* Any other error of Iris, and whatever the settlement throws.
Throws ==
    /\ hand.pc \in {"ask", "settle"} /\ Trouble
    /\ Goes(hand.job, "fail")
    /\ UNCHANGED <<status, round, complete, cache, polling>>

Settles ==
    /\ hand.pc = "settle"
    /\ Leaves(hand.job, "done")
    /\ UNCHANGED <<round, complete, cache, polling, trouble>>

\* processJob was false: the job is queued again, as old as it was.
PutBack ==
    /\ hand.pc = "back"
    /\ Leaves(hand.job, "queued")
    /\ UNCHANGED <<round, complete, cache, polling, trouble>>

\* Another attempt, or the last one.
Fails ==
    /\ hand.pc = "fail"
    /\ Leaves(hand.job, "queued") \/ Leaves(hand.job, "done")
    /\ UNCHANGED <<round, complete, cache, polling, trouble>>

LoopStep == \/ SelectJobs \/ TakeJob \/ Look
            \/ Arrived \/ Incomplete \/ Down \/ RateLimited
            \/ Throws \/ Settles \/ PutBack \/ Fails

\* Ten minutes after its claim a job whose process is gone is queued again.
RequeueOrphan(j) ==
    /\ status[j] = "processing" /\ hand.job # j
    /\ status' = [status EXCEPT ![j] = "queued"]
    /\ UNCHANGED <<round, hand, complete, cache, polling, trouble>>

-----------------------------------------------------------------------------
(* The API, Circle, the process, and the clock. *)

QueueJob(j) ==
    /\ status[j] = "none"
    /\ \A i \in Jobs : i < j => status[i] # "none"
    /\ status' = [status EXCEPT ![j] = "queued"]
    /\ UNCHANGED <<round, hand, complete, cache, polling, trouble>>

Attest(j) == /\ complete' = complete \cup {j}
             /\ UNCHANGED <<loop, cache, polling, trouble>>

\* The job in hand stays claimed.
Restart ==
    /\ Trouble
    /\ round' = {} /\ hand' = EmptyHand
    /\ cache' = <<>>
    /\ tries' = [j \in Jobs |-> 0] /\ wait' = [j \in Jobs |-> 0]
    /\ limited' = 0
    /\ UNCHANGED <<status, complete>>

Sooner(time) == IF time = 0 THEN 0 ELSE time - 1

Tick ==
    /\ cache' = [i \in 1..Len(cache) |-> [cache[i] EXCEPT !.left = Sooner(@)]]
    /\ wait' = [j \in Jobs |-> Sooner(wait[j])]
    /\ limited' = Sooner(limited)
    /\ UNCHANGED <<loop, complete, tries, trouble>>

QueueNext == \/ LoopStep \/ Restart \/ Tick
             \/ \E j \in Jobs : RequeueOrphan(j) \/ QueueJob(j) \/ Attest(j)

QueueSpec == QueueInit /\ [][QueueNext]_queueVars

\* The loop goes on, and every request has an answer; the iteration after the
\* ten minutes finds the orphan.  Which job is looked at is not assumed, nor
\* that Iris ever has an attestation.
FairQueueSpec == /\ QueueSpec
                 /\ WF_queueVars(LoopStep) /\ WF_queueVars(Tick)
                 /\ \A j \in Jobs : WF_queueVars(RequeueOrphan(j))

-----------------------------------------------------------------------------
Open(j) == status[j] \in {"queued", "processing"}

\* The older jobs that Iris keeps waiting, and that come first in every round.
InTheWay(j) == {i \in Jobs : i < j /\ Open(i) /\ i \notin complete}

HasItsTurn(j) == Open(j) /\ j \in complete /\ Cardinality(InTheWay(j)) < Batch

\* A job whose burn is attested comes to its end, whatever came in between, as
\* long as the older jobs without an attestation leave it a place among those
\* the iteration takes: runRelayerOnce.  With ten of them in the way it may
\* wait for ever.
JobServed == \A j \in Jobs : HasItsTurn(j) ~> ~Open(j)

\* An attestation is given up before its time only when MaxEntries others have
\* come after it, the order of the map being the order of age: cacheCompleted.
OldestGoesFirst ==
    [][Restart \/
       \A i \in 1..Len(cache) :
          LET gone == ~\E k \in 1..Len(cache') : cache'[k].burn = cache[i].burn
          IN  gone /\ cache[i].left > 0 =>
                 /\ Len(cache') = MaxEntries
                 /\ \A k \in 1..Len(cache') : cache'[k].left >= cache[i].left]_queueVars
=============================================================================
