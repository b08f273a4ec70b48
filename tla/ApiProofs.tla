------------------------------ MODULE ApiProofs ------------------------------
(***************************************************************************)
(* Theorems about what the API keeps and admits.  IntentWorkflow, for any  *)
(* number of requests and indexers, cut off anywhere and any number of     *)
(* times: the row moves along one allowed edge at a time, it is never      *)
(* ahead of the chain, and its event log is a history with holes.          *)
(* Indexer, over any chain with any number of reorganisations and breaks:  *)
(* the read model is true to it.                                           *)
(* Admission, of an operator's configuration, and SmokeRun, of a smoke     *)
(* test, for every environment, manifest, evidence and visit.              *)
(***************************************************************************)
EXTENDS IntentWorkflow, ReadModel, SmokeRun, NaturalsInduction, WellFoundedInduction, TLAPS

-----------------------------------------------------------------------------
(* The table of edges. *)

LEMMA StateNames ==
    IntentState = {"draft", "quoted", "source_submitted", "source_confirmed",
                   "attestation_ready", "destination_submitted", "funded", "delivered",
                   "claimable", "claimed", "expired", "refundable", "refunded",
                   "completed", "failed_recoverable", "failed_terminal"}
  BY DEF IntentState, INTENT_STATES

LEMMA EdgesStayInTable == \A s \in IntentState : allowed[s] \subseteq IntentState
  BY StateNames DEF allowed

LEMMA FinalStates ==
    /\ allowed["claimed"] = {} /\ allowed["refunded"] = {}
    /\ allowed["completed"] = {} /\ allowed["failed_terminal"] = {}
  BY DEF allowed

-----------------------------------------------------------------------------
(* Walks of at most Longest edges.  Within[t] is given by recursion over   *)
(* the four steps; a function that satisfies its equation is written down  *)
(* step by step.                                                           *)

WithinNext(S) == UNION {AtMostOneEdgeFrom(s) : s \in S}

LEMMA WithinSteps ==
    ASSUME NEW t \in IntentState
    PROVE  /\ Within[t][0] = {t}
           /\ \A n \in 1..Longest : Within[t][n] = WithinNext(Within[t][n - 1])
  <1> DEFINE Eq(W) == W = [n \in Steps |-> IF n = 0 THEN {t} ELSE WithinNext(W[n-1])]
             w1 == WithinNext({t})
             w2 == WithinNext(w1)
             w3 == WithinNext(w2)
             w4 == WithinNext(w3)
             V == [n \in Steps |-> IF n = 0 THEN {t} ELSE IF n = 1 THEN w1
                                   ELSE IF n = 2 THEN w2 ELSE IF n = 3 THEN w3 ELSE w4]
  <1>1. Eq(V)
    <2> HIDE DEF w1, w2, w3, w4
    <2> SUFFICES ASSUME NEW n \in Steps
                 PROVE  V[n] = IF n = 0 THEN {t} ELSE WithinNext(V[n - 1])
      OBVIOUS
    <2>1. n \in 0..4
      BY DEF Steps, Longest
    <2>2. CASE n = 0
      BY <2>2
    <2>3. CASE n = 1
      BY <2>3 DEF w1, Steps, Longest
    <2>4. CASE n = 2
      BY <2>4 DEF w2, Steps, Longest
    <2>5. CASE n = 3
      BY <2>5 DEF w3, Steps, Longest
    <2>6. CASE n = 4
      BY <2>6 DEF w4, Steps, Longest
    <2>7. QED
      BY <2>1, <2>2, <2>3, <2>4, <2>5, <2>6
  <1> DEFINE W == CHOOSE U : Eq(U)
  <1>2. Eq(W)
    BY <1>1
  <1>3. Within[t] = W
    BY DEF Within, WithinNext
  <1> HIDE DEF W
  <1>4. \A n \in Steps : W[n] = IF n = 0 THEN {t} ELSE WithinNext(W[n - 1])
    BY <1>2
  <1>5. QED
    BY <1>3, <1>4 DEF Steps, Longest

LEMMA WithinGrows ==
    ASSUME NEW t \in IntentState, NEW n \in 1..Longest
    PROVE  Within[t][n - 1] \subseteq Within[t][n] /\ Within[t][n] \subseteq IntentState
  <1> DEFINE W == Within[t]
  <1>1. \A m \in 1..Longest : W[m] = WithinNext(W[m - 1])
    BY WithinSteps
  <1>2. W[0] = {t}
    BY WithinSteps
  <1> HIDE DEF W
  <1>3. \A S \in SUBSET IntentState : S \subseteq WithinNext(S) /\ WithinNext(S) \subseteq IntentState
    BY DEF WithinNext, AtMostOneEdgeFrom
  <1>4. W[0] \in SUBSET IntentState
    BY <1>2
  <1>5. W[1] \in SUBSET IntentState
    BY <1>1, <1>3, <1>4 DEF Longest
  <1>6. W[2] \in SUBSET IntentState
    BY <1>1, <1>3, <1>5 DEF Longest
  <1>7. W[3] \in SUBSET IntentState
    BY <1>1, <1>3, <1>6 DEF Longest
  <1>8. W[n - 1] \in SUBSET IntentState
    BY <1>4, <1>5, <1>6, <1>7 DEF Longest
  <1>9. QED
    BY <1>1, <1>3, <1>8 DEF W

LEMMA WithinDistance ==
    ASSUME NEW target \in IntentState, NEW from, Reachable(from, target), from # target
    PROVE  LET d == Distance(from, target)
           IN  /\ d \in 1..Longest
               /\ from \in Within[target][d] /\ from \notin Within[target][d - 1]
  <1> DEFINE W == Within[target]
             At(n) == from \in W[n] /\ (n = 0 \/ from \notin W[n - 1])
  <1>1. from \in W[4]
    BY DEF Reachable, Longest
  <1>2. from \notin W[0]
    BY WithinSteps
  <1> HIDE DEF W
  <1>3. \E n \in Steps : At(n)
    <2>1. CASE from \in W[1]
      BY <2>1, <1>2 DEF Steps, Longest
    <2>2. CASE from \notin W[1] /\ from \in W[2]
      BY <2>2 DEF Steps, Longest
    <2>3. CASE from \notin W[2] /\ from \in W[3]
      BY <2>3 DEF Steps, Longest
    <2>4. CASE from \notin W[3]
      BY <2>4, <1>1 DEF Steps, Longest
    <2>5. QED
      BY <2>1, <2>2, <2>3, <2>4
  <1> DEFINE d == CHOOSE n \in Steps : At(n)
  <1>4. d \in Steps /\ At(d)
    BY <1>3
  <1>5. Distance(from, target) = d
    BY DEF Distance, W
  <1> HIDE DEF d
  <1>6. d # 0
    BY <1>2, <1>4
  <1>7. QED
    BY <1>4, <1>5, <1>6 DEF W, Steps, Longest

(* A set of numbers has a least one. *)
LEMMA LeastNumber ==
    ASSUME NEW S \in SUBSET Nat, S # {}
    PROVE  \E i \in S : \A j \in S : i <= j
  <1> DEFINE R == OpToRel(<, Nat)
  <1>1. IsWellFoundedOn(R, Nat)
    BY NatLessThanWellFounded
  <1>2. \E i \in S : \A j \in S : ~ (<<j, i>> \in R)
    <2> HIDE DEF R
    <2>1. QED
      BY <1>1, WFMin
  <1>3. PICK i \in S : \A j \in S : ~ (<<j, i>> \in R)
    BY <1>2
  <1>4. \A j \in S : ~ (j < i)
    BY <1>3 DEF OpToRel
  <1>5. QED
    BY <1>4

(* Every step of a walk is an edge that leads nearer. *)
LEMMA NextIsNearer ==
    ASSUME NEW target \in IntentState, NEW from \in IntentState,
           Reachable(from, target), from # target
    PROVE  LET next == NextToward(from, target)
           IN  /\ next \in allowed[from] /\ next \in IntentState /\ next # from
               /\ Reachable(next, target)
               /\ next \in Within[target][Distance(from, target) - 1]
  <1> DEFINE d == Distance(from, target)
             nearer == OneEdgeNearer(from, target)
             First(i) == /\ INTENT_STATES[i] \in nearer
                         /\ \A j \in 1..(i-1) : INTENT_STATES[j] \notin nearer
             i0 == CHOOSE i \in DOMAIN INTENT_STATES : First(i)
  <1>1. d \in 1..Longest /\ from \in Within[target][d] /\ from \notin Within[target][d - 1]
    BY WithinDistance
  <1>2. nearer = allowed[from] \cap Within[target][d - 1]
    BY DEF OneEdgeNearer
  <1> HIDE DEF d
  <1>3. nearer # {}
    <2>1. from \in WithinNext(Within[target][d - 1])
      BY <1>1, WithinSteps
    <2>2. PICK s \in Within[target][d - 1] : from = s \/ TransitionAllowed(from, s)
      BY <2>1 DEF WithinNext, AtMostOneEdgeFrom
    <2>3. QED
      BY <2>2, <1>1, <1>2 DEF TransitionAllowed
  <1>4. nearer \subseteq IntentState
    BY <1>2, EdgesStayInTable
  <1> HIDE DEF nearer
  <1>5. DOMAIN INTENT_STATES = 1..16 /\ IntentState = {INTENT_STATES[i] : i \in 1..16}
    BY DEF INTENT_STATES, IntentState
  <1>6. \E i \in DOMAIN INTENT_STATES : First(i)
    <2> DEFINE S == {i \in 1..16 : INTENT_STATES[i] \in nearer}
    <2>1. S # {}
      BY <1>3, <1>4, <1>5
    <2>2. PICK i \in S : \A j \in S : i <= j
      <3>1. S \in SUBSET Nat
        OBVIOUS
      <3>2. QED
        BY <2>1, <3>1, LeastNumber
    <2>3. QED
      BY <2>2, <1>5
  <1>7. i0 \in 1..16 /\ First(i0)
    BY <1>5, <1>6
  <1>8. NextToward(from, target) = INTENT_STATES[i0]
    BY DEF NextToward, nearer
  <1> HIDE DEF i0
  <1> DEFINE next == NextToward(from, target)
  <1>9. next \in nearer
    BY <1>7, <1>8
  <1> HIDE DEF next
  <1>10. next \in Within[target][d - 1] /\ next \in allowed[from] /\ next \in IntentState
    BY <1>2, <1>4, <1>9
  <1>11. Reachable(next, target)
    <2> DEFINE W == Within[target]
    <2>1. \A n \in 1..Longest : W[n - 1] \subseteq W[n]
      BY WithinGrows
    <2>2. next \in W[d - 1]
      BY <1>10
    <2> HIDE DEF W
    <2>3. next \in W[4]
      <3>1. d \in {1, 2, 3, 4}
        BY <1>1 DEF Longest
      <3>2. W[0] \subseteq W[1] /\ W[1] \subseteq W[2] /\ W[2] \subseteq W[3] /\ W[3] \subseteq W[4]
        BY <2>1 DEF Longest
      <3>3. QED
        BY <3>1, <3>2, <2>2
    <2>4. QED
      BY <2>3 DEF W, Reachable, Longest
  <1>12. next # from
    BY <1>1, <1>10
  <1>13. QED
    BY <1>10, <1>11, <1>12 DEF next, d

(* A walk to the end of an edge is that edge. *)
LEMMA NextIsTarget ==
    ASSUME NEW from \in IntentState, NEW target \in allowed[from]
    PROVE  Reachable(from, target) /\ (from # target => NextToward(from, target) = target)
  <1> DEFINE W == Within[target]
  <1>1. target \in IntentState
    BY EdgesStayInTable
  <1>2. W[0] = {target} /\ from \in W[1]
    <2>1. W[0] = {target} /\ W[1] = WithinNext(W[0])
      BY <1>1, WithinSteps DEF Longest
    <2> HIDE DEF W
    <2>2. QED
      BY <2>1 DEF WithinNext, AtMostOneEdgeFrom, TransitionAllowed
  <1>3. W[1] \subseteq W[2] /\ W[2] \subseteq W[3] /\ W[3] \subseteq W[4]
    <2>1. \A n \in 1..Longest : W[n - 1] \subseteq W[n]
      BY <1>1, WithinGrows
    <2> HIDE DEF W
    <2>2. QED
      BY <2>1 DEF Longest
  <1>4. Reachable(from, target)
    BY <1>2, <1>3 DEF Reachable, Longest
  <1>5. ASSUME from # target PROVE NextToward(from, target) = target
    <2> DEFINE d == Distance(from, target)
    <2>1. d \in 1..Longest /\ from \notin W[d - 1] /\ NextToward(from, target) \in W[d - 1]
      BY <1>1, <1>4, <1>5, WithinDistance, NextIsNearer
    <2> HIDE DEF d, W
    <2>2. d = 1
      BY <2>1, <1>2, <1>3 DEF Longest
    <2>3. QED
      BY <2>1, <2>2, <1>2
  <1>6. QED
    BY <1>4, <1>5

(* From a payment that is there, on its way to being funded, delivered or  *)
(* claimed, no walk makes a detour through an expiry.                      *)
LEMMA NoDetourThroughExpiry ==
    ASSUME NEW from \in {"funded", "delivered", "claimable", "failed_recoverable"},
           NEW target \in {"funded", "delivered", "claimed"},
           Reachable(from, target), from # target
    PROVE  NextToward(from, target) \notin {"expired", "refundable"}
  <1> DEFINE W == Within[target]
             d == Distance(from, target)
  <1>0. from \in IntentState /\ target \in IntentState
    BY StateNames
  <1>1. W[0] = {target} /\ W[1] = WithinNext(W[0]) /\ W[2] = WithinNext(W[1])
    BY <1>0, WithinSteps DEF Longest
  <1>2. d \in 1..Longest /\ from \notin W[d - 1] /\ NextToward(from, target) \in W[d - 1]
    BY <1>0, WithinDistance, NextIsNearer
  <1>3. \A n \in 1..Longest : W[n - 1] \subseteq W[n]
    BY <1>0, WithinGrows
  <1> HIDE DEF d, W
  <1>4. \A s : s \in W[1] <=> s \in IntentState /\ (s = target \/ target \in allowed[s])
    BY <1>1 DEF WithinNext, AtMostOneEdgeFrom, TransitionAllowed
  <1>5. "expired" \notin W[1] /\ "refundable" \notin W[1]
    BY <1>4 DEF allowed
  <1>6. from \in W[2]
    <2>1. \/ from \in W[1]
          \/ \E s \in W[1] : s \in allowed[from]
      <3>1. CASE from = "failed_recoverable" /\ target \in {"funded", "delivered"}
        BY <3>1, <1>0, <1>4 DEF allowed
      <3>2. CASE from = "failed_recoverable" /\ target = "claimed"
        <4>1. "claimable" \in W[1] /\ "claimable" \in allowed[from]
          BY <3>2, <1>4, StateNames DEF allowed
        <4>2. QED
          BY <4>1
      <3>3. CASE from # "failed_recoverable" /\ target \in {"funded", "delivered"}
        <4>1. "failed_recoverable" \in W[1] /\ "failed_recoverable" \in allowed[from]
          BY <3>3, <1>4, StateNames DEF allowed
        <4>2. QED
          BY <4>1
      <3>4. CASE from # "failed_recoverable" /\ target = "claimed"
        <4>1. "claimable" \in W[1] /\ (from = "claimable" \/ "claimable" \in allowed[from])
          BY <3>4, <1>4, StateNames DEF allowed
        <4>2. QED
          BY <4>1, <1>4
      <3>5. QED
        BY <3>1, <3>2, <3>3, <3>4
    <2>2. QED
      BY <2>1, <1>0, <1>1 DEF WithinNext, AtMostOneEdgeFrom, TransitionAllowed
  <1>7. d - 1 \in {0, 1}
    BY <1>2, <1>3, <1>6 DEF Longest
  <1>8. W[d - 1] \subseteq W[1]
    BY <1>7, <1>3 DEF Longest
  <1>9. QED
    BY <1>2, <1>5, <1>8

(* What has expired can be refunded. *)
LEMMA SweepableIsRefundable ==
    ASSUME NEW from \in Sweepable
    PROVE  from # "refundable" /\ from \in IntentState /\ Reachable(from, "refundable")
  <1> DEFINE W == Within["refundable"]
  <1>1. "refundable" \in IntentState /\ from \in IntentState /\ from # "refundable"
    BY StateNames DEF Sweepable
  <1>2. W[0] = {"refundable"} /\ W[1] = WithinNext(W[0]) /\ W[2] = WithinNext(W[1])
        /\ W[2] \subseteq W[3] /\ W[3] \subseteq W[4]
    <2>1. /\ W[0] = {"refundable"}
          /\ \A n \in 1..Longest : W[n] = WithinNext(W[n - 1])
          /\ \A n \in 1..Longest : W[n - 1] \subseteq W[n]
      BY <1>1, WithinSteps, WithinGrows
    <2> HIDE DEF W
    <2>2. QED
      BY <2>1 DEF Longest
  <1> HIDE DEF W
  <1>3. "failed_recoverable" \in W[1]
    BY <1>2, StateNames DEF WithinNext, AtMostOneEdgeFrom, TransitionAllowed, allowed
  <1>4. from = "failed_recoverable" \/ "failed_recoverable" \in allowed[from]
    BY DEF Sweepable, allowed
  <1>5. from \in W[2]
    BY <1>1, <1>2, <1>3, <1>4 DEF WithinNext, AtMostOneEdgeFrom, TransitionAllowed
  <1>6. QED
    BY <1>1, <1>2, <1>5 DEF W, Reachable, Longest

(* A final state leads nowhere. *)
LEMMA FinalIsEnd ==
    ASSUME NEW s \in {"claimed", "refunded", "completed", "failed_terminal"},
           NEW target \in IntentState, Reachable(s, target)
    PROVE  s = target
  <1> SUFFICES ASSUME s # target PROVE FALSE
    OBVIOUS
  <1>1. s \in IntentState /\ allowed[s] = {}
    BY StateNames, FinalStates
  <1>2. NextToward(s, target) \in allowed[s]
    BY <1>1, NextIsNearer
  <1>3. QED
    BY <1>1, <1>2

-----------------------------------------------------------------------------
(* The invariant behind NeverAheadOfChain: every state somebody believes   *)
(* in, writes or aims at has its reason on the chain, or in the time.      *)

Backed(s) ==
    /\ s \in FundedOrLater => chain # <<>>
    /\ s \in {"claimed", "refunded"} => Len(chain) = 2 /\ chain[2] = s
    /\ s \in {"expired", "refundable"} => expired.wall \/ expired.block

\* Where walks end, and where one that ends there begins.
Aims == {"failed_terminal", "delivered", "funded", "claimed", "refunded", "refundable"}

Walks(from, target) ==
    /\ from # target /\ Reachable(from, target)
    /\ target \in Aims /\ Backed(target)
    /\ target = "failed_terminal" => from \in {"draft", "quoted"}
    /\ target = "delivered" => from = "funded"

Sound(e) ==
    /\ e \in Task
    /\ e.upto <= Len(chain)
    /\ Backed(e.from) /\ Backed(e.to)
    /\ e.pc = "walk" => Walks(e.from, e.target)
    /\ e.pc = "log" /\ e.to # e.target => Walks(e.to, e.target)
    /\ e.pc = "apply" => e.at \in 1..Len(chain) /\ e.target = chain[e.at]

Kinds == {"funded", "claimed", "refunded"}

ChainSound ==
    /\ chain \in Seq(Kinds) /\ Len(chain) <= 2
    /\ Len(chain) >= 1 => chain[1] = "funded"
    /\ Len(chain) = 2 => chain[2] \in {"claimed", "refunded"}
    /\ Len(chain) = 2 /\ chain[2] = "refunded" => expired.block

BackedInv ==
    /\ ChainSound
    /\ expired \in [wall : BOOLEAN, block : BOOLEAN]
    /\ intent \in [state : IntentState, version : Nat, hasSourceTx : BOOLEAN,
                   onchain : Kinds \cup {"none"}]
    /\ cursor \in 0..Len(chain)
    /\ task \in [Tasks -> Task]
    /\ Backed(intent.state)
    /\ intent.onchain # "none" => Backed(intent.onchain)
    /\ \A t \in Tasks : Sound(task[t])

LEMMA IdleIsSound == BackedInv => Sound(Idle)
  BY StateNames DEF BackedInv, ChainSound, Sound, Idle, Task, PCs, Backed, FundedOrLater

LEMMA BackedAtFirst == Init => BackedInv
  <1> SUFFICES ASSUME Init PROVE BackedInv
    OBVIOUS
  <1>1. chain = <<>> /\ Len(chain) = 0 /\ chain \in Seq(Kinds)
    BY DEF Init
  <1>2. expired \in [wall : BOOLEAN, block : BOOLEAN] /\ cursor \in 0..Len(chain) /\ ChainSound
    BY <1>1 DEF Init, ChainSound
  <1>3. /\ intent \in [state : IntentState, version : Nat, hasSourceTx : BOOLEAN,
                       onchain : Kinds \cup {"none"}]
        /\ Backed(intent.state) /\ intent.onchain = "none"
    BY IntentWorkflowAssumption, StateNames DEF Init, Backed, FundedOrLater
  <1>4. Idle \in Task /\ Sound(Idle)
    BY <1>1, StateNames DEF Sound, Idle, Task, PCs, Backed, FundedOrLater
  <1>5. task \in [Tasks -> Task] /\ \A t \in Tasks : task[t] = Idle
    BY <1>4 DEF Init
  <1>6. QED
    BY <1>2, <1>3, <1>4, <1>5 DEF BackedInv

\* What the world may do: the chain grows, a clock passes the expiry.
Later == /\ ChainSound'
         /\ Len(chain) <= Len(chain')
         /\ \A i \in 1..Len(chain) : chain'[i] = chain[i]
         /\ expired' \in [wall : BOOLEAN, block : BOOLEAN]
         /\ expired.wall => expired'.wall
         /\ expired.block => expired'.block

LEMMA StaysBacked ==
    ASSUME ChainSound, Later, NEW s, Backed(s)
    PROVE  Backed(s)'
  <1>1. chain # <<>> => chain' # <<>>
    BY DEF Later, ChainSound
  <1>2. Len(chain) = 2 => Len(chain') = 2 /\ chain'[2] = chain[2]
    BY DEF Later, ChainSound
  <1>3. QED
    BY <1>1, <1>2 DEF Backed, Later

LEMMA StaysSound ==
    ASSUME ChainSound, Later, NEW e, Sound(e)
    PROVE  Sound(e)'
  <1>1. \A s : Backed(s) => Backed(s)'
    BY StaysBacked
  <1>2. \A from, target : Walks(from, target) => Walks(from, target)'
    BY <1>1 DEF Walks
  <1>3. e.upto <= Len(chain')
    BY DEF Sound, Task, Later, ChainSound
  <1>4. e.pc = "apply" => e.at \in 1..Len(chain') /\ e.target = chain'[e.at]
    BY DEF Sound, Later, ChainSound
  <1>5. QED
    BY <1>1, <1>2, <1>3, <1>4 DEF Sound

\* A step of the world, or of one task.
LEMMA BackedKept ==
    ASSUME BackedInv, Later,
           \/ task' = task
           \/ \E t \in Tasks : \E e : task' = [task EXCEPT ![t] = e] /\ Sound(e)',
           intent' \in [state : IntentState, version : Nat, hasSourceTx : BOOLEAN,
                        onchain : Kinds \cup {"none"}],
           Backed(intent.state)', (intent.onchain # "none" => Backed(intent.onchain))',
           cursor' \in 0..Len(chain')
    PROVE  BackedInv'
  <1>1. ChainSound
    BY DEF BackedInv
  <1>2. \A t \in Tasks : Sound(task[t])'
    <2> SUFFICES ASSUME NEW t \in Tasks
                 PROVE  Sound(task[t])'
      OBVIOUS
    <2>1. Sound(task[t]) /\ DOMAIN task = Tasks
      BY DEF BackedInv
    <2>2. ASSUME task'[t] = task[t] PROVE Sound(task[t])'
      <3> DEFINE e == task[t]
      <3>1. e' = e
        BY <2>2
      <3>2. \A f : Sound(f) => Sound(f)'
        BY <1>1, StaysSound
      <3>3. QED
        BY <2>1, <2>2, <1>1, StaysSound
    <2>3. ASSUME NEW u \in Tasks, NEW e, task' = [task EXCEPT ![u] = e], Sound(e)'
          PROVE  Sound(task[t])'
      <3>1. task'[t] = task[t] \/ task'[t] = e
        BY <2>1, <2>3
      <3>2. QED
        BY <2>2, <2>3, <3>1
    <2>4. QED
      BY <2>2, <2>3
  <1>3. task' \in [Tasks -> Task]
    <2>1. task \in [Tasks -> Task]
      BY DEF BackedInv
    <2>2. ASSUME NEW u \in Tasks, NEW e, task' = [task EXCEPT ![u] = e], Sound(e)'
          PROVE  task' \in [Tasks -> Task]
      <3>1. e \in Task
        BY <2>2 DEF Sound
      <3>2. QED
        BY <2>1, <2>2, <3>1
    <2>3. QED
      BY <2>1, <2>2
  <1>4. QED
    BY <1>2, <1>3 DEF BackedInv, Later

(* A walk that has its reasons takes steps that have theirs. *)
LEMMA PlannedIsBacked ==
    ASSUME ChainSound, NEW from \in IntentState, NEW target \in IntentState,
           Walks(from, target), Backed(from)
    PROVE  LET next == NextToward(from, target)
           IN  /\ next \in IntentState /\ Backed(next)
               /\ next # target => Walks(next, target)
  <1> DEFINE next == NextToward(from, target)
  <1>1. Reachable(from, target) /\ from # target /\ target \in Aims /\ Backed(target)
    BY DEF Walks
  <1>2. next \in allowed[from] /\ next \in IntentState /\ Reachable(next, target)
    BY <1>1, NextIsNearer
  <1>3. target \in {"failed_terminal", "delivered"} => next = target
    <2>1. ASSUME target \in {"failed_terminal", "delivered"} PROVE target \in allowed[from]
      BY <2>1 DEF Walks, allowed
    <2>2. QED
      BY <2>1, <1>1, NextIsTarget
  <1>4. next \in {"claimed", "refunded", "completed", "failed_terminal"} => next = target
    BY <1>2, FinalIsEnd
  <1>5. ASSUME next \in {"expired", "refundable"}, from \notin {"expired", "refundable"}
        PROVE  target \notin {"funded", "delivered", "claimed"}
    <2>1. from \in {"funded", "delivered", "claimable", "failed_recoverable"}
      BY <1>2, <1>5, StateNames DEF allowed
    <2>2. QED
      BY <1>1, <1>5, <2>1, NoDetourThroughExpiry
  <1> HIDE DEF next
  <1>6. Backed(next)
    <2>1. CASE next = target
      BY <2>1, <1>1
    <2>2. CASE next # target
      <3>1. target \in {"funded", "claimed", "refunded", "refundable"}
        BY <2>2, <1>1, <1>3 DEF Aims
      <3>2. chain # <<>>
        BY <3>1, <1>1 DEF Backed, FundedOrLater
      <3>3. next \notin {"claimed", "refunded"}
        BY <2>2, <1>4
      <3>4. ASSUME next \in {"expired", "refundable"} PROVE expired.wall \/ expired.block
        <4>1. CASE from \in {"expired", "refundable"}
          BY <4>1 DEF Backed
        <4>2. CASE target \in {"refunded", "refundable"}
          BY <4>2, <1>1 DEF Backed, ChainSound
        <4>3. QED
          BY <4>1, <4>2, <3>1, <3>4, <1>5
      <3>5. QED
        BY <3>2, <3>3, <3>4 DEF Backed
    <2>3. QED
      BY <2>1, <2>2
  <1>7. next # target => Walks(next, target)
    BY <1>1, <1>2, <1>3 DEF Walks
  <1>8. QED
    BY <1>2, <1>6, <1>7 DEF next

LEMMA NothingHappens ==
    ASSUME ChainSound, expired \in [wall : BOOLEAN, block : BOOLEAN], UNCHANGED world
    PROVE  Later
  BY DEF Later, ChainSound, world

\* A step of one task that leaves the world and the row's onchain column alone.
LEMMA TaskStep ==
    ASSUME BackedInv, UNCHANGED world, cursor' \in 0..Len(chain),
           NEW t \in Tasks, NEW e, Become(t, e), Sound(e),
           intent' \in [state : IntentState, version : Nat, hasSourceTx : BOOLEAN,
                        onchain : Kinds \cup {"none"}],
           Backed(intent'.state),
           intent'.onchain # "none" => Backed(intent'.onchain)
    PROVE  BackedInv'
  <1>1. Later
    BY NothingHappens DEF BackedInv
  <1>2. ChainSound
    BY DEF BackedInv
  <1>3. Sound(e)'
    BY <1>1, <1>2, StaysSound
  <1>4. /\ Backed(intent.state)'
        /\ (intent.onchain # "none" => Backed(intent.onchain))'
    <2>1. chain' = chain /\ expired' = expired
      BY DEF world
    <2>2. Backed(intent.state)'
      BY <2>1 DEF Backed
    <2>3. ASSUME (intent.onchain # "none")' PROVE Backed(intent.onchain)'
      <3>1. Backed(intent'.onchain)
        BY <2>3
      <3>2. QED
        BY <2>1, <3>1 DEF Backed
    <2>4. QED
      BY <2>2, <2>3
  <1>5. cursor' \in 0..Len(chain')
    BY DEF world
  <1>6. QED
    BY <1>1, <1>3, <1>4, <1>5, BackedKept DEF Become

\* Nor the row itself.
LEMMA TaskStepAside ==
    ASSUME BackedInv, UNCHANGED <<world, intent, cursor>>,
           NEW t \in Tasks, NEW e, Become(t, e), Sound(e)
    PROVE  BackedInv'
  <1>1. /\ intent' \in [state : IntentState, version : Nat, hasSourceTx : BOOLEAN,
                        onchain : Kinds \cup {"none"}]
        /\ Backed(intent'.state) /\ cursor' \in 0..Len(chain)
        /\ intent'.onchain # "none" => Backed(intent'.onchain)
    <2>1. intent' = intent /\ cursor' = cursor
      OBVIOUS
    <2>2. QED
      BY <2>1 DEF BackedInv
  <1>2. QED
    BY <1>1, TaskStep

\* What an indexer does next is sound.
LEMMA OnwardIsSound ==
    ASSUME BackedInv, NEW t \in Tasks
    PROVE  Sound(Onward(t))
  <1>1. Sound(Idle) /\ Idle \in Task /\ Sound(task[t])
    BY IdleIsSound DEF BackedInv, Sound
  <1>2. Onward(t) \in Task
    BY <1>1 DEF Onward, Sound, Task, PCs, Idle
  <1>3. QED
    BY <1>1, <1>2 DEF Onward, Sound, Idle

\* A walk that starts from the row as it is.
LEMMA WalkIsSound ==
    ASSUME BackedInv, NEW t \in Tasks, NEW target \in IntentState,
           Walks(intent.state, target), StartWalk(t, target),
           UNCHANGED <<world, intent, cursor>>
    PROVE  BackedInv'
  <1> DEFINE e == [task[t] EXCEPT !.pc = "walk", !.from = intent.state,
                              !.version = intent.version, !.target = target]
  <1>1. Sound(task[t])
    BY DEF BackedInv
  <1>2. Sound(e)
    <2>1. e \in Task /\ e.pc = "walk" /\ e.from = intent.state /\ e.to = task[t].to
          /\ e.target = target /\ e.upto = task[t].upto
      BY <1>1 DEF BackedInv, Sound, Task, PCs
    <2> HIDE DEF e
    <2>2. QED
      BY <2>1, <1>1 DEF BackedInv, Sound
  <1>3. Become(t, e)
    BY DEF StartWalk
  <1> HIDE DEF e
  <1>4. QED
    BY <1>2, <1>3, TaskStepAside

-----------------------------------------------------------------------------
(* The steps, one by one. *)

LEMMA AdvanceBacked ==
    ASSUME BackedInv, NEW t \in Tasks, Advance(t)
    PROVE  BackedInv'
  <1> DEFINE next == Planned(t)
             v == task[t].version + 1
             e == [task[t] EXCEPT !.pc = "log", !.to = next, !.version = v]
  <1>1. /\ Sound(task[t]) /\ ChainSound /\ task[t] \in Task
        /\ task[t].pc = "walk" /\ Walks(task[t].from, task[t].target) /\ Backed(task[t].from)
    BY DEF Advance, BackedInv, Sound
  <1>2. next \in IntentState /\ Backed(next) /\ (next # task[t].target => Walks(next, task[t].target))
    <2>1. task[t].from \in IntentState /\ task[t].target \in IntentState
      BY <1>1 DEF Task
    <2>2. QED
      BY <1>1, <2>1, PlannedIsBacked DEF Planned
  <1> HIDE DEF next
  <1>v. v \in Nat
    BY <1>1 DEF Task
  <1> HIDE DEF v
  <1>3. Sound(e)
    <2>1. e \in Task /\ e.pc = "log" /\ e.to = next /\ e.from = task[t].from
          /\ e.target = task[t].target /\ e.upto = task[t].upto
      BY <1>1, <1>2, <1>v DEF Task, PCs
    <2> HIDE DEF e
    <2>2. QED
      BY <2>1, <1>1, <1>2 DEF Sound
  <1>4. /\ intent' = [intent EXCEPT !.state = next, !.version = v]
        /\ Become(t, e) /\ UNCHANGED world /\ cursor' = cursor
    BY DEF Advance, next, v
  <1> HIDE DEF e
  <1>5. /\ intent' \in [state : IntentState, version : Nat, hasSourceTx : BOOLEAN,
                        onchain : Kinds \cup {"none"}]
        /\ intent'.state = next /\ intent'.onchain = intent.onchain
    BY <1>2, <1>4, <1>v DEF BackedInv
  <1>6. /\ Backed(intent'.state)
        /\ intent'.onchain # "none" => Backed(intent'.onchain)
        /\ cursor' \in 0..Len(chain)
    BY <1>2, <1>4, <1>5 DEF BackedInv
  <1>7. QED
    BY <1>3, <1>4, <1>5, <1>6, TaskStep

LEMMA LoseBacked ==
    ASSUME BackedInv, NEW t \in Tasks, Lose(t)
    PROVE  BackedInv'
  <1>1. Sound(Idle) /\ Sound(Onward(t)) /\ UNCHANGED <<world, intent, cursor>>
    BY IdleIsSound, OnwardIsSound DEF Lose
  <1>2. Become(t, Idle) \/ Become(t, Onward(t))
    BY DEF Lose
  <1>3. QED
    BY <1>1, <1>2, TaskStepAside

LEMMA LogEventBacked ==
    ASSUME BackedInv, NEW t \in Tasks, LogEvent(t)
    PROVE  BackedInv'
  <1> DEFINE e == task[t]
             walk == [e EXCEPT !.pc = "walk", !.from = e.to]
  <1>1. Sound(Idle) /\ Sound(Onward(t)) /\ UNCHANGED <<world, intent, cursor>>
    BY IdleIsSound, OnwardIsSound DEF LogEvent
  <1>2. e.pc = "log" /\ (Become(t, Idle) \/ Become(t, Onward(t))
                         \/ (e.to # e.target /\ Become(t, walk)))
    BY DEF LogEvent
  <1>3. ASSUME e.to # e.target PROVE Sound(walk)
    <2>1. Sound(e)
      BY DEF BackedInv
    <2> HIDE DEF e
    <2>2. walk \in Task /\ walk.pc = "walk" /\ walk.from = e.to /\ walk.to = e.to
          /\ walk.target = e.target /\ walk.upto = e.upto
      BY <2>1 DEF Sound, Task, PCs
    <2> HIDE DEF walk
    <2>3. QED
      BY <1>2, <1>3, <2>1, <2>2 DEF Sound
  <1> HIDE DEF walk
  <1>4. QED
    BY <1>1, <1>2, <1>3, TaskStepAside

LEMMA QuoteBacked ==
    ASSUME BackedInv, NEW t \in Tasks, Quote(t)
    PROVE  BackedInv'
  <1> DEFINE e == [Idle EXCEPT !.pc = "log", !.to = "quoted", !.version = 1, !.target = "quoted"]
  <1>1. Sound(e)
    <2>1. e \in Task /\ e.pc = "log" /\ e.to = "quoted" /\ e.target = "quoted"
          /\ e.from = "draft" /\ e.upto = 0
      BY StateNames DEF Idle, Task, PCs
    <2> HIDE DEF e
    <2>2. QED
      BY <2>1 DEF Sound, BackedInv, ChainSound, Backed, FundedOrLater
  <1>2. /\ intent' = [intent EXCEPT !.state = "quoted", !.version = 1]
        /\ Become(t, e) /\ UNCHANGED world /\ cursor' = cursor
    BY DEF Quote
  <1> HIDE DEF e
  <1>3. /\ intent' \in [state : IntentState, version : Nat, hasSourceTx : BOOLEAN,
                        onchain : Kinds \cup {"none"}]
        /\ intent'.state = "quoted" /\ intent'.onchain = intent.onchain
    BY <1>2, StateNames DEF BackedInv
  <1>4. /\ Backed(intent'.state)
        /\ intent'.onchain # "none" => Backed(intent'.onchain)
        /\ cursor' \in 0..Len(chain)
    <2>1. Backed("quoted")
      BY DEF Backed, FundedOrLater
    <2>2. QED
      BY <2>1, <1>2, <1>3 DEF BackedInv
  <1>5. QED
    BY <1>1, <1>2, <1>3, <1>4, TaskStep

LEMMA CancelBacked ==
    ASSUME BackedInv, NEW t \in Tasks, Cancel(t)
    PROVE  BackedInv'
  <1>1. /\ intent.state \in {"draft", "quoted"}
        /\ StartWalk(t, "failed_terminal") /\ UNCHANGED <<world, intent, cursor>>
    BY DEF Cancel
  <1>2. "failed_terminal" \in allowed[intent.state] /\ intent.state \in IntentState
        /\ "failed_terminal" \in IntentState
    BY <1>1, StateNames DEF allowed
  <1>3. Walks(intent.state, "failed_terminal")
    BY <1>1, <1>2, NextIsTarget DEF Walks, Aims, Backed, FundedOrLater
  <1>4. QED
    BY <1>1, <1>2, <1>3, WalkIsSound

LEMMA ReadForSourceBacked ==
    ASSUME BackedInv, NEW t \in Tasks, ReadForSource(t)
    PROVE  BackedInv'
  <1> DEFINE to == IF intent.onchain # "none" THEN intent.state ELSE "source_submitted"
             e == [Idle EXCEPT !.pc = "mark", !.version = intent.version,
                               !.from = intent.state, !.to = to]
  <1>1. to \in IntentState /\ Backed(to)
    BY StateNames DEF BackedInv, Backed, FundedOrLater
  <1>2. Become(t, e) /\ UNCHANGED <<world, intent, cursor>>
    BY DEF ReadForSource
  <1> HIDE DEF to
  <1>3. Sound(e)
    <2>1. e \in Task /\ e.pc = "mark" /\ e.from = intent.state /\ e.to = to /\ e.upto = 0
      BY <1>1, StateNames DEF BackedInv, Idle, Task, PCs
    <2> HIDE DEF e
    <2>2. QED
      BY <2>1, <1>1 DEF Sound, BackedInv, ChainSound
  <1> HIDE DEF e
  <1>4. QED
    BY <1>2, <1>3, TaskStepAside

LEMMA MarkSourceBacked ==
    ASSUME BackedInv, NEW t \in Tasks, MarkSource(t)
    PROVE  BackedInv'
  <1>1. Sound(task[t]) /\ task[t] \in Task /\ task[t].pc = "mark"
    BY DEF BackedInv, Sound, MarkSource
  <1>2. CASE intent.version = task[t].version /\ ~intent.hasSourceTx
    <2> DEFINE e == [task[t] EXCEPT !.pc = "log", !.target = task[t].to,
                                    !.version = intent'.version]
    <2>1. intent' = SourceMarked(task[t]) /\ Become(t, e) /\ UNCHANGED world /\ cursor' = cursor
      BY <1>2 DEF MarkSource
    <2>2. /\ intent' \in [state : IntentState, version : Nat, hasSourceTx : BOOLEAN,
                          onchain : Kinds \cup {"none"}]
          /\ intent'.state = task[t].to /\ intent'.onchain = intent.onchain
      <3> DEFINE v == IF task[t].to = task[t].from THEN intent.version ELSE task[t].version + 1
      <3>1. v \in Nat /\ task[t].to \in IntentState
        BY <1>1 DEF BackedInv, Task
      <3>2. intent' = [intent EXCEPT !.hasSourceTx = TRUE, !.state = task[t].to, !.version = v]
        BY <2>1 DEF SourceMarked
      <3> HIDE DEF v
      <3>3. QED
        BY <3>1, <3>2 DEF BackedInv
    <2>3. Sound(e)
      <3>1. e \in Task /\ e.pc = "log" /\ e.from = task[t].from /\ e.to = task[t].to
            /\ e.target = e.to /\ e.upto = task[t].upto
        BY <1>1, <2>2 DEF Task, PCs
      <3> HIDE DEF e
      <3>2. QED
        BY <3>1, <1>1 DEF Sound
    <2> HIDE DEF e
    <2>4. /\ Backed(intent'.state)
          /\ intent'.onchain # "none" => Backed(intent'.onchain)
          /\ cursor' \in 0..Len(chain)
      BY <2>1, <2>2, <1>1 DEF BackedInv, Sound
    <2>5. QED
      BY <2>1, <2>2, <2>3, <2>4, TaskStep
  <1>3. CASE ~(intent.version = task[t].version /\ ~intent.hasSourceTx)
    <2>1. Become(t, Idle) /\ UNCHANGED <<world, intent, cursor>>
      BY <1>3 DEF MarkSource
    <2>2. QED
      BY <2>1, IdleIsSound, TaskStepAside
  <1>4. QED
    BY <1>2, <1>3

LEMMA ReadForDeliveryBacked ==
    ASSUME BackedInv, NEW t \in Tasks, ReadForDelivery(t)
    PROVE  BackedInv'
  <1> DEFINE e == [Idle EXCEPT !.pc = "store", !.from = intent.state, !.version = intent.version]
  <1>1. Become(t, e) /\ UNCHANGED <<world, intent, cursor>>
    BY DEF ReadForDelivery
  <1>2. Sound(e)
    <2>1. e \in Task /\ e.pc = "store" /\ e.from = intent.state /\ e.to = "draft" /\ e.upto = 0
      BY StateNames DEF BackedInv, Idle, Task, PCs
    <2> HIDE DEF e
    <2>2. Backed("draft")
      BY DEF Backed, FundedOrLater
    <2>3. QED
      BY <2>1, <2>2 DEF Sound, BackedInv, ChainSound
  <1> HIDE DEF e
  <1>3. QED
    BY <1>1, <1>2, TaskStepAside

LEMMA StoreNoteBacked ==
    ASSUME BackedInv, NEW t \in Tasks, StoreNote(t)
    PROVE  BackedInv'
  <1> DEFINE e == [task[t] EXCEPT !.pc = "walk", !.target = "delivered"]
  <1>1. Sound(task[t]) /\ task[t] \in Task /\ UNCHANGED <<world, intent, cursor>>
    BY DEF BackedInv, Sound, StoreNote
  <1>2. Become(t, Idle) \/ (task[t].from = "funded" /\ Become(t, e))
    BY DEF StoreNote
  <1>3. ASSUME task[t].from = "funded" PROVE Sound(e)
    <2>1. e \in Task /\ e.pc = "walk" /\ e.from = "funded" /\ e.to = task[t].to
          /\ e.target = "delivered" /\ e.upto = task[t].upto
      BY <1>1, <1>3, StateNames DEF Task, PCs
    <2>2. "delivered" \in allowed["funded"] /\ "funded" \in IntentState
      BY StateNames DEF allowed
    <2>3. Walks("funded", "delivered")
      BY <1>1, <1>3, <2>2, NextIsTarget DEF Walks, Aims, Sound, Backed, FundedOrLater
    <2> HIDE DEF e
    <2>4. QED
      BY <1>1, <1>3, <2>1, <2>3 DEF Sound
  <1> HIDE DEF e
  <1>4. QED
    BY <1>1, <1>2, <1>3, IdleIsSound, TaskStepAside

LEMMA RefundObservedBacked ==
    ASSUME BackedInv, NEW t \in Tasks, RefundObserved(t)
    PROVE  BackedInv'
  <1>1. /\ intent.onchain = "refunded" /\ intent.state # "refunded"
        /\ Reachable(intent.state, "refunded")
        /\ StartWalk(t, "refunded") /\ UNCHANGED <<world, intent, cursor>>
    BY DEF RefundObserved
  <1>2. "refunded" \in IntentState /\ Walks(intent.state, "refunded")
    BY <1>1, StateNames DEF Walks, Aims, BackedInv
  <1>3. QED
    BY <1>1, <1>2, WalkIsSound

LEMMA StartIterationBacked ==
    ASSUME BackedInv, NEW x \in Tasks, StartIteration(x)
    PROVE  BackedInv'
  <1> DEFINE e == [Idle EXCEPT !.pc = "next", !.at = cursor, !.upto = Len(chain)]
  <1>1. Become(x, e) /\ UNCHANGED <<world, intent, cursor>>
    BY DEF StartIteration
  <1>2. Sound(e)
    <2>1. cursor \in Nat /\ Len(chain) \in Nat
      BY DEF BackedInv, ChainSound
    <2>2. e \in Task /\ e.pc = "next" /\ e.from = "draft" /\ e.to = "draft" /\ e.upto = Len(chain)
      BY <2>1, StateNames DEF Idle, Task, PCs
    <2> HIDE DEF e
    <2>3. QED
      BY <2>1, <2>2 DEF Sound, Backed, FundedOrLater
  <1> HIDE DEF e
  <1>3. QED
    BY <1>1, <1>2, TaskStepAside

LEMMA ProjectEventBacked ==
    ASSUME BackedInv, NEW x \in Tasks, ProjectEvent(x)
    PROVE  BackedInv'
  <1> DEFINE i == task[x].at + 1
             e == [task[x] EXCEPT !.pc = "apply", !.at = i, !.target = chain[i]]
  <1>1. Sound(task[x]) /\ task[x] \in Task
    BY DEF BackedInv, Sound
  <1>2. i \in 1..Len(chain)
    BY <1>1 DEF ProjectEvent, Sound, Task, BackedInv, ChainSound
  <1>3. /\ intent' = [intent EXCEPT !.onchain = chain[i]]
        /\ Become(x, e) /\ UNCHANGED world /\ cursor' = cursor
    BY DEF ProjectEvent
  <1> HIDE DEF i
  <1>4. chain[i] \in Kinds /\ Backed(chain[i])
    <2>1. Len(chain) \in Nat /\ chain # <<>>
      BY <1>2 DEF BackedInv, ChainSound
    <2>2. CASE i = 1
      BY <2>1, <2>2, <1>2 DEF BackedInv, ChainSound, Backed, Kinds, FundedOrLater
    <2>3. CASE i = 2
      <3>1. Len(chain) = 2 /\ chain[i] = chain[2] /\ chain[2] \in {"claimed", "refunded"}
        <4>1. Len(chain) = 2
          <5>1. Len(chain) \in Nat /\ Len(chain) <= 2
            BY <2>1 DEF BackedInv, ChainSound
          <5>2. 2 \in 1..Len(chain)
            BY <1>2, <2>3
          <5>3. \A n \in Nat : n <= 2 /\ 2 \in 1..n => n = 2
            OBVIOUS
          <5>4. QED
            BY <5>1, <5>2, <5>3
        <4>2. QED
          BY <4>1, <2>3 DEF BackedInv, ChainSound
      <3>2. QED
        BY <2>1, <3>1 DEF Backed, Kinds, FundedOrLater
    <2>4. QED
      BY <2>2, <2>3, <1>2 DEF BackedInv, ChainSound
  <1>5. Sound(e)
    <2>1. e \in Task /\ e.pc = "apply" /\ e.from = task[x].from /\ e.to = task[x].to
          /\ e.at = i /\ e.target = chain[i] /\ e.upto = task[x].upto
      <3>1. i \in Nat /\ chain[i] \in IntentState
        BY <1>2, <1>4, StateNames DEF BackedInv, ChainSound, Kinds
      <3>2. QED
        BY <1>1, <3>1 DEF Task, PCs
    <2> HIDE DEF e
    <2>2. QED
      BY <1>1, <1>2, <2>1 DEF Sound
  <1> HIDE DEF e
  <1>6. /\ intent' \in [state : IntentState, version : Nat, hasSourceTx : BOOLEAN,
                        onchain : Kinds \cup {"none"}]
        /\ intent'.state = intent.state /\ intent'.onchain = chain[i]
    BY <1>3, <1>4 DEF BackedInv
  <1>7. /\ Backed(intent'.state)
        /\ intent'.onchain # "none" => Backed(intent'.onchain)
        /\ cursor' \in 0..Len(chain)
    BY <1>3, <1>4, <1>6 DEF BackedInv
  <1>8. QED
    BY <1>3, <1>5, <1>6, <1>7, TaskStep

LEMMA ApplyProjectionBacked ==
    ASSUME BackedInv, NEW x \in Tasks, ApplyProjection(x)
    PROVE  BackedInv'
  <1> DEFINE target == task[x].target
  <1>1. /\ Sound(task[x]) /\ task[x].pc = "apply" /\ UNCHANGED <<world, intent, cursor>>
        /\ target \in IntentState
    BY DEF BackedInv, ApplyProjection, Sound, Task
  <1>2. target \in Kinds /\ Backed(target)
    <2>1. task[x].at \in 1..Len(chain) /\ target = chain[task[x].at]
      BY <1>1 DEF Sound
    <2>2. Len(chain) \in Nat /\ chain # <<>>
      BY <2>1 DEF BackedInv, ChainSound
    <2>3. task[x].at = 1 \/ task[x].at = 2
      BY <2>1, <2>2 DEF BackedInv, ChainSound
    <2> HIDE DEF target
    <2>4. CASE task[x].at = 1
      <3>1. target = "funded"
        BY <2>1, <2>2, <2>4 DEF BackedInv, ChainSound
      <3>2. QED
        BY <2>2, <3>1 DEF Backed, Kinds
    <2>5. CASE task[x].at = 2
      <3>1. Len(chain) = 2 /\ target = chain[2] /\ chain[2] \in {"claimed", "refunded"}
        <4>1. Len(chain) = 2
          <5>1. Len(chain) \in Nat /\ Len(chain) <= 2
            BY <2>2 DEF BackedInv, ChainSound
          <5>2. 2 \in 1..Len(chain)
            BY <2>1, <2>5
          <5>3. \A n \in Nat : n <= 2 /\ 2 \in 1..n => n = 2
            OBVIOUS
          <5>4. QED
            BY <5>1, <5>2, <5>3
        <4>2. QED
          BY <4>1, <2>1, <2>5 DEF BackedInv, ChainSound
      <3>2. QED
        BY <2>2, <3>1 DEF Backed, Kinds
    <2>6. QED
      BY <2>3, <2>4, <2>5
  <1>3. ASSUME StartWalk(x, target), intent.state \notin Terminal \cup {target},
               Reachable(intent.state, target)
        PROVE  BackedInv'
    <2>1. Walks(intent.state, target)
      BY <1>2, <1>3 DEF Walks, Aims, Kinds
    <2> HIDE DEF target
    <2>2. QED
      BY <1>1, <1>3, <2>1, WalkIsSound
  <1>4. ASSUME Become(x, Onward(x)) PROVE BackedInv'
    BY <1>1, <1>4, OnwardIsSound, TaskStepAside
  <1>5. QED
    BY <1>3, <1>4 DEF ApplyProjection

LEMMA SaveCursorBacked ==
    ASSUME BackedInv, NEW x \in Tasks, SaveCursor(x)
    PROVE  BackedInv'
  <1> DEFINE e == [Idle EXCEPT !.pc = "sweep"]
  <1>1. Become(x, e) /\ UNCHANGED <<world, intent>> /\ cursor' = task[x].upto
    BY DEF SaveCursor
  <1>2. Sound(e)
    <2>1. e \in Task /\ e.pc = "sweep" /\ e.from = "draft" /\ e.to = "draft" /\ e.upto = 0
      BY StateNames DEF Idle, Task, PCs
    <2> HIDE DEF e
    <2>2. QED
      BY <2>1 DEF Sound, Backed, FundedOrLater, BackedInv, ChainSound
  <1> HIDE DEF e
  <1>3. cursor' \in 0..Len(chain)
    BY <1>1 DEF BackedInv, ChainSound, Sound, Task
  <1>4. intent' = intent
    BY <1>1
  <1>5. /\ intent' \in [state : IntentState, version : Nat, hasSourceTx : BOOLEAN,
                        onchain : Kinds \cup {"none"}]
        /\ Backed(intent'.state)
        /\ intent'.onchain # "none" => Backed(intent'.onchain)
    BY <1>4 DEF BackedInv
  <1>6. QED
    BY <1>1, <1>2, <1>3, <1>5, TaskStep

LEMMA SweepBacked ==
    ASSUME BackedInv, NEW x \in Tasks, Sweep(x)
    PROVE  BackedInv'
  <1>1. UNCHANGED <<world, intent, cursor>>
    BY DEF Sweep
  <1>2. ASSUME intent.onchain = "funded", expired.wall, intent.state \in Sweepable,
               StartWalk(x, "refundable")
        PROVE  BackedInv'
    <2>1. Backed("refundable")
      BY <1>2 DEF BackedInv, Backed, FundedOrLater
    <2>2. "refundable" \in IntentState /\ Walks(intent.state, "refundable")
      BY <1>2, <2>1, StateNames, SweepableIsRefundable DEF Walks, Aims
    <2>3. QED
      BY <1>1, <1>2, <2>2, WalkIsSound
  <1>3. ASSUME Become(x, Idle) PROVE BackedInv'
    BY <1>1, <1>3, IdleIsSound, TaskStepAside
  <1>4. QED
    BY <1>2, <1>3 DEF Sweep

\* The world alone moves.
LEMMA WorldStep ==
    ASSUME BackedInv, Later, UNCHANGED <<intent, cursor, task>>
    PROVE  BackedInv'
  <1>1. ChainSound
    BY DEF BackedInv
  <1>2. Backed(intent.state)' /\ (intent.onchain # "none" => Backed(intent.onchain))'
    <2>1. Backed(intent.state) /\ (intent.onchain # "none" => Backed(intent.onchain))
      BY DEF BackedInv
    <2>2. \A s : Backed(s) => Backed(s)'
      BY <1>1, StaysBacked
    <2>3. Backed(intent.state)'
      BY <2>1, <2>2, <1>1, StaysBacked
    <2>4. (intent.onchain # "none" => Backed(intent.onchain))'
      BY <2>1, <2>2, <1>1, StaysBacked
    <2>5. QED
      BY <2>3, <2>4
  <1>3. cursor' \in 0..Len(chain')
    BY DEF BackedInv, Later, ChainSound
  <1>4. intent' \in [state : IntentState, version : Nat, hasSourceTx : BOOLEAN,
                     onchain : Kinds \cup {"none"}]
    BY DEF BackedInv
  <1>5. QED
    BY <1>2, <1>3, <1>4, BackedKept

LEMMA EmitLater ==
    ASSUME BackedInv, NEW event \in Kinds, Emit(event),
           \/ chain = <<>> /\ event = "funded"
           \/ Len(chain) = 1 /\ event \in {"claimed", "refunded"}
              /\ (event = "refunded" => expired.block)
    PROVE  Later
  <1>1. chain' = Append(chain, event) /\ expired' = expired
    BY DEF Emit
  <1>2. chain \in Seq(Kinds) /\ Len(chain) \in Nat
    BY DEF BackedInv, ChainSound
  <1>3. /\ chain' \in Seq(Kinds) /\ Len(chain') = Len(chain) + 1
        /\ \A i \in 1..Len(chain) : chain'[i] = chain[i]
        /\ chain'[Len(chain) + 1] = event
    BY <1>1, <1>2
  <1>4. ChainSound'
    BY <1>1, <1>2, <1>3 DEF BackedInv, ChainSound
  <1>5. QED
    BY <1>1, <1>2, <1>3, <1>4 DEF Later, BackedInv

LEMMA BackedStep == BackedInv /\ [Next]_vars => BackedInv'
  <1> SUFFICES ASSUME BackedInv, [Next]_vars PROVE BackedInv'
    OBVIOUS
  <1>1. ASSUME NEW r \in Requests, NewRequest(r) \/ Continue(r) PROVE BackedInv'
    BY <1>1, QuoteBacked, CancelBacked, ReadForSourceBacked, ReadForDeliveryBacked,
       RefundObservedBacked, MarkSourceBacked, StoreNoteBacked, AdvanceBacked, LoseBacked,
       LogEventBacked DEF NewRequest, Continue, Tasks
  <1>2. ASSUME NEW x \in Indexers, IndexerStep(x) PROVE BackedInv'
    BY <1>2, StartIterationBacked, ProjectEventBacked, ApplyProjectionBacked, SaveCursorBacked,
       SweepBacked, AdvanceBacked, LoseBacked, LogEventBacked DEF IndexerStep, Tasks
  <1>3. ASSUME NEW t \in Tasks, CutOff(t) PROVE BackedInv'
    BY <1>3, IdleIsSound, TaskStepAside DEF CutOff, outside
  <1>4. CASE Broadcast
    <2>1. UNCHANGED <<intent, cursor, task>> /\ chain' = chain /\ expired' = expired
      BY <1>4 DEF Broadcast, outside
    <2>2. Later
      BY <2>1 DEF Later, BackedInv, ChainSound
    <2>3. QED
      BY <2>1, <2>2, WorldStep
  <1>5. CASE Deposit \/ ClaimNote \/ RefundPublic
    <2>1. UNCHANGED <<intent, cursor, task>>
      BY <1>5 DEF Deposit, ClaimNote, RefundPublic, Emit, outside
    <2>2. Later
      BY <1>5, EmitLater DEF Deposit, ClaimNote, RefundPublic, Kinds
    <2>3. QED
      BY <2>1, <2>2, WorldStep
  <1>6. ASSUME NEW clock \in {"wall", "block"}, Expire(clock) PROVE BackedInv'
    <2>1. /\ UNCHANGED <<intent, cursor, task>> /\ chain' = chain
          /\ expired' = [expired EXCEPT ![clock] = TRUE]
      BY <1>6 DEF Expire, outside
    <2>2. Later
      <3>1. expired \in [wall : BOOLEAN, block : BOOLEAN] /\ ChainSound
        BY DEF BackedInv
      <3>2. /\ expired' \in [wall : BOOLEAN, block : BOOLEAN]
            /\ expired.wall => expired'.wall
            /\ expired.block => expired'.block
        BY <2>1, <3>1
      <3>3. QED
        BY <2>1, <3>1, <3>2 DEF Later, ChainSound
    <2>3. QED
      BY <2>1, <2>2, WorldStep
  <1>7. CASE UNCHANGED vars
    <2>1. UNCHANGED <<intent, cursor, task>> /\ UNCHANGED world
      BY <1>7 DEF vars, world
    <2>2. Later
      BY <2>1, NothingHappens DEF BackedInv
    <2>3. QED
      BY <2>1, <2>2, WorldStep
  <1>8. QED
    BY <1>1, <1>2, <1>3, <1>4, <1>5, <1>6, <1>7 DEF Next

LEMMA BackedAlways == Spec => []BackedInv
  BY BackedAtFirst, BackedStep, PTL DEF Spec

(* The row is called funded, claimed or refunded only when the pool has     *)
(* said so, and refundable only past its expiry: recovery.ts, server.ts.    *)
THEOREM NeverAheadOfChainHolds == Spec => []NeverAheadOfChain
  <1>1. BackedInv => NeverAheadOfChain
    BY DEF BackedInv, Backed, NeverAheadOfChain
  <1>2. QED
    BY <1>1, BackedAlways, PTL
-----------------------------------------------------------------------------
(* The history that the version counts: h[v] is the state the row had when *)
(* its version was v.  No variable holds it; the invariant says that there *)
(* is one, that it follows the table of edges, and that everybody who      *)
(* knows a version knows the state that belongs to it.                     *)

Move == [from : IntentState, to : IntentState]

IsMove(h, v, from, to) ==
    /\ to = h[v]
    /\ from # to => v # 0 /\ from = h[v - 1]

Knows(h, n, e) ==
    /\ e.version \in 0..n
    /\ e.pc \in {"walk", "mark", "store"} => e.from = h[e.version]
    /\ e.pc = "log" => IsMove(h, e.version, e.from, e.to)
    /\ e.pc = "mark" => \/ e.to = e.from
                        \/ e.from = "quoted" /\ e.to = "source_submitted"

FollowsTable(h, n) ==
    /\ h \in [Nat -> IntentState]
    /\ \A v \in 1..n : TransitionAllowed(h[v - 1], h[v])

Logged(h, n, log) ==
    /\ DOMAIN log \subseteq 0..n
    /\ \A v \in DOMAIN log : log[v] \in Move /\ IsMove(h, v, log[v].from, log[v].to)

History(h) ==
    /\ FollowsTable(h, intent.version)
    /\ h[intent.version] = intent.state
    /\ Logged(h, intent.version, events)
    /\ \A t \in Tasks : Knows(h, intent.version, task[t])

HistoryInv == \E h : History(h)

LEMMA IdleKnows == ASSUME NEW h, NEW n \in Nat PROVE Knows(h, n, Idle)
  BY DEF Knows, Idle

LEMMA HistoryAtFirst == Init => HistoryInv
  <1> SUFFICES ASSUME Init PROVE HistoryInv
    OBVIOUS
  <1>1. PICK quotes \in Quotes :
          /\ intent = [state |-> IF quotes = 0 THEN "draft" ELSE "quoted",
                       version |-> quotes, hasSourceTx |-> FALSE, onchain |-> "none"]
          /\ events = [v \in 0..quotes |->
                [from |-> "draft", to |-> IF v = 0 THEN "draft" ELSE "quoted"]]
    BY DEF Init
  <1>2. quotes \in 0..1
    BY IntentWorkflowAssumption
  <1> DEFINE h == [v \in Nat |-> IF v = 0 THEN "draft" ELSE "quoted"]
  <1>3. h \in [Nat -> IntentState] /\ h[0] = "draft" /\ h[1] = "quoted"
    BY StateNames
  <1>4. h[intent.version] = intent.state /\ intent.version = quotes
    BY <1>1, <1>2
  <1>5. FollowsTable(h, quotes)
    <2>1. TransitionAllowed("draft", "quoted")
      BY DEF TransitionAllowed, allowed
    <2> HIDE DEF h
    <2>2. QED
      BY <1>2, <1>3, <2>1 DEF FollowsTable
  <1>6. Logged(h, quotes, events)
    <2>1. \A v \in 0..quotes : v = 0 \/ v = 1
      BY <1>2
    <2>2. DOMAIN events = 0..quotes
      BY <1>1
    <2>3. ASSUME NEW v \in 0..quotes
          PROVE  events[v] \in Move /\ IsMove(h, v, events[v].from, events[v].to)
      <3>1. events[v] = [from |-> "draft", to |-> IF v = 0 THEN "draft" ELSE "quoted"]
        BY <1>1
      <3>2. events[v].from = "draft" /\ events[v].to = IF v = 0 THEN "draft" ELSE "quoted"
        BY <3>1
      <3>3. events[v] \in Move
        BY <3>1, StateNames DEF Move
      <3> HIDE DEF h
      <3>4. QED
        BY <2>1, <3>2, <3>3, <1>3 DEF IsMove
    <2>4. QED
      BY <2>2, <2>3 DEF Logged
  <1>7. \A t \in Tasks : Knows(h, quotes, task[t])
    BY <1>2, IdleKnows DEF Init
  <1> HIDE DEF h
  <1>8. QED
    BY <1>4, <1>5, <1>6, <1>7 DEF History, HistoryInv

\* A step of one task that writes neither the state nor the log.
LEMMA KnowsStep ==
    ASSUME BackedInv, NEW h, History(h), NEW t \in Tasks, NEW e, Become(t, e),
           intent'.state = intent.state, intent'.version = intent.version,
           Knows(h, intent.version, e), events' = events
    PROVE  HistoryInv'
  <1>1. \A u \in Tasks : task'[u] = task[u] \/ task'[u] = e
    BY DEF Become, BackedInv
  <1>2. \A u \in Tasks : Knows(h, intent'.version, task'[u])
    BY <1>1 DEF History
  <1>3. QED
    BY <1>2 DEF History, HistoryInv

\* Nor does the task learn anything.
LEMMA GivesUp ==
    ASSUME BackedInv, NEW h, History(h), NEW t \in Tasks,
           Become(t, Idle) \/ Become(t, Onward(t)),
           intent'.state = intent.state, intent'.version = intent.version, events' = events
    PROVE  HistoryInv'
  <1>1. intent.version \in Nat
    BY DEF BackedInv
  <1>2. Knows(h, intent.version, Idle)
    BY <1>1, IdleKnows
  <1>3. Knows(h, intent.version, Onward(t))
    <2>1. Onward(t).version = 0 /\ Onward(t).pc = "next"
      BY DEF Onward, Idle
    <2>2. QED
      BY <1>1, <2>1 DEF Knows
  <1>4. QED
    BY <1>2, <1>3, KnowsStep

\* A step that moves the state along an edge, and remembers to log it.
LEMMA MoveStep ==
    ASSUME BackedInv, NEW h, History(h), NEW t \in Tasks, NEW e, Become(t, e),
           NEW to \in IntentState, TransitionAllowed(intent.state, to),
           intent'.state = to, intent'.version = intent.version + 1, events' = events,
           e.version = intent.version + 1, e.pc = "log", e.from = intent.state, e.to = to
    PROVE  HistoryInv'
  <1> DEFINE n == intent.version
             g == [v \in Nat |-> IF v = n + 1 THEN to ELSE h[v]]
  <1>1. n \in Nat /\ h \in [Nat -> IntentState]
    BY DEF BackedInv, History, FollowsTable
  <1>2. g \in [Nat -> IntentState] /\ g[n + 1] = to /\ \A v \in 0..n : g[v] = h[v]
    BY <1>1
  <1> HIDE DEF g
  <1>3. FollowsTable(g, n + 1)
    <2>1. g[n] = intent.state
      BY <1>1, <1>2 DEF History
    <2>2. ASSUME NEW v \in 1..n PROVE TransitionAllowed(g[v - 1], g[v])
      <3>1. v \in 0..n /\ v - 1 \in 0..n
        BY <1>1
      <3>2. QED
        BY <3>1, <1>2 DEF History, FollowsTable
    <2>3. TransitionAllowed(g[(n + 1) - 1], g[n + 1])
      BY <1>1, <1>2, <2>1
    <2>4. \A v \in 1..(n + 1) : v \in 1..n \/ v = n + 1
      BY <1>1
    <2>5. QED
      BY <1>2, <2>2, <2>3, <2>4 DEF FollowsTable
  <1>4. \A v \in 0..n : \A from, x : IsMove(h, v, from, x) => IsMove(g, v, from, x)
    <2>1. \A v \in 0..n : v = 0 \/ v - 1 \in 0..n
      BY <1>1
    <2>2. QED
      BY <1>2, <2>1 DEF IsMove
  <1>5. Logged(g, n + 1, events)
    BY <1>1, <1>4 DEF History, Logged
  <1>6. \A u : Knows(h, n, u) => Knows(g, n + 1, u)
    BY <1>1, <1>2, <1>4 DEF Knows
  <1>7. Knows(g, n + 1, e)
    <2>1. g[(n + 1) - 1] = intent.state
      BY <1>1, <1>2 DEF History
    <2>2. IsMove(g, n + 1, intent.state, to)
      BY <1>1, <1>2, <2>1 DEF IsMove
    <2>3. QED
      BY <1>1, <2>2 DEF Knows
  <1>8. \A u \in Tasks : Knows(g, n + 1, task'[u])
    <2>1. \A u \in Tasks : task'[u] = task[u] \/ task'[u] = e
      BY DEF Become, BackedInv
    <2>2. QED
      BY <2>1, <1>6, <1>7 DEF History
  <1>9. QED
    BY <1>2, <1>3, <1>5, <1>8 DEF History, HistoryInv
-----------------------------------------------------------------------------
(* The steps again, with what they do to the history and to the row.       *)

OneEdge ==
    IF intent'.state # intent.state
    THEN /\ TransitionAllowed(intent.state, intent'.state)
         /\ intent'.version = intent.version + 1
    ELSE intent'.version = intent.version

\* A step that writes neither the state nor the log nor a task.
LEMMA HistoryAside ==
    ASSUME BackedInv, HistoryInv,
           intent'.state = intent.state, intent'.version = intent.version,
           events' = events, task' = task
    PROVE  HistoryInv' /\ OneEdge
  BY DEF HistoryInv, History, OneEdge

LEMMA GivesUpHistory ==
    ASSUME BackedInv, HistoryInv, NEW t \in Tasks,
           Become(t, Idle) \/ Become(t, Onward(t)),
           intent' = intent, events' = events
    PROVE  HistoryInv' /\ OneEdge
  <1>1. PICK h : History(h)
    BY DEF HistoryInv
  <1>2. intent'.state = intent.state /\ intent'.version = intent.version
    OBVIOUS
  <1>3. QED
    BY <1>1, <1>2, GivesUp DEF OneEdge

LEMMA StartWalkHistory ==
    ASSUME BackedInv, HistoryInv, NEW t \in Tasks, NEW target, StartWalk(t, target),
           intent' = intent, events' = events
    PROVE  HistoryInv' /\ OneEdge
  <1>1. PICK h : History(h)
    BY DEF HistoryInv
  <1> DEFINE e == [task[t] EXCEPT !.pc = "walk", !.from = intent.state,
                              !.version = intent.version, !.target = target]
  <1>2. task[t] \in Task /\ intent.version \in Nat
    BY DEF BackedInv
  <1>3. e.pc = "walk" /\ e.from = intent.state /\ e.version = intent.version
    BY <1>2 DEF Task
  <1>4. Become(t, e)
    BY DEF StartWalk
  <1> HIDE DEF e
  <1>5. Knows(h, intent.version, e)
    BY <1>1, <1>2, <1>3 DEF Knows, History
  <1>6. QED
    BY <1>1, <1>4, <1>5, KnowsStep DEF OneEdge

LEMMA AdvanceHistory ==
    ASSUME BackedInv, HistoryInv, NEW t \in Tasks, Advance(t)
    PROVE  HistoryInv' /\ OneEdge
  <1>1. PICK h : History(h)
    BY DEF HistoryInv
  <1> DEFINE from == task[t].from
             next == Planned(t)
             v == task[t].version + 1
             e == [task[t] EXCEPT !.pc = "log", !.to = next, !.version = v]
  <1>2. /\ Sound(task[t]) /\ task[t] \in Task /\ task[t].pc = "walk"
        /\ Knows(h, intent.version, task[t]) /\ task[t].version = intent.version
    BY <1>1 DEF Advance, BackedInv, Sound, History
  <1>3. from = intent.state /\ v = intent.version + 1 /\ v \in Nat
    BY <1>1, <1>2 DEF Knows, History, Task
  <1>4. next \in allowed[from] /\ next \in IntentState /\ next # from
    <2>1. Walks(from, task[t].target) /\ from \in IntentState /\ task[t].target \in IntentState
      BY <1>2 DEF Sound, Task
    <2>2. QED
      BY <2>1, NextIsNearer DEF Walks, Planned
  <1>5. /\ intent' = [intent EXCEPT !.state = next, !.version = v]
        /\ Become(t, e) /\ events' = events
    BY DEF Advance
  <1> HIDE DEF next, v
  <1>6. e.version = v /\ e.pc = "log" /\ e.from = from /\ e.to = next
    BY <1>2 DEF Task
  <1> HIDE DEF e, from
  <1>7. intent'.state = next /\ intent'.version = v
    BY <1>5 DEF BackedInv
  <1>8. TransitionAllowed(intent.state, next)
    BY <1>3, <1>4 DEF TransitionAllowed
  <1>9. HistoryInv'
    BY <1>1, <1>3, <1>4, <1>5, <1>6, <1>7, <1>8, MoveStep
  <1>10. OneEdge
    BY <1>3, <1>4, <1>7, <1>8 DEF OneEdge
  <1>11. QED
    BY <1>9, <1>10

LEMMA LogEventHistory ==
    ASSUME BackedInv, HistoryInv, NEW t \in Tasks, LogEvent(t)
    PROVE  HistoryInv' /\ OneEdge
  <1>1. PICK h : History(h)
    BY DEF HistoryInv
  <1> DEFINE e == task[t]
             n == intent.version
             walk == [e EXCEPT !.pc = "walk", !.from = e.to]
             log == [v \in DOMAIN events \cup {e.version} |->
                       IF v = e.version THEN [from |-> e.from, to |-> e.to] ELSE events[v]]
  <1>2. /\ e \in Task /\ Knows(h, n, e) /\ e.pc = "log" /\ UNCHANGED intent /\ n \in Nat
    BY <1>1 DEF LogEvent, BackedInv, History
  <1>3. CASE UNCHANGED events /\ Become(t, Idle)
    BY <1>2, <1>3, GivesUpHistory
  <1>4. ASSUME events' = log,
               Become(t, walk) \/ Become(t, Onward(t)) \/ Become(t, Idle)
        PROVE  HistoryInv' /\ OneEdge
    <2>1. IsMove(h, e.version, e.from, e.to) /\ e.version \in 0..n
      BY <1>2 DEF Knows
    <2>2. [from |-> e.from, to |-> e.to] \in Move
      BY <1>2 DEF Task, Move
    <2>3. Logged(h, n, log)
      <3>1. DOMAIN events \subseteq 0..n
            /\ \A v \in DOMAIN events : events[v] \in Move
                                        /\ IsMove(h, v, events[v].from, events[v].to)
        BY <1>1 DEF History, Logged
      <3>2. DOMAIN log = DOMAIN events \cup {e.version}
        OBVIOUS
      <3>3. ASSUME NEW v \in DOMAIN log
            PROVE  log[v] \in Move /\ IsMove(h, v, log[v].from, log[v].to)
        <4>1. CASE v = e.version
          <5>1. log[v] = [from |-> e.from, to |-> e.to]
            BY <4>1
          <5>2. log[v].from = e.from /\ log[v].to = e.to
            BY <5>1
          <5>3. QED
            BY <4>1, <5>1, <5>2, <2>1, <2>2
        <4>2. CASE v # e.version
          BY <4>2, <3>1, <3>2
        <4>3. QED
          BY <4>1, <4>2
      <3> HIDE DEF log
      <3>4. QED
        BY <3>1, <3>2, <3>3, <2>1 DEF Logged
    <2>4. \A u \in Tasks : \/ task'[u] = task[u] \/ task'[u] = walk
                           \/ task'[u] = Onward(t) \/ task'[u] = Idle
      BY <1>4 DEF Become, BackedInv
    <2>5. Knows(h, n, walk) /\ Knows(h, n, Onward(t)) /\ Knows(h, n, Idle)
      <3>1. walk.pc = "walk" /\ walk.from = e.to /\ walk.version = e.version
        BY <1>2 DEF Task
      <3>2. Onward(t).version = 0 /\ Onward(t).pc = "next"
        BY DEF Onward, Idle
      <3> HIDE DEF walk, e
      <3>3. Knows(h, n, walk)
        BY <2>1, <3>1 DEF Knows, IsMove
      <3>4. QED
        BY <1>2, <3>2, <3>3, IdleKnows DEF Knows
    <2> HIDE DEF walk, log
    <2>6. \A u \in Tasks : Knows(h, n, task'[u])
      BY <1>1, <2>4, <2>5 DEF History
    <2>7. History(h)'
      BY <1>1, <1>2, <1>4, <2>3, <2>6 DEF History
    <2>8. QED
      BY <2>7, <1>2 DEF HistoryInv, OneEdge
  <1>5. QED
    BY <1>3, <1>4 DEF LogEvent

LEMMA QuoteHistory ==
    ASSUME BackedInv, HistoryInv, NEW t \in Tasks, Quote(t)
    PROVE  HistoryInv' /\ OneEdge
  <1>1. PICK h : History(h)
    BY DEF HistoryInv
  <1> DEFINE e == [Idle EXCEPT !.pc = "log", !.to = "quoted", !.version = 1, !.target = "quoted"]
  <1>2. /\ intent.state = "draft" /\ intent.version = 0 /\ events' = events
        /\ intent' = [intent EXCEPT !.state = "quoted", !.version = 1]
        /\ Become(t, e)
    BY DEF Quote
  <1>3. e.pc = "log" /\ e.to = "quoted" /\ e.version = 1 /\ e.from = "draft"
    BY DEF Idle
  <1> HIDE DEF e
  <1>4. intent'.state = "quoted" /\ intent'.version = 1 /\ intent.version + 1 = 1
    BY <1>2 DEF BackedInv
  <1>5. "quoted" \in IntentState /\ TransitionAllowed(intent.state, "quoted")
    BY <1>2, StateNames DEF TransitionAllowed, allowed
  <1>6. HistoryInv'
    BY <1>1, <1>2, <1>3, <1>4, <1>5, MoveStep
  <1>7. QED
    BY <1>2, <1>4, <1>5, <1>6 DEF OneEdge

\* The two reads: the state and the version come from the same row.
LEMMA ReadHistory ==
    ASSUME BackedInv, HistoryInv, NEW t \in Tasks, ReadForSource(t) \/ ReadForDelivery(t)
    PROVE  HistoryInv' /\ OneEdge
  <1>1. PICK h : History(h)
    BY DEF HistoryInv
  <1>2. intent' = intent /\ events' = events /\ intent.version \in Nat
    BY DEF ReadForSource, ReadForDelivery, BackedInv
  <1>3. PICK e : /\ Become(t, e)
                 /\ e.pc \in {"mark", "store"}
                 /\ e.version = intent.version /\ e.from = intent.state
                 /\ e.pc = "mark" => \/ e.to = e.from
                                     \/ e.from = "quoted" /\ e.to = "source_submitted"
    <2>1. CASE ReadForSource(t)
      <3> DEFINE to == IF intent.onchain # "none" THEN intent.state ELSE "source_submitted"
                 e == [Idle EXCEPT !.pc = "mark", !.version = intent.version,
                                   !.from = intent.state, !.to = to]
      <3>1. Become(t, e) /\ (intent.onchain # "none" \/ intent.state = "quoted")
        BY <2>1 DEF ReadForSource
      <3>2. to = intent.state \/ (intent.state = "quoted" /\ to = "source_submitted")
        BY <3>1
      <3> HIDE DEF to
      <3>3. e.pc = "mark" /\ e.version = intent.version /\ e.from = intent.state /\ e.to = to
        BY DEF Idle
      <3> HIDE DEF e
      <3>4. QED
        BY <3>1, <3>2, <3>3
    <2>2. CASE ReadForDelivery(t)
      <3> DEFINE e == [Idle EXCEPT !.pc = "store", !.from = intent.state,
                                   !.version = intent.version]
      <3>1. Become(t, e)
        BY <2>2 DEF ReadForDelivery
      <3>2. e.pc = "store" /\ e.version = intent.version /\ e.from = intent.state
        BY DEF Idle
      <3> HIDE DEF e
      <3>3. QED
        BY <3>1, <3>2
    <2>3. QED
      BY <2>1, <2>2
  <1>4. Knows(h, intent.version, e)
    BY <1>1, <1>2, <1>3 DEF Knows, History
  <1>5. QED
    BY <1>1, <1>2, <1>3, <1>4, KnowsStep DEF OneEdge

LEMMA MarkSourceHistory ==
    ASSUME BackedInv, HistoryInv, NEW t \in Tasks, MarkSource(t)
    PROVE  HistoryInv' /\ OneEdge
  <1>1. PICK h : History(h)
    BY DEF HistoryInv
  <1> DEFINE m == task[t]
             n == intent.version
             e == [m EXCEPT !.pc = "log", !.target = m.to, !.version = intent'.version]
  <1>2. m \in Task /\ Knows(h, n, m) /\ m.pc = "mark" /\ events' = events /\ n \in Nat
    BY <1>1 DEF MarkSource, BackedInv, History
  <1>3. CASE UNCHANGED intent /\ Become(t, Idle)
    BY <1>2, <1>3, GivesUpHistory
  <1>4. ASSUME n = m.version, intent' = SourceMarked(m), Become(t, e)
        PROVE  HistoryInv' /\ OneEdge
    <2>1. e.pc = "log" /\ e.version = intent'.version /\ e.from = m.from /\ e.to = m.to
      BY <1>2 DEF Task
    <2> HIDE DEF e
    <2>2. m.from = intent.state /\ m.to \in IntentState
      BY <1>1, <1>2, <1>4 DEF Knows, History, Task
    <2>3. /\ intent'.state = m.to
          /\ intent'.version = IF m.to = m.from THEN n ELSE n + 1
      BY <1>4 DEF SourceMarked, BackedInv
    <2>4. CASE m.to = m.from
      <3>1. Knows(h, n, e)
        BY <1>1, <1>2, <2>1, <2>2, <2>3, <2>4 DEF Knows, IsMove, History
      <3>2. QED
        BY <1>1, <1>2, <1>4, <2>2, <2>3, <2>4, <3>1, KnowsStep DEF OneEdge
    <2>5. CASE m.to # m.from
      <3>1. m.from = "quoted" /\ m.to = "source_submitted"
        BY <1>2, <2>5 DEF Knows
      <3>2. TransitionAllowed(intent.state, m.to)
        BY <2>2, <3>1 DEF TransitionAllowed, allowed
      <3> HIDE DEF m
      <3>3. HistoryInv'
        BY <1>1, <1>2, <1>4, <2>1, <2>2, <2>3, <2>5, <3>2, MoveStep
      <3>4. QED
        BY <2>2, <2>3, <2>5, <3>2, <3>3 DEF OneEdge
    <2>6. QED
      BY <2>4, <2>5
  <1>5. QED
    BY <1>3, <1>4 DEF MarkSource

LEMMA StoreNoteHistory ==
    ASSUME BackedInv, HistoryInv, NEW t \in Tasks, StoreNote(t)
    PROVE  HistoryInv' /\ OneEdge
  <1>1. PICK h : History(h)
    BY DEF HistoryInv
  <1> DEFINE e == [task[t] EXCEPT !.pc = "walk", !.target = "delivered"]
  <1>2. /\ task[t] \in Task /\ Knows(h, intent.version, task[t]) /\ task[t].pc = "store"
        /\ intent' = intent /\ events' = events
    BY <1>1 DEF StoreNote, BackedInv, History
  <1>3. Become(t, e) \/ Become(t, Idle)
    BY DEF StoreNote
  <1>4. Knows(h, intent.version, e)
    <2>1. e.pc = "walk" /\ e.from = task[t].from /\ e.version = task[t].version
      BY <1>2 DEF Task
    <2> HIDE DEF e
    <2>2. QED
      BY <1>2, <2>1 DEF Knows
  <1> HIDE DEF e
  <1>5. QED
    BY <1>1, <1>2, <1>3, <1>4, KnowsStep, GivesUpHistory DEF OneEdge

\* The steps of an indexer between its walks.
LEMMA IndexerHistory ==
    ASSUME BackedInv, HistoryInv, NEW x \in Tasks,
           \/ StartIteration(x) \/ ProjectEvent(x) \/ ApplyProjection(x)
           \/ SaveCursor(x) \/ Sweep(x)
    PROVE  HistoryInv' /\ OneEdge
  <1>1. PICK h : History(h)
    BY DEF HistoryInv
  <1>2. /\ task[x] \in Task /\ Knows(h, intent.version, task[x]) /\ intent.version \in Nat
        /\ events' = events
    BY <1>1 DEF BackedInv, History, StartIteration, ProjectEvent, ApplyProjection, SaveCursor, Sweep
  <1>3. CASE StartIteration(x) \/ SaveCursor(x)
    <2>1. intent' = intent /\ \E e : /\ Become(x, e) /\ e.version = 0
                                     /\ e.pc \in {"next", "sweep"}
      <3>1. CASE StartIteration(x)
        <4> DEFINE e == [Idle EXCEPT !.pc = "next", !.at = cursor, !.upto = Len(chain)]
        <4>1. Become(x, e) /\ intent' = intent /\ e.version = 0 /\ e.pc = "next"
          BY <3>1 DEF StartIteration, Idle
        <4> HIDE DEF e
        <4>2. QED
          BY <4>1
      <3>2. CASE SaveCursor(x)
        <4> DEFINE e == [Idle EXCEPT !.pc = "sweep"]
        <4>1. Become(x, e) /\ intent' = intent /\ e.version = 0 /\ e.pc = "sweep"
          BY <3>2 DEF SaveCursor, Idle
        <4> HIDE DEF e
        <4>2. QED
          BY <4>1
      <3>3. QED
        BY <3>1, <3>2, <1>3
    <2>2. PICK e : Become(x, e) /\ e.version = 0 /\ e.pc \in {"next", "sweep"}
      BY <2>1
    <2>3. Knows(h, intent.version, e)
      BY <1>2, <2>2 DEF Knows
    <2>4. QED
      BY <1>1, <1>2, <2>1, <2>2, <2>3, KnowsStep DEF OneEdge
  <1>4. CASE ProjectEvent(x)
    <2> DEFINE i == task[x].at + 1
               e == [task[x] EXCEPT !.pc = "apply", !.at = i, !.target = chain[i]]
    <2>1. Become(x, e) /\ intent' = [intent EXCEPT !.onchain = chain[i]]
      BY <1>4 DEF ProjectEvent
    <2>2. e.pc = "apply" /\ e.version = task[x].version
      BY <1>2 DEF Task
    <2>3. intent'.state = intent.state /\ intent'.version = intent.version
      BY <2>1 DEF BackedInv
    <2> HIDE DEF e
    <2>4. Knows(h, intent.version, e)
      BY <1>2, <2>2 DEF Knows
    <2>5. QED
      BY <1>1, <1>2, <2>1, <2>3, <2>4, KnowsStep DEF OneEdge
  <1>5. CASE ApplyProjection(x)
    BY <1>2, <1>5, StartWalkHistory, GivesUpHistory DEF ApplyProjection
  <1>6. CASE Sweep(x)
    BY <1>2, <1>6, StartWalkHistory, GivesUpHistory DEF Sweep
  <1>7. QED
    BY <1>3, <1>4, <1>5, <1>6

LEMMA HistoryStep == BackedInv /\ HistoryInv /\ [Next]_vars => HistoryInv' /\ OneEdge
  <1> SUFFICES ASSUME BackedInv, HistoryInv, [Next]_vars
               PROVE  HistoryInv' /\ OneEdge
    OBVIOUS
  <1> USE DEF Tasks
  <1>1. ASSUME NEW r \in Requests, NewRequest(r) PROVE HistoryInv' /\ OneEdge
    <2>1. CASE Cancel(r) \/ RefundObserved(r)
      BY <2>1, StartWalkHistory DEF Cancel, RefundObserved
    <2>2. QED
      BY <1>1, <2>1, QuoteHistory, ReadHistory DEF NewRequest
  <1>2. ASSUME NEW t \in Tasks, Lose(t) PROVE HistoryInv' /\ OneEdge
    BY <1>2, GivesUpHistory DEF Lose
  <1>3. ASSUME NEW r \in Requests, Continue(r) PROVE HistoryInv' /\ OneEdge
    BY <1>2, <1>3, MarkSourceHistory, StoreNoteHistory, AdvanceHistory, LogEventHistory
       DEF Continue
  <1>4. ASSUME NEW x \in Indexers, IndexerStep(x) PROVE HistoryInv' /\ OneEdge
    BY <1>2, <1>4, IndexerHistory, AdvanceHistory, LogEventHistory DEF IndexerStep
  <1>5. ASSUME NEW t \in Tasks, CutOff(t) PROVE HistoryInv' /\ OneEdge
    BY <1>5, GivesUpHistory DEF CutOff, outside
  <1>6. CASE \/ Broadcast \/ Deposit \/ ClaimNote \/ RefundPublic
             \/ \E clock \in {"wall", "block"} : Expire(clock)
             \/ UNCHANGED vars
    <2>1. intent' = intent /\ events' = events /\ task' = task
      BY <1>6 DEF Broadcast, Deposit, ClaimNote, RefundPublic, Emit, Expire, outside, vars
    <2>2. QED
      BY <2>1, HistoryAside
  <1>7. QED
    BY <1>1, <1>3, <1>4, <1>5, <1>6 DEF Next

LEMMA HistoryAlways == Spec => []HistoryInv
  BY BackedAlways, HistoryAtFirst, HistoryStep, PTL DEF Spec

(* Whatever the requests and the indexers do to each other, the state moves *)
(* along one allowed edge at a time, and every move has a version of its    *)
(* own: transition in state-machine.ts, its update guarded by the version.  *)
THEOREM OnlyAllowedEdgesHolds == Spec => OnlyAllowedEdges
  <1>1. BackedInv /\ HistoryInv /\ [Next]_vars =>
          [IF intent'.state # intent.state
           THEN /\ TransitionAllowed(intent.state, intent'.state)
                /\ intent'.version = intent.version + 1
           ELSE intent'.version = intent.version]_vars
    BY HistoryStep DEF OneEdge
  <1>2. QED
    BY <1>1, BackedAlways, HistoryAlways, PTL DEF Spec, OnlyAllowedEdges

(* intent_events is a history with holes: of the last version it tells what *)
(* the state is, of every edge that it exists and that it began where the   *)
(* event before left off.                                                   *)
THEOREM LogIsHistoryHolds == Spec => []LogIsHistory
  <1>1. BackedInv /\ HistoryInv => LogIsHistory
    <2> SUFFICES ASSUME BackedInv, HistoryInv PROVE LogIsHistory
      OBVIOUS
    <2>1. PICK h : History(h)
      BY DEF HistoryInv
    <2>2. /\ intent.version \in Nat
          /\ DOMAIN events \subseteq 0..intent.version
          /\ \A v \in DOMAIN events : IsMove(h, v, events[v].from, events[v].to)
          /\ \A v \in 1..intent.version : TransitionAllowed(h[v - 1], h[v])
          /\ h[intent.version] = intent.state
      BY <2>1 DEF BackedInv, History, Logged, FollowsTable
    <2>3. ASSUME NEW v \in DOMAIN events, events[v].from # events[v].to
          PROVE  /\ TransitionAllowed(events[v].from, events[v].to)
                 /\ v - 1 \in DOMAIN events => events[v].from = events[v - 1].to
      <3>1. v \in 0..intent.version /\ v # 0
        BY <2>2, <2>3 DEF IsMove
      <3>2. v \in 1..intent.version
        BY <3>1, <2>2
      <3>3. QED
        BY <2>2, <2>3, <3>2 DEF IsMove
    <2>4. QED
      BY <2>2, <2>3 DEF LogIsHistory, IsMove
  <1>2. QED
    BY <1>1, BackedAlways, HistoryAlways, PTL
-----------------------------------------------------------------------------
(* The rest of the types. *)

FlagsOK == /\ note \in BOOLEAN /\ sent \in BOOLEAN
           /\ asked \in 0..MaxRequests /\ cuts \in 0..MaxCuts

LEMMA FlagsAlways == Spec => []FlagsOK
  <1>1. Init => FlagsOK
    <2> SUFFICES ASSUME Init PROVE FlagsOK
      OBVIOUS
    <2>1. note \in BOOLEAN /\ sent \in BOOLEAN
      BY DEF Init
    <2>2. asked = 0 /\ cuts = 0
      BY DEF Init
    <2>3. 0 \in 0..MaxRequests /\ 0 \in 0..MaxCuts
      BY IntentWorkflowAssumption
    <2>4. QED
      BY <2>1, <2>2, <2>3 DEF FlagsOK
  <1>2. FlagsOK /\ [Next]_vars => FlagsOK'
    <2> SUFFICES ASSUME FlagsOK, [Next]_vars PROVE FlagsOK'
      OBVIOUS
    <2> USE IntentWorkflowAssumption DEF FlagsOK, world, bounds, outside
    <2>1. ASSUME NEW r \in Requests, NewRequest(r) PROVE FlagsOK'
      BY <2>1 DEF NewRequest, Arrive, Quote, Cancel, ReadForSource, ReadForDelivery, RefundObserved
    <2>2. ASSUME NEW t, MarkSource(t) \/ StoreNote(t) \/ Advance(t) \/ Lose(t) \/ LogEvent(t)
          PROVE  FlagsOK'
      <3>1. (note' = note \/ note' = TRUE) /\ sent' = sent /\ asked' = asked /\ cuts' = cuts
        BY <2>2 DEF MarkSource, StoreNote, Advance, Lose, LogEvent
      <3>2. QED
        BY <3>1
    <2>3. ASSUME NEW x \in Indexers, \/ StartIteration(x) \/ ProjectEvent(x)
                                     \/ ApplyProjection(x) \/ SaveCursor(x) \/ Sweep(x)
          PROVE  FlagsOK'
      BY <2>3 DEF StartIteration, ProjectEvent, ApplyProjection, SaveCursor, Sweep
    <2>4. ASSUME NEW t \in Tasks, CutOff(t) PROVE FlagsOK'
      BY <2>4 DEF CutOff
    <2>5. CASE \/ Broadcast \/ Deposit \/ ClaimNote \/ RefundPublic
               \/ \E clock \in {"wall", "block"} : Expire(clock)
               \/ UNCHANGED vars
      BY <2>5 DEF Broadcast, Deposit, ClaimNote, RefundPublic, Emit, Expire, vars
    <2>6. QED
      BY <2>1, <2>2, <2>3, <2>4, <2>5 DEF Next, Continue, IndexerStep
  <1>3. QED
    BY <1>1, <1>2, PTL DEF Spec

(* Rows, events and tasks keep their shape: versions are numbers, a task's  *)
(* place is a place on the chain, and no event is of a version to come.     *)
THEOREM TypeCorrect == Spec => []TypeOK
  <1>1. BackedInv /\ HistoryInv /\ FlagsOK => TypeOK
    <2> SUFFICES ASSUME BackedInv, HistoryInv, FlagsOK PROVE TypeOK
      OBVIOUS
    <2>1. PICK h : History(h)
      BY DEF HistoryInv
    <2>2. /\ DOMAIN events \subseteq 0..intent.version
          /\ \A v \in DOMAIN events : events[v] \in [from : IntentState, to : IntentState]
      BY <2>1 DEF History, Logged, Move
    <2>3. intent.onchain \in {"none", "funded", "claimed", "refunded"}
      BY DEF BackedInv, Kinds
    <2>4. intent \in [state : IntentState, version : Nat, hasSourceTx : BOOLEAN,
                      onchain : {"none", "funded", "claimed", "refunded"}]
      BY <2>3 DEF BackedInv
    <2>5. QED
      BY <2>2, <2>4 DEF BackedInv, ChainSound, Kinds, FlagsOK, TypeOK
  <1>2. QED
    BY <1>1, BackedAlways, HistoryAlways, FlagsAlways, PTL

-----------------------------------------------------------------------------
(* ReadModelTrue: the iteration that is open, if there is one, has the      *)
(* chain up to some block.                                                  *)

Block == [fork : Nat, event : Ix!Events \cup {Ix!NoEvent}]
Pages == UNION {[S -> Ix!Events] : S \in SUBSET Nat}
Job == [pc : {"idle", "check", "resetEvents", "resetIntents", "events", "project", "write"},
        from : Nat, latest : Nat, page : Pages]

\* The events of the first n blocks, and what they say of a claim.
Told(n) == {blocks[i].event : i \in 1..n} \ {Ix!NoEvent}
Says(c, told) == IF [claim |-> c, kind |-> "claimed"] \in told THEN "claimed"
                 ELSE IF [claim |-> c, kind |-> "refunded"] \in told THEN "refunded"
                 ELSE IF [claim |-> c, kind |-> "funded"] \in told THEN "funded" ELSE "none"

Believes(c, n) == /\ \E m \in n..Len(blocks) : onchain[c] = Says(c, Told(m))
                  /\ \/ onchain[c] = "none"
                     \/ [claim |-> c, kind |-> onchain[c]] \in canonical

\* The read model has the first n blocks, and nothing the chain has not.
Reached(n) == /\ Told(n) \subseteq canonical
              /\ canonical \subseteq Told(Len(blocks))
              /\ \A c \in Claims : Believes(c, n)

\* A page with the events from block k on, to be projected.
PageFits(job, k) ==
    /\ DOMAIN job.page = {i \in k..job.latest : blocks[i].event # Ix!NoEvent}
    /\ \A i \in DOMAIN job.page : job.page[i] = blocks[i].event

JobFits(job) ==
    /\ job.from \in Nat \ {0}
    /\ job.from = IF Ix!OnChain(saved) THEN saved.number + 1 ELSE 1
    /\ job.pc \in {"resetEvents", "resetIntents"} => ~Ix!OnChain(saved)
    /\ job.pc = "resetIntents" => canonical = {}
    /\ job.pc = "events" => job.from - 1 <= Len(blocks) /\ Reached(job.from - 1)
    /\ job.pc \in {"project", "write"} =>
          /\ job.latest \in job.from..Len(blocks)
          /\ \E k \in job.from..job.latest + 1 : PageFits(job, k) /\ Reached(k - 1)
    /\ job.pc = "write" => /\ DOMAIN job.page # {}
                           /\ job.page[Ix!First(job.page)] \in canonical

\* A claim is funded first, and then claimed or refunded once.
Follows(e, f) == e \in Ix!Events /\ f \in Ix!Events /\ e.claim = f.claim
                    => e.kind = "funded" /\ f.kind # "funded"

ChainFits == /\ blocks \in Seq(Block) /\ forks \in Nat
             /\ \A i \in 1..Len(blocks) : blocks[i].fork <= forks
             /\ \A i, j \in 1..Len(blocks) : i < j => Follows(blocks[i].event, blocks[j].event)

\* A block the chain has lost does not come back: its successor has a newer fork.
CursorFits == /\ saved \in [number : Nat, fork : Nat] /\ saved.fork <= forks
              /\ saved.number > Len(blocks) => saved.fork < forks

Following ==
    /\ ChainFits /\ CursorFits
    /\ canonical \subseteq Ix!Events
    /\ onchain \in [Claims -> Ix!Kinds \cup {"none"}]
    /\ iter \in [Followers -> Job]
    /\ Ix!OnChain(saved) => Reached(saved.number)
    /\ \A x, y \in Followers : Ix!Open(x) /\ Ix!Open(y) => x = y
    /\ \A x \in Followers : Ix!Open(x) => JobFits(iter[x])

ReadInv == torn \/ unseen \/ Following

-----------------------------------------------------------------------------
(* What the chain has told. *)

LEMMA NoEventIsNone == Ix!NoEvent \notin Ix!Events
  BY DEF Ix!NoEvent, Ix!Events, Ix!Kinds

LEMMA UpToTells ==
    ASSUME ChainFits, NEW n \in 0..Len(blocks)
    PROVE  Ix!EventsOf(Ix!UpTo(n)) = Told(n)
  <1>1. /\ blocks \in Seq(Block)
        /\ Len(Ix!UpTo(n)) = n /\ \A i \in 1..n : Ix!UpTo(n)[i] = blocks[i]
        /\ Ix!UpTo(n) \in Seq(Block)
    BY DEF ChainFits, Ix!UpTo
  <1>2. DOMAIN Ix!UpTo(n) = 1..n
    BY <1>1
  <1>3. QED
    BY <1>1, <1>2 DEF Ix!EventsOf, Told

LEMMA ChainTells == ChainFits => Ix!EventsOf(blocks) = Told(Len(blocks))
  <1> SUFFICES ASSUME ChainFits PROVE Ix!EventsOf(blocks) = Told(Len(blocks))
    OBVIOUS
  <1>1. DOMAIN blocks = 1..Len(blocks)
    BY DEF ChainFits
  <1>2. QED
    BY <1>1 DEF Ix!EventsOf, Told

LEMMA TruthSays == \A c, list : Ix!Truth(c, list) = Says(c, Ix!EventsOf(list))
  BY DEF Ix!Truth, Says

LEMMA ToldGrows ==
    ASSUME ChainFits, NEW m \in Nat, NEW n \in Nat, m <= n
    PROVE  Told(m) \subseteq Told(n)
  BY DEF Told

LEMMA BlockEvent ==
    ASSUME ChainFits, NEW i \in 1..Len(blocks), blocks[i].event # Ix!NoEvent
    PROVE  blocks[i].event \in Ix!Events /\ blocks[i].event \in Told(Len(blocks))
  <1>1. blocks[i] \in Block
    BY DEF ChainFits
  <1>2. QED
    BY <1>1 DEF Block, Told

LEMMA ToldOf ==
    ASSUME ChainFits, NEW n \in 0..Len(blocks)
    PROVE  Told(n) \subseteq Ix!Events
  <1>1. \A i \in 1..n : blocks[i] \in Block
    BY DEF ChainFits
  <1>2. QED
    BY <1>1 DEF Block, Told

\* Empty blocks say nothing.
LEMMA ReachedThrough ==
    ASSUME ChainFits, NEW m \in Nat, NEW n \in 0..Len(blocks), m <= n, Reached(m),
           \A i \in m+1..n : blocks[i].event = Ix!NoEvent
    PROVE  Reached(n)
  <1>0. Len(blocks) \in Nat
    BY DEF ChainFits
  <1>1. \A k \in m..n : Told(k) = Told(m)
    BY <1>0 DEF Told
  <1>2. \A c \in Claims : Believes(c, n)
    <2> SUFFICES ASSUME NEW c \in Claims PROVE Believes(c, n)
      OBVIOUS
    <2>1. Believes(c, m)
      BY DEF Reached
    <2>2. PICK k \in m..Len(blocks) : onchain[c] = Says(c, Told(k))
      BY <2>1 DEF Believes
    <2>3. \E j \in n..Len(blocks) : onchain[c] = Says(c, Told(j))
      <3>1. CASE k <= n
        <4>1. Told(k) = Told(n) /\ n \in n..Len(blocks)
          BY <1>0, <1>1, <2>2, <3>1
        <4>2. QED
          BY <4>1, <2>2
      <3>2. CASE ~(k <= n)
        BY <1>0, <2>2, <3>2
      <3>3. QED
        BY <3>1, <3>2
    <2>4. QED
      BY <2>1, <2>3 DEF Believes
  <1>3. Told(n) \subseteq canonical
    BY <1>0, <1>1 DEF Reached
  <1>4. QED
    BY <1>2, <1>3 DEF Reached

\* An open iteration that did not start at a lost cursor has what the cursor
\* says, so an end of it leaves that much.
LEMMA CursorIsOnChain ==
    Following /\ Ix!OnChain(saved) => saved.number \in 0..Len(blocks)
  BY DEF Following, ChainFits, CursorFits, Ix!OnChain

LEMMA FollowingAtFirst == Ix!Init => Following
  <1> SUFFICES ASSUME Ix!Init PROVE Following
    OBVIOUS
  <1>1. blocks = <<>> /\ Len(blocks) = 0 /\ blocks \in Seq(Block)
    BY DEF Ix!Init
  <1>2. ChainFits
    BY <1>1 DEF Ix!Init, ChainFits
  <1>3. CursorFits
    BY <1>1 DEF Ix!Init, CursorFits
  <1>4. Ix!Idle \in Job
    <2>1. <<>> \in [{} -> Ix!Events] /\ {} \in SUBSET Nat
      OBVIOUS
    <2>2. <<>> \in Pages
      BY <2>1 DEF Pages
    <2>3. QED
      BY <2>2 DEF Ix!Idle, Job
  <1>5. iter \in [Followers -> Job] /\ \A x \in Followers : ~Ix!Open(x)
    BY <1>4 DEF Ix!Init, Ix!Open, Ix!Idle
  <1>6. Told(0) = {} /\ \A c : Says(c, {}) = "none"
    BY DEF Told, Says
  <1>7. Reached(0)
    <2>1. \A c \in Claims : onchain[c] = "none" /\ onchain[c] = Says(c, Told(0))
      BY <1>6 DEF Ix!Init
    <2>2. 0 \in 0..Len(blocks)
      BY <1>1
    <2>3. \A c \in Claims : Believes(c, 0)
      BY <2>1, <2>2 DEF Believes
    <2>4. QED
      BY <1>1, <1>6, <2>3 DEF Ix!Init, Reached
  <1>8. QED
    BY <1>2, <1>3, <1>5, <1>7 DEF Following, Ix!Init

-----------------------------------------------------------------------------
(* A step of one indexer. *)

LEMMA OneMoves ==
    ASSUME Following, NEW x \in Followers, NEW new \in Job, Ix!Become(x, new),
           ChainFits', CursorFits', canonical' \subseteq Ix!Events,
           onchain' \in [Claims -> Ix!Kinds \cup {"none"}],
           Ix!OnChain(saved)' => Reached(saved.number)',
           Ix!Open(x)' => JobFits(iter[x])' /\ \A y \in Followers \ {x} : ~Ix!Open(y),
           \A y \in Followers \ {x} : Ix!Open(y) => JobFits(iter[y])'
    PROVE  Following'
  <1>1. iter \in [Followers -> Job]
    BY DEF Following
  <1>2. iter' \in [Followers -> Job] /\ iter'[x] = new
        /\ \A y \in Followers \ {x} : iter'[y] = iter[y]
    BY <1>1 DEF Ix!Become
  <1>3. \A y \in Followers \ {x} : Ix!Open(y)' <=> Ix!Open(y)
    BY <1>2 DEF Ix!Open
  <1>4. \A y, z \in Followers : Ix!Open(y)' /\ Ix!Open(z)' => y = z
    BY <1>3 DEF Following
  <1>5. \A y \in Followers : Ix!Open(y)' => JobFits(iter[y])'
    BY <1>3
  <1>6. QED
    BY <1>2, <1>4, <1>5 DEF Following


LEMMA SameReached ==
    ASSUME UNCHANGED <<blocks, canonical, onchain>>
    PROVE  \A n : Reached(n)' <=> Reached(n)
  <1>1. \A n : Told(n)' = Told(n)
    BY DEF Told
  <1>2. \A c, n : Believes(c, n)' <=> Believes(c, n)
    BY <1>1 DEF Believes
  <1>3. Told(Len(blocks))' = Told(Len(blocks))
    BY DEF Told
  <1>4. QED
    BY <1>1, <1>2, <1>3 DEF Reached

\* A job fits as long as nothing it speaks of changes.
LEMMA StillFits ==
    ASSUME UNCHANGED <<blocks, saved, canonical, onchain>>,
           NEW y \in Followers, NEW job, JobFits(job), iter'[y] = job
    PROVE  JobFits(iter[y])'
  <1>1. \A n : Reached(n)' <=> Reached(n)
    BY SameReached
  <1>2. \A k : PageFits(iter[y], k)' <=> PageFits(job, k)
    BY DEF PageFits
  <1>3. Ix!OnChain(saved)' <=> Ix!OnChain(saved)
    BY DEF Ix!OnChain
  <1>4. QED
    BY <1>1, <1>2, <1>3 DEF JobFits

LEMMA Untouched ==
    ASSUME Following, NEW x \in Followers, NEW new \in Job, Ix!Become(x, new),
           UNCHANGED <<blocks, forks, saved, canonical, onchain>>,
           new.pc \notin {"idle", "check"} =>
              JobFits(new) /\ \A y \in Followers \ {x} : ~Ix!Open(y)
    PROVE  Following'
  <1>1. iter \in [Followers -> Job]
    BY DEF Following
  <1>2. iter'[x] = new /\ \A y \in Followers \ {x} : iter'[y] = iter[y]
    BY <1>1 DEF Ix!Become
  <1>3. ChainFits' /\ CursorFits'
    BY DEF Following, ChainFits, CursorFits
  <1>4. canonical' \subseteq Ix!Events /\ onchain' \in [Claims -> Ix!Kinds \cup {"none"}]
    BY DEF Following
  <1>5. Ix!OnChain(saved)' => Reached(saved.number)'
    <2>1. PICK n : n = saved.number
      OBVIOUS
    <2>2. Reached(n)' <=> Reached(n)
      BY SameReached
    <2>3. saved'.number = n
      BY <2>1
    <2>4. Reached(n)' => Reached(saved.number)'
      BY <2>3
    <2>5. QED
      BY <2>1, <2>2, <2>4 DEF Following, Ix!OnChain
  <1>6. Ix!Open(x)' => JobFits(iter[x])' /\ \A y \in Followers \ {x} : ~Ix!Open(y)
    BY <1>2, StillFits DEF Ix!Open
  <1>7. \A y \in Followers \ {x} : Ix!Open(y) => JobFits(iter[y])'
    <2> SUFFICES ASSUME NEW y \in Followers \ {x}, Ix!Open(y) PROVE JobFits(iter[y])'
      OBVIOUS
    <2>1. PICK job : job = iter[y]
      OBVIOUS
    <2>2. JobFits(job) /\ iter'[y] = job
      BY <1>2, <2>1 DEF Following
    <2>3. QED
      BY <2>2, StillFits
  <1>8. QED
    BY <1>3, <1>4, <1>5, <1>6, <1>7, OneMoves

LEMMA JobIs ==
    ASSUME Following, NEW x \in Followers
    PROVE  /\ iter[x] \in Job
           /\ Ix!Idle \in Job
           /\ \A pc \in {"idle", "check", "resetEvents", "resetIntents", "events",
                         "project", "write"} : [iter[x] EXCEPT !.pc = pc] \in Job
  <1>1. iter[x] \in Job
    BY DEF Following
  <1>2. <<>> \in [{} -> Ix!Events] /\ {} \in SUBSET Nat
    OBVIOUS
  <1>3. <<>> \in Pages
    BY <1>2 DEF Pages
  <1>4. Ix!Idle \in Job
    BY <1>3 DEF Ix!Idle, Job
  <1>5. QED
    BY <1>1, <1>4 DEF Job

LEMMA StepAcquire ==
    ASSUME Following, NEW x \in Followers, Ix!AcquireLease(x)
    PROVE  Following'
  <1>1. PICK new : new = [iter[x] EXCEPT !.pc = "check"]
    OBVIOUS
  <1>2. new \in Job /\ new.pc = "check"
    <2>1. [iter[x] EXCEPT !.pc = "check"] \in Job
      BY JobIs
    <2>2. iter[x] \in Job
      BY JobIs
    <2>3. QED
      BY <1>1, <2>1, <2>2 DEF Job
  <1>3. QED
    BY <1>1, <1>2, Untouched DEF Ix!AcquireLease, Ix!Go, Ix!readModel

LEMMA StepCut ==
    ASSUME Following, NEW x \in Followers, Ix!Cut(x)
    PROVE  Following'
  <1>1. PICK new : new = Ix!Idle
    OBVIOUS
  <1>2. new \in Job /\ new.pc = "idle"
    BY <1>1, JobIs DEF Ix!Idle
  <1>3. QED
    BY <1>1, <1>2, Untouched DEF Ix!Cut, Ix!readModel

LEMMA StepCheck ==
    ASSUME Following, NEW x \in Followers, Ix!CheckCursor(x), ~torn'
    PROVE  Following'
  <1>1. PICK new : new = IF saved.number > Len(blocks) THEN Ix!Idle
                         ELSE IF Ix!OnChain(saved)
                         THEN [Ix!Idle EXCEPT !.pc = "events", !.from = saved.number + 1]
                         ELSE [Ix!Idle EXCEPT !.pc = "resetEvents", !.from = 1]
    OBVIOUS
  <1>2. /\ Ix!Become(x, new) /\ UNCHANGED <<blocks, forks, saved, canonical, onchain>>
        /\ \A y \in Followers \ {x} : ~Ix!Open(y)
    BY <1>1 DEF Ix!CheckCursor, Ix!readModel, Ix!Overlaps
  <1>3. Ix!Idle \in Job /\ saved.number \in Nat
    BY JobIs DEF Following, CursorFits
  <1>4. new \in Job
    <2>0. PICK n \in Nat : n = saved.number + 1
      BY <1>3
    <2>1. /\ [Ix!Idle EXCEPT !.pc = "events", !.from = n] \in Job
          /\ [Ix!Idle EXCEPT !.pc = "resetEvents", !.from = 1] \in Job
      BY <1>3 DEF Job
    <2>2. QED
      BY <1>1, <1>3, <2>0, <2>1
  <1>5. ASSUME new.pc \notin {"idle", "check"} PROVE JobFits(new)
    <2>1. CASE Ix!OnChain(saved) /\ saved.number <= Len(blocks)
      <3>1. new.pc = "events" /\ new.from = saved.number + 1 /\ new.from - 1 = saved.number
        BY <1>1, <1>3, <2>1 DEF Ix!Idle, Following, ChainFits
      <3>2. Reached(new.from - 1)
        BY <2>1, <3>1 DEF Following
      <3>3. QED
        BY <1>3, <2>1, <3>1, <3>2 DEF JobFits
    <2>2. CASE ~Ix!OnChain(saved) /\ ~(saved.number > Len(blocks))
      BY <1>1, <2>2 DEF Ix!Idle, JobFits
    <2>3. QED
      BY <1>1, <1>3, <1>5, <2>1, <2>2 DEF Ix!Idle, Following, ChainFits
  <1>6. QED
    BY <1>2, <1>4, <1>5, Untouched

LEMMA StepRead ==
    ASSUME Following, NEW x \in Followers, Ix!ReadEvents(x)
    PROVE  Following'
  <1> DEFINE heights == {i \in iter[x].from..Len(blocks) : blocks[i].event # Ix!NoEvent}
             page == [i \in heights |-> blocks[i].event]
  <1>1. PICK new : new = IF iter[x].from > Len(blocks) THEN Ix!Idle
                         ELSE [iter[x] EXCEPT !.pc = "project", !.latest = Len(blocks),
                                  !.page = page]
    OBVIOUS
  <1>2. /\ Ix!Become(x, new) /\ UNCHANGED <<blocks, forks, saved, canonical, onchain>>
        /\ iter[x].pc = "events"
    BY <1>1 DEF Ix!ReadEvents, Ix!readModel
  <1>3. Ix!Open(x) /\ JobFits(iter[x]) /\ \A y \in Followers \ {x} : ~Ix!Open(y)
    BY <1>2 DEF Ix!Open, Following
  <1>4. /\ iter[x] \in Job /\ Ix!Idle \in Job /\ Len(blocks) \in Nat /\ ChainFits
        /\ iter[x].from \in Nat \ {0} /\ iter[x].from - 1 <= Len(blocks)
        /\ Reached(iter[x].from - 1)
        /\ iter[x].from = IF Ix!OnChain(saved) THEN saved.number + 1 ELSE 1
    <2>1. iter[x] \in Job /\ Ix!Idle \in Job
      BY JobIs
    <2>2. Len(blocks) \in Nat /\ ChainFits
      BY DEF Following, ChainFits
    <2>3. QED
      BY <1>2, <1>3, <2>1, <2>2 DEF JobFits
  <1>5. page \in Pages
    <2>1. \A i \in heights : blocks[i].event \in Ix!Events
      BY <1>4, BlockEvent
    <2>2. heights \in SUBSET Nat /\ page \in [heights -> Ix!Events]
      BY <1>4, <2>1
    <2>3. QED
      BY <2>2 DEF Pages
  <1>6. CASE iter[x].from > Len(blocks)
    <2>1. new \in Job /\ new.pc = "idle"
      BY <1>1, <1>4, <1>6 DEF Ix!Idle
    <2>2. QED
      BY <1>2, <2>1, Untouched
  <1>7. CASE ~(iter[x].from > Len(blocks))
    <2>1. /\ new.pc = "project" /\ new.latest = Len(blocks) /\ new.page = page
          /\ new.from = iter[x].from /\ new \in Job
      BY <1>1, <1>4, <1>5, <1>7 DEF Job
    <2>2. PageFits(new, new.from)
      BY <2>1 DEF PageFits
    <2>3. /\ new.latest \in new.from..Len(blocks) /\ new.from \in new.from..new.latest + 1
      BY <1>4, <1>7, <2>1
    <2>4. JobFits(new)
      BY <1>4, <2>1, <2>2, <2>3 DEF JobFits
    <2>5. QED
      BY <1>2, <1>3, <2>1, <2>4, Untouched
  <1>8. QED
    BY <1>6, <1>7

LEMMA StepResetEvents ==
    ASSUME Following, NEW x \in Followers, Ix!ResetEvents(x)
    PROVE  Following'
  <1>1. PICK new : new = [iter[x] EXCEPT !.pc = "resetIntents"]
    OBVIOUS
  <1>2. new \in Job
    <2>1. [iter[x] EXCEPT !.pc = "resetIntents"] \in Job
      BY JobIs
    <2>2. QED
      BY <1>1, <2>1
  <1>3. iter[x] \in Job /\ iter[x].pc = "resetEvents" /\ iter \in [Followers -> Job]
    BY DEF Ix!ResetEvents, Following
  <1>4. Ix!Open(x) /\ JobFits(iter[x]) /\ \A y \in Followers \ {x} : ~Ix!Open(y)
    BY <1>3 DEF Ix!Open, Following
  <1>5. /\ Ix!Become(x, new) /\ canonical' = {} /\ iter'[x] = new
        /\ UNCHANGED <<blocks, forks, saved, onchain>>
    BY <1>1, <1>3 DEF Ix!ResetEvents, Ix!Go, Ix!Become
  <1>6. new.pc = "resetIntents" /\ new.from = iter[x].from
    BY <1>1, <1>3 DEF Job
  <1>7. ~Ix!OnChain(saved) /\ ~Ix!OnChain(saved)'
    BY <1>3, <1>4, <1>5 DEF JobFits, Ix!OnChain
  <1>8. JobFits(iter[x])'
    BY <1>4, <1>5, <1>6, <1>7 DEF JobFits
  <1>9. ChainFits' /\ CursorFits' /\ onchain' \in [Claims -> Ix!Kinds \cup {"none"}]
    BY <1>5 DEF Following, ChainFits, CursorFits
  <1>10. QED
    BY <1>2, <1>4, <1>5, <1>7, <1>8, <1>9, OneMoves

LEMMA StepResetIntents ==
    ASSUME Following, NEW x \in Followers, Ix!ResetIntents(x)
    PROVE  Following'
  <1>1. PICK new : new = [iter[x] EXCEPT !.pc = "events"]
    OBVIOUS
  <1>2. new \in Job
    <2>1. [iter[x] EXCEPT !.pc = "events"] \in Job
      BY JobIs
    <2>2. QED
      BY <1>1, <2>1
  <1>3. iter[x] \in Job /\ iter[x].pc = "resetIntents" /\ iter \in [Followers -> Job]
    BY DEF Ix!ResetIntents, Following
  <1>4. Ix!Open(x) /\ JobFits(iter[x]) /\ \A y \in Followers \ {x} : ~Ix!Open(y)
    BY <1>3 DEF Ix!Open, Following
  <1>5. /\ Ix!Become(x, new) /\ onchain' = [c \in Claims |-> "none"] /\ iter'[x] = new
        /\ UNCHANGED <<blocks, forks, saved, canonical>>
    BY <1>1, <1>3 DEF Ix!ResetIntents, Ix!Go, Ix!Become
  <1>6. new.pc = "events" /\ new.from = iter[x].from
    BY <1>1, <1>3 DEF Job
  <1>7. ~Ix!OnChain(saved) /\ ~Ix!OnChain(saved)' /\ canonical = {} /\ new.from = 1
    BY <1>3, <1>4, <1>5, <1>6 DEF JobFits, Ix!OnChain
  <1>8. Reached(0)'
    <2>1. Told(0) = {} /\ Told(0)' = {} /\ \A c : Says(c, {}) = "none"
      BY DEF Told, Says
    <2>2. Len(blocks) \in Nat /\ Len(blocks)' = Len(blocks)
      BY <1>5 DEF Following, ChainFits
    <2>3. \A c \in Claims : onchain'[c] = "none" /\ onchain'[c] = Says(c, Told(0)')
      BY <1>5, <2>1
    <2>4. 0 \in 0..Len(blocks)'
      BY <2>2
    <2>5. \A c \in Claims : Believes(c, 0)'
      BY <2>3, <2>4 DEF Believes
    <2>6. QED
      BY <1>5, <1>7, <2>1, <2>5 DEF Reached
  <1>9. JobFits(iter[x])'
    <2>1. Len(blocks)' \in Nat
      BY <1>5 DEF Following, ChainFits
    <2>2. iter'[x].pc = "events" /\ iter'[x].from = 1
      BY <1>5, <1>6, <1>7
    <2>3. iter'[x].from - 1 = 0
      BY <2>2
    <2>4. Reached(iter[x].from - 1)'
      BY <1>8, <2>3
    <2>5. QED
      BY <1>7, <2>1, <2>2, <2>3, <2>4 DEF JobFits
  <1>10. ChainFits' /\ CursorFits' /\ onchain' \in [Claims -> Ix!Kinds \cup {"none"}]
         /\ canonical' \subseteq Ix!Events
    BY <1>5 DEF Following, ChainFits, CursorFits
  <1>11. QED
    BY <1>2, <1>4, <1>5, <1>7, <1>9, <1>10, OneMoves

\* The page of an open iteration: its first event, and the blocks without one.
LEMMA PageIs ==
    ASSUME Following, NEW job \in Job, JobFits(job), job.pc \in {"project", "write"},
           DOMAIN job.page # {}
    PROVE  /\ Ix!First(job.page) \in job.from..job.latest
           /\ job.latest \in 1..Len(blocks)
           /\ job.page[Ix!First(job.page)] = blocks[Ix!First(job.page)].event
           /\ job.page[Ix!First(job.page)] \in Ix!Events
           /\ Reached(Ix!First(job.page) - 1)
           /\ \A j \in DOMAIN job.page : Ix!First(job.page) <= j
           /\ DOMAIN job.page = {i \in Ix!First(job.page)..job.latest : blocks[i].event # Ix!NoEvent}
  <1>1. PICK k \in job.from..job.latest + 1 : PageFits(job, k) /\ Reached(k - 1)
    BY DEF JobFits
  <1>2. /\ job.latest \in job.from..Len(blocks) /\ job.from \in Nat \ {0}
        /\ Len(blocks) \in Nat /\ ChainFits
    BY DEF JobFits, Following, ChainFits
  <1>3. /\ DOMAIN job.page = {i \in k..job.latest : blocks[i].event # Ix!NoEvent}
        /\ \A i \in DOMAIN job.page : job.page[i] = blocks[i].event
    BY <1>1 DEF PageFits
  <1>4. PICK b : b = Ix!First(job.page)
    OBVIOUS
  <1>5. DOMAIN job.page \in SUBSET Nat
    BY <1>1, <1>2, <1>3
  <1>6. \E i \in DOMAIN job.page : \A j \in DOMAIN job.page : i <= j
    <2>1. PICK S : S = DOMAIN job.page
      OBVIOUS
    <2>2. \E i \in S : \A j \in S : i <= j
      BY <1>5, <2>1, LeastNumber
    <2>3. QED
      BY <2>1, <2>2
  <1>7. b \in DOMAIN job.page /\ \A j \in DOMAIN job.page : b <= j
    BY <1>4, <1>6 DEF Ix!First
  <1>8. b \in k..job.latest /\ b \in 1..Len(blocks) /\ blocks[b].event # Ix!NoEvent
    BY <1>1, <1>2, <1>3, <1>7
  <1>9. job.page[b] = blocks[b].event /\ blocks[b].event \in Ix!Events
    BY <1>2, <1>3, <1>7, <1>8, BlockEvent
  <1>10. \A i \in k..b - 1 : blocks[i].event = Ix!NoEvent
    <2> SUFFICES ASSUME NEW i \in k..b - 1, blocks[i].event # Ix!NoEvent PROVE FALSE
      OBVIOUS
    <2>1. i \in k..job.latest /\ ~(b <= i)
      BY <1>1, <1>2, <1>8
    <2>2. QED
      BY <1>3, <1>7, <2>1
  <1>11. Reached(b - 1)
    <2>1. PICK m : m = k - 1
      OBVIOUS
    <2>2. PICK n : n = b - 1
      OBVIOUS
    <2>3. m \in Nat /\ n \in 0..Len(blocks) /\ m <= n /\ m + 1 = k
      BY <1>1, <1>2, <1>8, <2>1, <2>2
    <2>4. Reached(m) /\ \A i \in m + 1..n : blocks[i].event = Ix!NoEvent
      BY <1>1, <1>10, <2>1, <2>2, <2>3
    <2>5. Reached(n)
      BY <1>2, <2>3, <2>4, ReachedThrough
    <2>6. QED
      BY <2>2, <2>5
  <1>12. DOMAIN job.page = {i \in b..job.latest : blocks[i].event # Ix!NoEvent}
    BY <1>1, <1>2, <1>3, <1>7, <1>8
  <1>13. b \in job.from..job.latest /\ job.latest \in 1..Len(blocks)
    BY <1>1, <1>2, <1>8
  <1>14. QED
    BY <1>4, <1>7, <1>9, <1>11, <1>12, <1>13

LEMMA StepPersist ==
    ASSUME Following, NEW x \in Followers, Ix!PersistEvent(x)
    PROVE  Following'
  <1>1. PICK job : job = iter[x]
    OBVIOUS
  <1>2. PICK e : e = job.page[Ix!First(job.page)]
    OBVIOUS
  <1>3. job \in Job /\ job.pc = "project" /\ DOMAIN job.page # {} /\ iter \in [Followers -> Job]
    BY <1>1 DEF Ix!PersistEvent, Following
  <1>4. Ix!Open(x) /\ JobFits(job) /\ \A y \in Followers \ {x} : ~Ix!Open(y)
    BY <1>1, <1>3 DEF Ix!Open, Following
  <1>5. CASE e \notin Ix!EventsOf(blocks)
    <2>1. PICK new : new = Ix!Idle
      OBVIOUS
    <2>2. Ix!Become(x, new) /\ UNCHANGED <<blocks, forks, saved, canonical, onchain>>
      BY <1>1, <1>2, <1>5, <2>1 DEF Ix!PersistEvent
    <2>3. new \in Job /\ new.pc = "idle"
      BY <2>1, JobIs DEF Ix!Idle
    <2>4. QED
      BY <2>2, <2>3, Untouched
  <1>6. CASE e \in Ix!EventsOf(blocks)
    <2>1. PICK new : new = [job EXCEPT !.pc = "write"]
      OBVIOUS
    <2>2. /\ Ix!Become(x, new) /\ iter'[x] = new /\ canonical' = canonical \cup {e}
          /\ UNCHANGED <<blocks, forks, saved, onchain>>
      BY <1>1, <1>2, <1>3, <1>6, <2>1 DEF Ix!PersistEvent, Ix!Go, Ix!Become
    <2>3. new \in Job
      BY <1>3, <2>1 DEF Job
    <2>4. /\ new.pc = "write" /\ new.from = job.from /\ new.latest = job.latest
          /\ new.page = job.page
      BY <1>3, <2>1 DEF Job
    <2>5. ChainFits /\ e \in Told(Len(blocks)) /\ e \in Ix!Events
      <3>1. ChainFits /\ Len(blocks) \in Nat
        BY DEF Following, ChainFits
      <3>2. e \in Told(Len(blocks))
        BY <1>6, <3>1, ChainTells
      <3>3. e \in Ix!Events
        BY <3>1, <3>2, ToldOf
      <3>4. QED
        BY <3>1, <3>2, <3>3
    <2>6. \A n : Reached(n) => Reached(n)'
      <3>1. \A n : Told(n)' = Told(n)
        BY <2>2 DEF Told
      <3>2. \A c, n : Believes(c, n) => Believes(c, n)'
        BY <2>2, <3>1 DEF Believes
      <3>3. Told(Len(blocks))' = Told(Len(blocks))
        BY <2>2 DEF Told
      <3>4. QED
        BY <2>2, <2>5, <3>1, <3>2, <3>3 DEF Reached
    <2>7. Ix!OnChain(saved)' <=> Ix!OnChain(saved)
      BY <2>2 DEF Ix!OnChain
    <2>8. Ix!OnChain(saved)' => Reached(saved.number)'
      <3>1. PICK n : n = saved.number
        OBVIOUS
      <3>2. Ix!OnChain(saved) => Reached(n)'
        BY <2>6, <3>1 DEF Following
      <3>3. Reached(n)' => Reached(saved.number)'
        BY <2>2, <3>1
      <3>4. QED
        BY <2>7, <3>2, <3>3
    <2>9. JobFits(iter[x])'
      <3>1. PICK k \in job.from..job.latest + 1 : PageFits(job, k) /\ Reached(k - 1)
        BY <1>3, <1>4 DEF JobFits
      <3>2. PageFits(iter[x], k)'
        BY <2>2, <2>4, <3>1 DEF PageFits
      <3>3. Reached(k - 1)'
        BY <2>6, <3>1
      <3>4. e \in canonical' /\ iter'[x].page[Ix!First(iter'[x].page)] = e
        BY <1>2, <2>2, <2>4
      <3>5. QED
        BY <1>3, <1>4, <2>2, <2>4, <2>7, <3>1, <3>2, <3>3, <3>4 DEF JobFits
    <2>10. ChainFits' /\ CursorFits' /\ onchain' \in [Claims -> Ix!Kinds \cup {"none"}]
           /\ canonical' \subseteq Ix!Events
      BY <2>2, <2>5 DEF Following, ChainFits, CursorFits
    <2>11. QED
      BY <1>4, <2>2, <2>3, <2>8, <2>9, <2>10, OneMoves
  <1>7. QED
    BY <1>5, <1>6

\* What the newest event says of its claim is what the chain says.
LEMMA NewestSpeaks ==
    ASSUME ChainFits, NEW b \in 1..Len(blocks), NEW e, e = blocks[b].event, e \in Ix!Events
    PROVE  /\ e.kind = Says(e.claim, Told(b))
           /\ \A c : c # e.claim => Says(c, Told(b)) = Says(c, Told(b - 1))
           /\ Told(b) = Told(b - 1) \cup {e}
  <1>1. Len(blocks) \in Nat /\ b - 1 \in 0..Len(blocks)
    BY DEF ChainFits
  <1>2. Told(b) = Told(b - 1) \cup {e}
    <2>1. 1..b = 1..(b - 1) \cup {b}
      BY <1>1
    <2>2. e # Ix!NoEvent
      BY NoEventIsNone
    <2>3. QED
      BY <2>1, <2>2 DEF Told
  <1>3. /\ e.kind \in Ix!Kinds /\ e.claim \in Claims
        /\ e = [claim |-> e.claim, kind |-> e.kind]
    BY DEF Ix!Events
  <1>4. \A f \in Told(b - 1) : f.claim = e.claim /\ f \in Ix!Events
                                  => f.kind = "funded" /\ e.kind # "funded"
    <2> SUFFICES ASSUME NEW f \in Told(b - 1), f.claim = e.claim, f \in Ix!Events
                 PROVE  f.kind = "funded" /\ e.kind # "funded"
      OBVIOUS
    <2>1. PICK i \in 1..b - 1 : f = blocks[i].event
      BY DEF Told
    <2>2. i \in 1..Len(blocks) /\ i < b
      BY <1>1, <2>1
    <2>3. Follows(f, e)
      BY <2>1, <2>2 DEF ChainFits
    <2>4. QED
      BY <2>3 DEF Follows
  <1>5. \A kind \in Ix!Kinds : [claim |-> e.claim, kind |-> kind] \in Told(b - 1)
                               => kind = "funded" /\ e.kind # "funded"
    <2> SUFFICES ASSUME NEW kind \in Ix!Kinds, [claim |-> e.claim, kind |-> kind] \in Told(b - 1)
                 PROVE  kind = "funded" /\ e.kind # "funded"
      OBVIOUS
    <2>1. PICK f : f = [claim |-> e.claim, kind |-> kind]
      OBVIOUS
    <2>2. f \in Ix!Events /\ f.claim = e.claim /\ f.kind = kind /\ f \in Told(b - 1)
      BY <1>3, <2>1 DEF Ix!Events
    <2>3. QED
      BY <1>4, <2>2
  <1>6. \A kind : [claim |-> e.claim, kind |-> kind] = e => kind = e.kind
    BY <1>3
  <1>7. e.kind = Says(e.claim, Told(b))
    <2>1. [claim |-> e.claim, kind |-> e.kind] \in Told(b)
      BY <1>2, <1>3
    <2>2. \A kind \in Ix!Kinds : [claim |-> e.claim, kind |-> kind] \in Told(b)
             => kind = e.kind \/ (kind = "funded" /\ e.kind # "funded")
      BY <1>2, <1>5, <1>6
    <2>3. CASE e.kind = "claimed"
      BY <2>1, <2>3 DEF Says
    <2>4. CASE e.kind = "refunded"
      <3>1. [claim |-> e.claim, kind |-> "claimed"] \notin Told(b)
        BY <2>2, <2>4 DEF Ix!Kinds
      <3>2. [claim |-> e.claim, kind |-> "refunded"] \in Told(b)
        BY <2>1, <2>4
      <3>3. QED
        BY <2>4, <3>1, <3>2 DEF Says
    <2>5. CASE e.kind = "funded"
      <3>1. /\ [claim |-> e.claim, kind |-> "claimed"] \notin Told(b)
            /\ [claim |-> e.claim, kind |-> "refunded"] \notin Told(b)
        BY <2>2, <2>5 DEF Ix!Kinds
      <3>2. [claim |-> e.claim, kind |-> "funded"] \in Told(b)
        BY <2>1, <2>5
      <3>3. QED
        BY <2>5, <3>1, <3>2 DEF Says
    <2>6. QED
      BY <1>3, <2>3, <2>4, <2>5 DEF Ix!Kinds
  <1>8. \A c : c # e.claim => Says(c, Told(b)) = Says(c, Told(b - 1))
    <2> SUFFICES ASSUME NEW c, c # e.claim PROVE Says(c, Told(b)) = Says(c, Told(b - 1))
      OBVIOUS
    <2>1. \A kind : [claim |-> c, kind |-> kind] # e
      BY <1>3
    <2>2. \A kind : [claim |-> c, kind |-> kind] \in Told(b)
                      <=> [claim |-> c, kind |-> kind] \in Told(b - 1)
      BY <1>2, <2>1
    <2>3. QED
      BY <2>2 DEF Says
  <1>9. QED
    BY <1>2, <1>7, <1>8

LEMMA StepWrite ==
    ASSUME Following, NEW x \in Followers, Ix!WriteIntent(x)
    PROVE  Following'
  <1>1. PICK job : job = iter[x]
    OBVIOUS
  <1>2. PICK b : b = Ix!First(job.page)
    OBVIOUS
  <1>3. PICK e : e = job.page[b]
    OBVIOUS
  <1>4. job \in Job /\ job.pc = "write" /\ iter \in [Followers -> Job]
    BY <1>1 DEF Ix!WriteIntent, Following
  <1>5. Ix!Open(x) /\ JobFits(job) /\ \A y \in Followers \ {x} : ~Ix!Open(y)
    BY <1>1, <1>4 DEF Ix!Open, Following
  <1>6. DOMAIN job.page # {} /\ e \in canonical
    BY <1>2, <1>3, <1>4, <1>5 DEF JobFits
  <1>7. /\ b \in job.from..job.latest /\ job.latest \in 1..Len(blocks)
        /\ e = blocks[b].event /\ e \in Ix!Events /\ Reached(b - 1)
        /\ DOMAIN job.page = {i \in b..job.latest : blocks[i].event # Ix!NoEvent}
    BY <1>2, <1>3, <1>4, <1>5, <1>6, PageIs
  <1>8. PICK new : new = [job EXCEPT !.pc = "project", !.page = Ix!After(job.page)]
    OBVIOUS
  <1>9. /\ Ix!Become(x, new) /\ iter'[x] = new
        /\ onchain' = [onchain EXCEPT ![e.claim] = e.kind]
        /\ UNCHANGED <<blocks, forks, saved, canonical>>
    BY <1>1, <1>2, <1>3, <1>4, <1>8 DEF Ix!WriteIntent, Ix!Become
  <1>10. /\ ChainFits /\ Len(blocks) \in Nat /\ job.from \in Nat \ {0} /\ job.latest \in Nat
         /\ b \in 1..Len(blocks) /\ job.latest \in job.from..Len(blocks)
    <2>1. ChainFits /\ Len(blocks) \in Nat
      BY DEF Following, ChainFits
    <2>2. job.from \in Nat \ {0} /\ job.latest \in job.from..Len(blocks)
      BY <1>4, <1>5 DEF JobFits
    <2>3. QED
      BY <1>7, <2>1, <2>2
  <1>11. Ix!After(job.page) = [i \in DOMAIN job.page \ {b} |-> job.page[i]]
    BY <1>2 DEF Ix!After
  <1>12. Ix!After(job.page) \in Pages
    <2>1. PICK S \in SUBSET Nat : job.page \in [S -> Ix!Events]
      BY <1>4 DEF Job, Pages
    <2>2. S \ {b} \in SUBSET Nat /\ Ix!After(job.page) \in [S \ {b} -> Ix!Events]
      BY <1>11, <2>1
    <2>3. QED
      BY <2>2 DEF Pages
  <1>13. /\ new \in Job /\ new.pc = "project" /\ new.page = Ix!After(job.page)
         /\ new.from = job.from /\ new.latest = job.latest
    BY <1>4, <1>8, <1>12 DEF Job
  <1>14. /\ e.kind = Says(e.claim, Told(b))
         /\ \A c : c # e.claim => Says(c, Told(b)) = Says(c, Told(b - 1))
         /\ Told(b) = Told(b - 1) \cup {e}
    BY <1>7, <1>10, NewestSpeaks
  <1>15. \A n : Told(n)' = Told(n)
    BY <1>9 DEF Told
  <1>16. Reached(b)'
    <2>1. \A c \in Claims : Believes(c, b)'
      <3> SUFFICES ASSUME NEW c \in Claims PROVE Believes(c, b)'
        OBVIOUS
      <3>1. CASE c = e.claim
        <4>1. onchain'[c] = Says(c, Told(b)) /\ onchain'[c] = e.kind
          BY <1>9, <1>14, <3>1 DEF Following
        <4>2. [claim |-> c, kind |-> e.kind] = e
          BY <1>7, <3>1 DEF Ix!Events
        <4>3. b \in b..Len(blocks)'
          BY <1>9, <1>10
        <4>4. QED
          <5>1. \E m \in b..Len(blocks)' : onchain'[c] = Says(c, Told(m)')
            BY <1>15, <4>1, <4>3
          <5>2. [claim |-> c, kind |-> onchain'[c]] \in canonical'
            BY <1>6, <1>9, <4>1, <4>2
          <5>3. QED
            BY <5>1, <5>2 DEF Believes
      <3>2. CASE c # e.claim
        <4>1. onchain'[c] = onchain[c] /\ Believes(c, b - 1)
          BY <1>7, <1>9, <3>2 DEF Following, Reached
        <4>2. PICK m \in b - 1..Len(blocks) : onchain[c] = Says(c, Told(m))
          BY <4>1 DEF Believes
        <4>3. \E n \in b..Len(blocks) : onchain[c] = Says(c, Told(n))
          <5>1. CASE m = b - 1
            <6>1. Says(c, Told(b)) = Says(c, Told(m)) /\ b \in b..Len(blocks)
              <7>1. Says(c, Told(b)) = Says(c, Told(b - 1))
                BY <1>14, <3>2
              <7>2. Says(c, Told(b - 1)) = Says(c, Told(m))
                BY <5>1
              <7>3. QED
                BY <1>10, <7>1, <7>2
            <6>2. QED
              BY <4>2, <6>1
          <5>2. CASE m # b - 1
            BY <1>10, <4>2, <5>2
          <5>3. QED
            BY <5>1, <5>2
        <4>4. QED
          BY <1>9, <1>15, <4>1, <4>3 DEF Believes
      <3>3. QED
        BY <3>1, <3>2
    <2>2. Told(b - 1) \subseteq canonical /\ canonical \subseteq Told(Len(blocks))
      BY <1>7 DEF Reached
    <2>3. Told(b)' \subseteq canonical' /\ canonical' \subseteq Told(Len(blocks))'
      BY <1>6, <1>9, <1>14, <1>15, <2>2 DEF Told
    <2>4. QED
      BY <2>1, <2>3 DEF Reached
  <1>17. Ix!OnChain(saved)' <=> Ix!OnChain(saved)
    BY <1>9 DEF Ix!OnChain
  <1>18. ChainFits' /\ CursorFits' /\ canonical' \subseteq Ix!Events
         /\ onchain' \in [Claims -> Ix!Kinds \cup {"none"}]
    <2>1. e.kind \in Ix!Kinds
      BY <1>7 DEF Ix!Events
    <2>2. QED
      BY <1>9, <2>1 DEF Following, ChainFits, CursorFits
  <1>19. Ix!OnChain(saved)' => Reached(saved.number)'
    <2> SUFFICES ASSUME Ix!OnChain(saved) PROVE Reached(saved.number)'
      BY <1>17
    <2>1. PICK n : n = saved.number
      OBVIOUS
    <2>2. n \in Nat /\ n + 1 = job.from
      BY <1>4, <1>5, <2>1 DEF JobFits, Following, CursorFits
    <2>3. n <= b /\ b \in 0..Len(blocks)'
      BY <1>7, <1>9, <1>10, <2>2
    <2>4. Told(n)' \subseteq Told(b)' /\ \A k \in b..Len(blocks)' : k \in n..Len(blocks)'
      BY <1>9, <1>10, <2>2, <2>3 DEF Told
    <2>5. Reached(n)'
      <3>1. \A c \in Claims : Believes(c, b)' => Believes(c, n)'
        BY <2>4 DEF Believes
      <3>2. QED
        BY <1>16, <2>4, <3>1 DEF Reached
    <2>6. QED
      BY <1>9, <2>1, <2>5
  <1>20. JobFits(iter[x])'
    <2>1. b + 1 \in job.from..job.latest + 1
      BY <1>7, <1>10
    <2>2. DOMAIN new.page = {i \in b + 1..job.latest : blocks[i].event # Ix!NoEvent}
      BY <1>7, <1>10, <1>11, <1>13
    <2>3. \A i \in DOMAIN new.page : new.page[i] = blocks[i].event
      <3>1. \A i \in DOMAIN job.page : job.page[i] = blocks[i].event
        BY <1>4, <1>5 DEF JobFits, PageFits
      <3>2. QED
        BY <1>11, <1>13, <3>1
    <2>4. PageFits(iter[x], b + 1)'
      BY <1>9, <1>13, <2>2, <2>3 DEF PageFits
    <2>5. PICK k : k = b + 1
      OBVIOUS
    <2>6. k - 1 = b /\ k \in job.from..job.latest + 1
      BY <1>10, <2>1, <2>5
    <2>7. Reached(k - 1)' /\ PageFits(iter[x], k)'
      BY <1>16, <2>4, <2>5, <2>6
    <2>8. job.from = IF Ix!OnChain(saved) THEN saved.number + 1 ELSE 1
      BY <1>5 DEF JobFits
    <2>9. /\ iter'[x].pc = "project" /\ iter'[x].from = job.from
          /\ iter'[x].latest = job.latest /\ Len(blocks)' = Len(blocks)
      BY <1>9, <1>13
    <2>10. iter'[x].from = IF Ix!OnChain(saved)' THEN saved'.number + 1 ELSE 1
      BY <1>9, <1>17, <2>8, <2>9
    <2>11. /\ iter'[x].latest \in iter'[x].from..Len(blocks)'
           /\ k \in iter'[x].from..iter'[x].latest + 1
           /\ iter'[x].from \in Nat \ {0}
      BY <1>10, <2>6, <2>9
    <2>12. QED
      BY <2>7, <2>9, <2>10, <2>11 DEF JobFits
  <1>21. QED
    BY <1>5, <1>9, <1>13, <1>18, <1>19, <1>20, OneMoves

LEMMA StepSave ==
    ASSUME Following, NEW x \in Followers, Ix!SaveCursor(x)
    PROVE  Following'
  <1>1. PICK job : job = iter[x]
    OBVIOUS
  <1>2. job \in Job /\ job.pc = "project" /\ DOMAIN job.page = {} /\ iter \in [Followers -> Job]
    BY <1>1 DEF Ix!SaveCursor, Following
  <1>3. Ix!Open(x) /\ JobFits(job) /\ \A y \in Followers \ {x} : ~Ix!Open(y)
    BY <1>1, <1>2 DEF Ix!Open, Following
  <1>4. PICK k \in job.from..job.latest + 1 : PageFits(job, k) /\ Reached(k - 1)
    BY <1>2, <1>3 DEF JobFits
  <1>5. /\ ChainFits /\ Len(blocks) \in Nat /\ job.from \in Nat \ {0}
        /\ job.latest \in job.from..Len(blocks)
    <2>1. ChainFits /\ Len(blocks) \in Nat
      BY DEF Following, ChainFits
    <2>2. QED
      BY <1>2, <1>3, <2>1 DEF JobFits
  <1>6. PICK n : n = job.latest
    OBVIOUS
  <1>7. n \in 1..Len(blocks) /\ ~(n > Len(blocks))
    BY <1>5, <1>6
  <1>8. Reached(n)
    <2>1. PICK m : m = k - 1
      OBVIOUS
    <2>2. m \in Nat /\ m <= n /\ n \in 0..Len(blocks) /\ m + 1 = k
      BY <1>4, <1>5, <1>6, <2>1
    <2>3. \A i \in m + 1..n : blocks[i].event = Ix!NoEvent
      BY <1>2, <1>4, <1>6, <2>2 DEF PageFits
    <2>4. Reached(m)
      BY <1>4, <2>1
    <2>5. QED
      BY <1>5, <2>2, <2>3, <2>4, ReachedThrough
  <1>9. PICK new : new = Ix!Idle
    OBVIOUS
  <1>10. /\ Ix!Become(x, new) /\ saved' = [number |-> n, fork |-> blocks[n].fork]
         /\ UNCHANGED <<blocks, forks, canonical, onchain>>
    BY <1>1, <1>6, <1>7, <1>9 DEF Ix!SaveCursor
  <1>11. new \in Job /\ iter'[x].pc = "idle" /\ ~Ix!Open(x)'
    <2>1. new \in Job /\ new.pc = "idle"
      BY <1>9, JobIs DEF Ix!Idle
    <2>2. iter'[x] = new
      BY <1>2, <1>10 DEF Ix!Become
    <2>3. QED
      BY <2>1, <2>2 DEF Ix!Open
  <1>12. ChainFits' /\ CursorFits'
    <2>1. blocks[n] \in Block /\ blocks[n].fork <= forks
      BY <1>5, <1>7 DEF ChainFits
    <2>2. blocks[n].fork \in Nat
      BY <2>1 DEF Block
    <2>3. QED
      BY <1>5, <1>7, <1>10, <2>1, <2>2 DEF ChainFits, CursorFits
  <1>13. canonical' \subseteq Ix!Events /\ onchain' \in [Claims -> Ix!Kinds \cup {"none"}]
    BY <1>10 DEF Following
  <1>14. Reached(saved.number)'
    <2>1. Reached(n)'
      BY <1>8, <1>10, SameReached
    <2>2. saved'.number = n
      BY <1>10
    <2>3. QED
      BY <2>1, <2>2
  <1>15. QED
    BY <1>3, <1>10, <1>11, <1>12, <1>13, <1>14, OneMoves

-----------------------------------------------------------------------------
(* The world. *)

\* Nothing that Following speaks of changes.
LEMMA NothingMoves ==
    ASSUME Following, UNCHANGED <<blocks, forks, saved, canonical, onchain, iter>>
    PROVE  Following'
  <1>1. ChainFits' /\ CursorFits' /\ iter' \in [Followers -> Job]
    BY DEF Following, ChainFits, CursorFits
  <1>2. canonical' \subseteq Ix!Events /\ onchain' \in [Claims -> Ix!Kinds \cup {"none"}]
    BY DEF Following
  <1>3. Ix!OnChain(saved)' => Reached(saved.number)'
    <2>1. PICK n : n = saved.number
      OBVIOUS
    <2>2. Reached(n)' <=> Reached(n)
      BY SameReached
    <2>3. Reached(n)' => Reached(saved.number)'
      BY <2>1
    <2>4. QED
      BY <2>1, <2>2, <2>3 DEF Following, Ix!OnChain
  <1>4. \A x, y \in Followers : Ix!Open(x)' /\ Ix!Open(y)' => x = y
    BY DEF Following, Ix!Open
  <1>5. \A x \in Followers : Ix!Open(x)' => JobFits(iter[x])'
    <2> SUFFICES ASSUME NEW x \in Followers, Ix!Open(x)' PROVE JobFits(iter[x])'
      OBVIOUS
    <2>1. PICK job : job = iter[x]
      OBVIOUS
    <2>2. JobFits(job) /\ iter'[x] = job
      BY <2>1 DEF Following, Ix!Open
    <2>3. QED
      BY <2>2, StillFits
  <1>6. QED
    BY <1>1, <1>2, <1>3, <1>4, <1>5 DEF Following

LEMMA StepGrow ==
    ASSUME Following, Ix!Grow
    PROVE  Following'
  <1>1. PICK e \in {f \in Ix!Events : Ix!CanHappen(f)} \cup {Ix!NoEvent} :
               blocks' = Append(blocks, [fork |-> forks, event |-> e])
    BY DEF Ix!Grow
  <1>2. UNCHANGED <<forks, saved, canonical, onchain, iter>>
    BY DEF Ix!Grow, Ix!readModel
  <1>3. ChainFits /\ Len(blocks) \in Nat /\ blocks \in Seq(Block) /\ forks \in Nat
    BY DEF Following, ChainFits
  <1>4. PICK n : n = Len(blocks)
    OBVIOUS
  <1>5. [fork |-> forks, event |-> e] \in Block
    BY <1>1, <1>3 DEF Block
  <1>6. /\ blocks' \in Seq(Block) /\ Len(blocks)' = n + 1 /\ n \in Nat
        /\ \A i \in 1..n : blocks'[i] = blocks[i]
        /\ blocks'[n + 1] = [fork |-> forks, event |-> e]
    BY <1>1, <1>3, <1>4, <1>5
  <1>7. \A m \in 0..n : Told(m)' = Told(m)
    <2> SUFFICES ASSUME NEW m \in 0..n PROVE Told(m)' = Told(m)
      OBVIOUS
    <2>1. \A i \in 1..m : blocks'[i] = blocks[i]
      BY <1>6
    <2>2. QED
      BY <2>1 DEF Told
  <1>8. Told(n) \subseteq Told(Len(blocks))'
    BY <1>6 DEF Told
  <1>9. \A i \in 1..n : Follows(blocks[i].event, e)
    <2> SUFFICES ASSUME NEW i \in 1..n, e \in Ix!Events, blocks[i].event \in Ix!Events,
                        blocks[i].event.claim = e.claim
                 PROVE  blocks[i].event.kind = "funded" /\ e.kind # "funded"
      BY DEF Follows
    <2>1. PICK f : f = blocks[i].event
      OBVIOUS
    <2>2. f \in Ix!Events /\ f.claim = e.claim /\ f \in Told(n)
      BY <2>1, NoEventIsNone DEF Told
    <2>3. f.kind \in Ix!Kinds /\ f = [claim |-> e.claim, kind |-> f.kind]
      BY <2>2 DEF Ix!Events
    <2>4. Ix!CanHappen(e) /\ Ix!Truth(e.claim, blocks) = Says(e.claim, Told(n))
      BY <1>1, <1>3, <1>4, NoEventIsNone, TruthSays, ChainTells
    <2>5. IF e.kind = "funded" THEN Says(e.claim, Told(n)) = "none"
                               ELSE Says(e.claim, Told(n)) = "funded"
      BY <2>4 DEF Ix!CanHappen
    <2>6. [claim |-> e.claim, kind |-> f.kind] \in Told(n)
      BY <2>2, <2>3
    <2>7. Says(e.claim, Told(n)) # "none"
      BY <2>3, <2>6 DEF Says, Ix!Kinds
    <2>8. Says(e.claim, Told(n)) = "funded" => f.kind = "funded"
      BY <2>3, <2>6 DEF Says, Ix!Kinds
    <2>9. QED
      BY <2>1, <2>5, <2>7, <2>8
  <1>10. ChainFits'
    <2>1. \A i \in 1..n + 1 : blocks'[i].fork <= forks'
      BY <1>2, <1>3, <1>4, <1>6 DEF ChainFits
    <2>2. \A i, j \in 1..n + 1 : i < j => Follows(blocks'[i].event, blocks'[j].event)
      <3> SUFFICES ASSUME NEW i \in 1..n + 1, NEW j \in 1..n + 1, i < j
                   PROVE  Follows(blocks'[i].event, blocks'[j].event)
        OBVIOUS
      <3>1. i \in 1..n /\ blocks'[i] = blocks[i]
        BY <1>6
      <3>2. CASE j = n + 1
        BY <1>6, <1>9, <3>1, <3>2
      <3>3. CASE j # n + 1
        <4>1. j \in 1..n /\ blocks'[j] = blocks[j]
          BY <1>6, <3>3
        <4>2. QED
          BY <1>4, <3>1, <4>1 DEF Following, ChainFits
      <3>4. QED
        BY <3>2, <3>3
    <2>3. QED
      BY <1>2, <1>3, <1>6, <2>1, <2>2 DEF ChainFits
  <1>11. \A m \in 0..n : Reached(m) => Reached(m)'
    <2> SUFFICES ASSUME NEW m \in 0..n, Reached(m) PROVE Reached(m)'
      OBVIOUS
    <2>1. \A c \in Claims : Believes(c, m)'
      <3> SUFFICES ASSUME NEW c \in Claims PROVE Believes(c, m)'
        OBVIOUS
      <3>1. Believes(c, m)
        BY DEF Reached
      <3>2. PICK k \in m..n : onchain[c] = Says(c, Told(k))
        BY <1>4, <3>1 DEF Believes
      <3>3. k \in m..Len(blocks)' /\ Told(k)' = Told(k)
        BY <1>6, <1>7, <3>2
      <3>4. \E l \in m..Len(blocks)' : onchain'[c] = Says(c, Told(l)')
        BY <1>2, <3>2, <3>3
      <3>5. QED
        BY <1>2, <3>1, <3>4 DEF Believes
    <2>2. Told(m) \subseteq canonical /\ canonical \subseteq Told(n)
      BY <1>4 DEF Reached
    <2>3. Told(m)' \subseteq canonical' /\ canonical' \subseteq Told(Len(blocks))'
      BY <1>2, <1>7, <1>8, <2>2
    <2>4. QED
      BY <2>1, <2>3 DEF Reached
  <1>12. saved.number \in Nat /\ saved.fork \in Nat /\ saved.fork <= forks
         /\ (saved.number > n => saved.fork < forks)
    BY <1>4 DEF Following, CursorFits
  <1>13. Ix!OnChain(saved)' <=> Ix!OnChain(saved)
    <2>1. CASE saved.number = 0
      BY <1>2, <2>1 DEF Ix!OnChain
    <2>2. CASE saved.number \in 1..n
      BY <1>2, <1>4, <1>6, <2>2 DEF Ix!OnChain
    <2>3. CASE saved.number = n + 1
      BY <1>2, <1>3, <1>4, <1>6, <1>12, <2>3 DEF Ix!OnChain
    <2>4. CASE saved.number > n + 1
      BY <1>2, <1>4, <1>6, <1>12, <2>4 DEF Ix!OnChain
    <2>5. QED
      BY <1>6, <1>12, <2>1, <2>2, <2>3, <2>4
  <1>14. CursorFits'
    BY <1>2, <1>6, <1>12 DEF CursorFits, Following
  <1>15. Ix!OnChain(saved)' => Reached(saved.number)'
    <2> SUFFICES ASSUME Ix!OnChain(saved) PROVE Reached(saved.number)'
      BY <1>13
    <2>1. PICK m : m = saved.number
      OBVIOUS
    <2>2. m \in 0..n /\ Reached(m)
      BY <1>4, <1>12, <2>1 DEF Following, Ix!OnChain
    <2>3. Reached(m)'
      BY <1>11, <2>2
    <2>4. QED
      BY <1>2, <2>1, <2>3
  <1>16. \A x \in Followers : Ix!Open(x)' => JobFits(iter[x])'
    <2> SUFFICES ASSUME NEW x \in Followers, Ix!Open(x) PROVE JobFits(iter[x])'
      BY <1>2 DEF Ix!Open
    <2>1. PICK job : job = iter[x]
      OBVIOUS
    <2>2. job \in Job /\ JobFits(job) /\ iter'[x] = job
      BY <1>2, <2>1 DEF Following
    <2>3. job.from \in Nat \ {0} /\ job.from = IF Ix!OnChain(saved)' THEN saved'.number + 1 ELSE 1
      BY <1>2, <1>13, <2>2 DEF JobFits
    <2>4. /\ job.pc \in {"resetEvents", "resetIntents"} => ~Ix!OnChain(saved)'
          /\ job.pc = "resetIntents" => canonical' = {}
          /\ job.pc = "write" => DOMAIN job.page # {} /\ job.page[Ix!First(job.page)] \in canonical'
      BY <1>2, <1>13, <2>2 DEF JobFits
    <2>5. job.pc = "events" => job.from - 1 <= Len(blocks)' /\ Reached(job.from - 1)'
      <3> SUFFICES ASSUME job.pc = "events"
                   PROVE  job.from - 1 <= Len(blocks)' /\ Reached(job.from - 1)'
        OBVIOUS
      <3>1. PICK m : m = job.from - 1
        OBVIOUS
      <3>2. m \in 0..n /\ Reached(m)
        BY <1>4, <1>6, <2>2, <2>3, <3>1 DEF JobFits
      <3>3. Reached(m)' /\ m <= Len(blocks)'
        BY <1>6, <1>11, <3>2
      <3>4. QED
        BY <3>1, <3>3
    <2>6. job.pc \in {"project", "write"} =>
             /\ job.latest \in job.from..Len(blocks)'
             /\ \E k \in job.from..job.latest + 1 : PageFits(job, k)' /\ Reached(k - 1)'
      <3> SUFFICES ASSUME job.pc \in {"project", "write"}
                   PROVE  /\ job.latest \in job.from..Len(blocks)'
                          /\ \E k \in job.from..job.latest + 1 : PageFits(job, k)' /\ Reached(k - 1)'
        OBVIOUS
      <3>1. job.latest \in job.from..n
        BY <1>4, <2>2 DEF JobFits
      <3>2. PICK k \in job.from..job.latest + 1 : PageFits(job, k) /\ Reached(k - 1)
        BY <2>2 DEF JobFits
      <3>3. k - 1 \in 0..n
        BY <1>6, <2>3, <3>1, <3>2
      <3>4. Reached(k - 1)'
        BY <1>11, <3>2, <3>3
      <3>5. \A i \in k..job.latest : blocks'[i] = blocks[i]
        BY <1>6, <2>3, <3>1, <3>2
      <3>6. PageFits(job, k)'
        <4>1. /\ DOMAIN job.page = {i \in k..job.latest : blocks[i].event # Ix!NoEvent}
              /\ \A i \in DOMAIN job.page : job.page[i] = blocks[i].event
          BY <3>2 DEF PageFits
        <4>2. DOMAIN job.page = {i \in k..job.latest : blocks'[i].event # Ix!NoEvent}
          BY <3>5, <4>1
        <4>3. \A i \in DOMAIN job.page : job.page[i] = blocks'[i].event
          BY <3>5, <4>1
        <4>4. QED
          BY <4>2, <4>3 DEF PageFits
      <3>7. job.latest \in job.from..Len(blocks)'
        BY <1>6, <2>3, <3>1
      <3>8. QED
        BY <3>2, <3>4, <3>6, <3>7
    <2>7. JobFits(job)'
      BY <2>3, <2>4, <2>5, <2>6 DEF JobFits
    <2>8. QED
      BY <2>2, <2>7
  <1>17. QED
    BY <1>2, <1>10, <1>14, <1>15, <1>16 DEF Following, Ix!Open

\* What stays on the chain with all that was projected still believes the same.
LEMMA StillBelieves ==
    ASSUME ChainFits, NEW n \in 0..Len(blocks), NEW m \in 0..n, NEW c \in Claims,
           Believes(c, m), canonical \subseteq Told(n), onchain[c] \in Ix!Kinds \cup {"none"}
    PROVE  \E k \in m..n : onchain[c] = Says(c, Told(k))
  <1>1. Len(blocks) \in Nat
    BY DEF ChainFits
  <1>2. PICK k \in m..Len(blocks) : onchain[c] = Says(c, Told(k))
    BY DEF Believes
  <1>3. CASE k <= n
    BY <1>1, <1>2, <1>3
  <1>4. CASE ~(k <= n)
    <2>1. Told(n) \subseteq Told(k)
      BY <1>1, <1>2, <1>4, ToldGrows
    <2>2. onchain[c] = "none" \/ [claim |-> c, kind |-> onchain[c]] \in Told(n)
      BY DEF Believes
    <2>3. Says(c, Told(n)) = Says(c, Told(k))
      BY <1>2, <2>1, <2>2 DEF Says, Ix!Kinds
    <2>4. n \in m..n
      BY <1>1
    <2>5. QED
      BY <1>2, <2>3, <2>4
  <1>5. QED
    BY <1>3, <1>4

LEMMA StepReorg ==
    ASSUME Following, Ix!Reorg, ~unseen'
    PROVE  Following'
  <1>1. PICK n \in 0..Len(blocks) - 1 : blocks' = Ix!UpTo(n) /\ ~Ix!Unnoticed(n)
    BY DEF Ix!Reorg
  <1>2. /\ forks' = forks + 1
        /\ UNCHANGED <<saved, canonical, onchain, iter>>
    BY DEF Ix!Reorg, Ix!readModel
  <1>3. ChainFits /\ Len(blocks) \in Nat /\ blocks \in Seq(Block) /\ forks \in Nat
        /\ n \in 0..Len(blocks)
    BY <1>1 DEF Following, ChainFits
  <1>4. /\ blocks' \in Seq(Block) /\ Len(blocks)' = n
        /\ \A i \in 1..n : blocks'[i] = blocks[i]
    BY <1>1, <1>3 DEF Ix!UpTo
  <1>5. ChainFits'
    <2>1. \A i \in 1..n : blocks'[i].fork <= forks'
      <3> SUFFICES ASSUME NEW i \in 1..n PROVE blocks'[i].fork <= forks'
        OBVIOUS
      <3>1. blocks[i] \in Block /\ blocks[i].fork <= forks
        BY <1>3 DEF ChainFits
      <3>2. blocks[i].fork \in Nat
        BY <3>1 DEF Block
      <3>3. QED
        BY <1>2, <1>3, <1>4, <3>1, <3>2
    <2>2. \A i, j \in 1..n : i < j => Follows(blocks'[i].event, blocks'[j].event)
      BY <1>3, <1>4 DEF ChainFits
    <2>3. QED
      BY <1>2, <1>3, <1>4, <2>1, <2>2 DEF ChainFits
  <1>6. CursorFits'
    BY <1>2, <1>3 DEF CursorFits, Following
  <1>7. Ix!OnChain(saved)' => Ix!OnChain(saved) /\ saved.number \in 0..n
    BY <1>2, <1>3, <1>4 DEF Ix!OnChain, Following, CursorFits
  <1>8. Ix!OnChain(saved)' => Reached(saved.number)'
    <2> SUFFICES ASSUME Ix!OnChain(saved)' PROVE Reached(saved.number)'
      OBVIOUS
    <2>1. PICK m : m = saved.number
      OBVIOUS
    <2>2. m \in 0..n /\ Ix!OnChain(saved) /\ m <= n
      BY <1>3, <1>7, <2>1
    <2>3. Reached(m)
      BY <2>1, <2>2 DEF Following
    <2>4. canonical \subseteq Told(n)
      BY <1>1, <1>3, <2>1, <2>2, UpToTells DEF Ix!Unnoticed
    <2>5. \A k \in 0..n : Told(k)' = Told(k)
      BY <1>4 DEF Told
    <2>6. Told(m)' = Told(m) /\ Told(Len(blocks))' = Told(n)
      <3>1. PICK k : k = Len(blocks)'
        OBVIOUS
      <3>2. k = n /\ Told(Len(blocks))' = Told(k)'
        BY <1>4, <3>1 DEF Told
      <3>3. Told(m)' = Told(m) /\ Told(n)' = Told(n)
        BY <1>3, <2>2, <2>5
      <3>4. QED
        BY <3>2, <3>3
    <2>7. \A c \in Claims : Believes(c, m)'
      <3> SUFFICES ASSUME NEW c \in Claims PROVE Believes(c, m)'
        OBVIOUS
      <3>1. Believes(c, m) /\ onchain[c] \in Ix!Kinds \cup {"none"}
        BY <2>3 DEF Reached, Following
      <3>2. PICK k \in m..n : onchain[c] = Says(c, Told(k))
        BY <1>3, <2>2, <2>4, <3>1, StillBelieves
      <3>3. k \in m..Len(blocks)' /\ Told(k)' = Told(k)
        BY <1>3, <1>4, <2>2, <2>5, <3>2
      <3>4. \E l \in m..Len(blocks)' : onchain'[c] = Says(c, Told(l)')
        BY <1>2, <3>2, <3>3
      <3>5. QED
        BY <1>2, <3>1, <3>4 DEF Believes
    <2>8. Told(m)' \subseteq canonical' /\ canonical' \subseteq Told(Len(blocks))'
      BY <1>2, <2>3, <2>4, <2>6 DEF Reached
    <2>9. Reached(m)'
      BY <2>7, <2>8 DEF Reached
    <2>10. QED
      BY <1>2, <2>1, <2>9
  <1>9. \A x, y \in Followers : Ix!Open(x)' /\ Ix!Open(y)' => x = y
    BY <1>2 DEF Following, Ix!Open
  <1>10. \A x \in Followers : Ix!Open(x)' => JobFits(iter[x])'
    <2> SUFFICES ASSUME NEW x \in Followers, Ix!Open(x) PROVE JobFits(iter[x])'
      BY <1>2 DEF Ix!Open
    <2>1. PICK job : job = iter[x]
      OBVIOUS
    <2>2. job \in Job /\ JobFits(job) /\ iter'[x] = job
      BY <1>2, <2>1 DEF Following
    <2>3. job.pc \in {"resetEvents", "resetIntents"}
      BY <1>1, <2>1, <2>2 DEF Ix!Unnoticed, Ix!Open, Job
    <2>4. ~Ix!OnChain(saved) /\ ~Ix!OnChain(saved)'
      BY <1>7, <2>2, <2>3 DEF JobFits
    <2>5. QED
      BY <1>2, <2>2, <2>3, <2>4 DEF JobFits
  <1>11. QED
    BY <1>2, <1>5, <1>6, <1>8, <1>9, <1>10 DEF Following

-----------------------------------------------------------------------------

LEMMA ReadStep == ReadInv /\ [Ix!Next]_(Ix!vars) => ReadInv'
  <1> SUFFICES ASSUME ReadInv, [Ix!Next]_(Ix!vars), ~torn', ~unseen' PROVE Following'
    BY DEF ReadInv
  <1>1. Following
    <2>1. (torn => torn') \/ Ix!Reorg
      BY DEF Ix!vars, Ix!history, Ix!Next, Ix!AcquireLease, Ix!Step, Ix!CheckCursor, Ix!ResetEvents,
             Ix!ResetIntents, Ix!ReadEvents, Ix!PersistEvent, Ix!WriteIntent, Ix!SaveCursor,
             Ix!Cut, Ix!LeaseRunsOut, Ix!Grow
    <2>2. (unseen => unseen') \/ Ix!Reorg
      BY DEF Ix!vars, Ix!history, Ix!Next, Ix!AcquireLease, Ix!Step, Ix!CheckCursor, Ix!ResetEvents,
             Ix!ResetIntents, Ix!ReadEvents, Ix!PersistEvent, Ix!WriteIntent, Ix!SaveCursor,
             Ix!Cut, Ix!LeaseRunsOut, Ix!Grow
    <2>3. ASSUME Ix!Reorg PROVE (torn => torn') /\ (unseen => unseen')
      <3>1. torn' = torn
        BY <2>3 DEF Ix!Reorg
      <3>2. PICK n : unseen' = (unseen \/ Ix!Unnoticed(n))
        BY <2>3, Zenon DEF Ix!Reorg
      <3>3. unseen => unseen'
        BY <3>2, Zenon
      <3>4. QED
        BY <3>1, <3>3, Zenon
    <2>4. QED
      BY <2>1, <2>2, <2>3 DEF ReadInv
  <1>2. ASSUME NEW x \in Followers, Ix!AcquireLease(x) \/ Ix!Cut(x) PROVE Following'
    BY <1>1, <1>2, StepAcquire, StepCut
  <1>3. ASSUME NEW x \in Followers, Ix!Step(x) PROVE Following'
    BY <1>1, <1>3, StepCheck, StepResetEvents, StepResetIntents, StepRead, StepPersist,
       StepWrite, StepSave DEF Ix!Step
  <1>4. CASE Ix!LeaseRunsOut \/ UNCHANGED Ix!vars
    BY <1>1, <1>4, NothingMoves DEF Ix!LeaseRunsOut, Ix!vars, Ix!readModel
  <1>5. CASE Ix!Grow
    BY <1>1, <1>5, StepGrow
  <1>6. CASE Ix!Reorg
    BY <1>1, <1>6, StepReorg
  <1>7. QED
    BY <1>2, <1>3, <1>4, <1>5, <1>6 DEF Ix!Next

LEMMA ReadInvIsEnough == ReadInv => ReadModelTrue
  <1> SUFFICES ASSUME Following, Ix!OnChain(saved) PROVE Ix!Projection
    BY DEF ReadInv, ReadModelTrue, Ix!ReadModelTrue, Ix!Projection
  <1>1. PICK n : n = saved.number
    OBVIOUS
  <1>2. ChainFits /\ n \in 0..Len(blocks) /\ Reached(n) /\ Len(blocks) \in Nat
    BY <1>1, CursorIsOnChain DEF Following, ChainFits
  <1>3. Ix!EventsOf(Ix!UpTo(n)) \subseteq canonical /\ canonical \subseteq Ix!EventsOf(blocks)
    BY <1>2, UpToTells, ChainTells DEF Reached
  <1>4. \A c \in Claims : onchain[c] \in {Ix!Truth(c, Ix!UpTo(m)) : m \in n..Len(blocks)}
    <2> SUFFICES ASSUME NEW c \in Claims
                 PROVE  \E m \in n..Len(blocks) : onchain[c] = Ix!Truth(c, Ix!UpTo(m))
      OBVIOUS
    <2>1. Believes(c, n)
      BY <1>2 DEF Reached
    <2>2. PICK m \in n..Len(blocks) : onchain[c] = Says(c, Told(m))
      BY <2>1 DEF Believes
    <2>3. m \in 0..Len(blocks)
      BY <1>2, <2>2
    <2>4. Ix!Truth(c, Ix!UpTo(m)) = Says(c, Told(m))
      BY <1>2, <2>3, UpToTells, TruthSays
    <2>5. QED
      BY <2>2, <2>4
  <1>5. QED
    BY <1>1, <1>3, <1>4 DEF Ix!Projection

\* A reorganisation that takes the block of the cursor, or nothing of what is
\* projected, is noticed and mended wherever iterations break off: runIndexerOnce.
\* Nothing is said after two iterations have overlapped (torn), nor after a
\* reorganisation that no look at the cursor tells of (unseen).
THEOREM ReadModelTrueHolds == Ix!Spec => []ReadModelTrue
  <1>1. Ix!Init => ReadInv
    BY FollowingAtFirst DEF ReadInv
  <1>2. QED
    BY <1>1, ReadStep, ReadInvIsEnough, PTL DEF Ix!Spec

-----------------------------------------------------------------------------
(* What is admitted.                                                        *)

\* A process that starts with a worker on mainnet has passed every check that
\* config.ts makes for workers.
LEMMA WorkersAreReady ==
    ASSUME NEW env, NEW m, NEW kept, NEW accounts,
           Boots(env, m, kept, accounts), OnMainnet(m), WorkersRequested(env)
    PROVE  /\ ContractsVerified(m)
           /\ env.rpc.answers = "mainnet" /\ env.fallback.answers = "mainnet"
           /\ SourcesAnswer(env)
           /\ cctpWorkersRequested(env) \/ env.privateAdmitted =>
                 env.runIndexer /\ env.rpc.host # env.fallback.host
           /\ cctpWorkersRequested(env) => env.runRelayer /\ RelayerIsSeparate(env, m)
BY DEF Boots, Checked, WorkersChecked, assertMainnetWorkerReadiness, OnMainnet,
       assertMainnetFallbackRpcNetwork, assertStarknetRpcNetwork, assertMainnetSourceRpcNetworks

\* A mainnet process offers no route without the contracts, the workers and
\* the providers behind it (config.ts, server.ts, routes.ts).
THEOREM RouteHasAllBehindIt ==
    ASSUME NEW env, NEW m, NEW kept, NEW accounts
    PROVE  EnabledIsServed(env, m, kept, accounts)
<1> SUFFICES ASSUME Boots(env, m, kept, accounts), OnMainnet(m),
                    NEW route \in routesForConfig(env, m, kept)
             PROVE  /\ env.runIndexer /\ ContractsVerified(m)
                    /\ env.rpc.answers = "mainnet" /\ env.fallback.answers = "mainnet"
                    /\ env.rpc.host # env.fallback.host
                    /\ route # "starknet-private" => /\ env.runRelayer /\ RelayerIsSeparate(env, m)
                                                     /\ env.sourceRpc[route].answers = route
    BY DEF EnabledIsServed
<1>1. CASE Offered(route, env, m)
  <2>1. env.runIndexer /\ env.runRelayer /\ route \in env.admitted
    BY <1>1 DEF Offered
  <2>2. WorkersRequested(env) /\ cctpWorkersRequested(env)
    BY <2>1 DEF WorkersRequested, cctpWorkersRequested
  <2> QED BY <2>1, <2>2, WorkersAreReady DEF SourcesAnswer
<1>2. CASE route = "starknet-private" /\ starknetEscrowInboxReady(env, m, kept)
  <2>1. env.runIndexer /\ env.privateAdmitted
    BY <1>2 DEF starknetEscrowInboxReady
  <2> QED BY <1>2, <2>1, WorkersAreReady DEF WorkersRequested
<1> QED BY <1>1, <1>2 DEF routesForConfig

\* A mainnet process with a worker offers every admitted route that is not
\* paused (server.ts, routes.ts).
THEOREM AdmittedRoutesAreOffered ==
    ASSUME NEW env, NEW m, NEW kept, NEW accounts
    PROVE  AdmittedIsOffered(env, m, kept, accounts)
<1> SUFFICES ASSUME Boots(env, m, kept, accounts), OnMainnet(m), WorkersRequested(env),
                    m.router.live, NEW route \in env.admitted \ env.paused
             PROVE  route \in routesForConfig(env, m, kept)
    BY DEF AdmittedIsOffered
<1>1. route \in MainnetRoutes
    BY DEF Boots, Checked, loadConfig, Supported, OnMainnet
<1>2. cctpWorkersRequested(env)
    BY DEF cctpWorkersRequested
<1>3. /\ env.runIndexer /\ env.runRelayer /\ ContractsVerified(m) /\ SourcesAnswer(env)
    BY <1>2, WorkersAreReady
<1>4. cctpReady(m)
    BY <1>3 DEF cctpReady, ContractsVerified, cctpPoolsForConfig
<1>5. Offered(route, env, m)
    BY <1>1, <1>3, <1>4 DEF Offered, Supported, OnMainnet, runtimeVerifiedCctpRoutes
<1> QED BY <1>1, <1>5 DEF routesForConfig, MainnetRoutes, CctpRoutes

\* On mainnet the relayer of a started process signs with the account that
\* was given for it, which is not the deployer's (readiness.ts, config.ts).
THEOREM RelayerSignsAsItself ==
    ASSUME NEW env, NEW m, NEW kept, NEW accounts
    PROVE  SignerIsDedicated(env, m, kept, accounts)
<1> SUFFICES ASSUME Boots(env, m, kept, accounts), OnMainnet(m), env.runRelayer
             PROVE  /\ resolveRelayerCredentials(env, m, accounts) = {relayer(env).address}
                    /\ relayer(env).address # deployerAddress(env, m)
    BY DEF SignerIsDedicated
<1>1. RelayerIsSeparate(env, m)
    BY WorkersAreReady DEF WorkersRequested, cctpWorkersRequested
<1>2. /\ Candidates(env, m).first = {relayer(env).address}
      /\ Candidates(env, m).second = {}
    BY <1>1 DEF Candidates, Usable, RelayerIsSeparate
<1>3. resolveRelayerCredentials(env, m, accounts) # {}
    BY DEF Boots, relayerReadiness
<1> QED BY <1>1, <1>2, <1>3 DEF resolveRelayerCredentials, RelayerIsSeparate

\* Evidence for another manifest opens nothing, and keeps a process that is to
\* admit private sends from starting (verifyStarknetPrivateEvidence).
THEOREM EvidenceIsForOneManifest ==
    ASSUME NEW env, NEW m, NEW kept, NEW accounts
    PROVE  EvidenceIsBound(env, m, kept, accounts)
<1> SUFFICES ASSUME OnMainnet(m), ~env.force, \A e \in kept : e.of # ManifestHash(m)
             PROVE  /\ "starknet-private" \notin routesForConfig(env, m, kept)
                    /\ env.privateAdmitted => ~Boots(env, m, kept, accounts)
    BY DEF EvidenceIsBound
<1>1. ~starknetPrivateEvidenceVerified(env, m, kept)
    BY DEF starknetPrivateEvidenceVerified, forceAdmit, verifyStarknetPrivateEvidence
<1>2. ~starknetEscrowInboxReady(env, m, kept)
    BY <1>1 DEF starknetEscrowInboxReady
<1>3. "starknet-private" \notin CctpRoutes
    BY DEF CctpRoutes
<1> QED BY <1>1, <1>2, <1>3 DEF routesForConfig, Boots, Checked, loadConfig

\* With RUN_RELAYER the API and the relayer process start from the same
\* environments (server.ts, relayer.ts).
THEOREM ProcessesAgree ==
    ASSUME NEW env, NEW m, NEW kept, NEW accounts
    PROVE  EntryPointsAgree(env, m, kept, accounts)
BY DEF EntryPointsAgree, Boots, RelayerBoots, IndexerBoots, WorkersRequested

\* No export of the smoke app opens the first gate (phase1-check.ts).
THEOREM SmokeExportsAreLost ==
    ASSUME NEW m, NEW smokes
    PROVE  ExportsAreLost(m, smokes)
<1>1. ASSUME NEW smoke PROVE Materialized(Exported(smoke)).of # ManifestHash(m)
    BY DEF Materialized, Exported, hashManifest, ManifestHash
<1> QED BY <1>1 DEF ExportsAreLost, checkWalletEvidence, WalletEvidence

\* A flow of the smoke test that the gate has found was pressed, on a page with
\* a wallet, and was submitted (main.ts of the smoke app).
LEMMA FoundWasSubmitted ==
    ASSUME NEW m, NEW visit, NEW env, OnMainnet(m),
           checkWalletEvidence(m, {Refiled(m, visit, env)}),
           NEW flow \in {"direct_transfer", "private_fund", "claim_release"}
    PROVE  /\ \E wallet \in visit.wallets : connectReady(wallet)
           /\ \E click \in Pressed(visit, env) : click.flow = flow /\ Submitted(click, env)
<1>1. Refiled(m, visit, env).events = SessionEvents(visit, env)
    BY DEF Refiled, Materialized, Exported
<1>2. flow \in SmokeFlows(m.network) \ {"connect", "balances"}
    BY DEF SmokeFlows
<1>3. PICK event \in SessionEvents(visit, env) : event.status = "ok" /\ event.flow = flow
    BY <1>1, <1>2 DEF checkWalletEvidence, WalletEvidence
<1>4. \A wallet : Connection(wallet).flow = "connect"
    BY DEF Connection
<1>5. PICK click \in Pressed(visit, env) : event = Event(click, env)
    BY <1>3, <1>4 DEF SessionEvents
<1>6. click.flow = flow /\ Submitted(click, env)
    BY <1>3, <1>5 DEF Event, Succeeds
<1> QED BY <1>5, <1>6 DEF Pressed

\* Without an escrow helper no session opens the first gate (setFlowsEnabled).
THEOREM GateNeedsHelper ==
    ASSUME NEW m, NEW visit, NEW env
    PROVE  HelperIsNeeded(m, visit, env)
<1> SUFFICES ASSUME OnMainnet(m), env.helper = "none",
                    checkWalletEvidence(m, {Refiled(m, visit, env)})
             PROVE  FALSE
    BY DEF HelperIsNeeded
<1>1. PICK click \in Pressed(visit, env) : click.flow = "private_fund"
    BY FoundWasSubmitted
<1> QED BY <1>1 DEF Pressed, Pressable, readyManagedFlows

\* A session that opens the gate has asked the escrow for a deposit and a claim
\* through a wallet that has passed the capability check.
THEOREM GateMeansSubmitted ==
    ASSUME NEW m, NEW visit, NEW env
    PROVE  GateSawEscrow(m, visit, env)
<1> SUFFICES ASSUME OnMainnet(m), checkWalletEvidence(m, {Refiled(m, visit, env)})
             PROVE  /\ \E wallet \in visit.wallets : connectReady(wallet)
                    /\ Deposited(visit, env) # {} /\ ClaimedWith(visit, env) # {}
    BY DEF GateSawEscrow
<1>1. \E wallet \in visit.wallets : connectReady(wallet)
    BY FoundWasSubmitted
<1>2. PICK fund \in Pressed(visit, env) : fund.flow = "private_fund" /\ Submitted(fund, env)
    BY FoundWasSubmitted
<1>3. PICK claim \in Pressed(visit, env) : claim.flow = "claim_release" /\ Submitted(claim, env)
    BY FoundWasSubmitted
<1> QED BY <1>1, <1>2, <1>3 DEF Deposited, ClaimedWith

\* The verdict of the Earn gate does not outlive its being written down
\* (vesu-earn-check.ts).
THEOREM EarnVerdictIsForOneManifest ==
    ASSUME NEW m, NEW kept, NEW status, "earn" \in DOMAIN m, "status" \in DOMAIN m.earn
    PROVE  EarnVerdictIsSpent(m, kept, status)
<1> SUFFICES ASSUME status # m.earn.status, \A e \in kept : e.of = ManifestHash(m)
             PROVE  ~EarnGate([m EXCEPT !.earn.status = status], kept)
    BY DEF EarnVerdictIsSpent
<1> DEFINE written == [m EXCEPT !.earn.status = status]
<1>1. written.earn.status = status
    OBVIOUS
<1>2. ManifestHash(written) # ManifestHash(m)
    BY <1>1 DEF ManifestHash
<1> HIDE DEF written
<1>3. ~EarnGate(written, kept)
    BY <1>2 DEF EarnGate
<1> QED BY <1>3 DEF written

\* The local mainnet API offers nothing unless the escape hatch is open
\* (local-mainnet-api-env.ts).
THEOREM LocalApiIsClosed ==
    ASSUME NEW dot, NEW m, NEW kept, DOMAIN dot = EnvNames
    PROVE  ClosedStaysClosed(dot, m, kept)
<1> SUFFICES ASSUME OnMainnet(m), ~dot.force
             PROVE  routesForConfig(localMainnetApiEnv(dot), m, kept) = {}
    BY DEF ClosedStaysClosed
<1> DEFINE env == localMainnetApiEnv(dot)
<1>1. env.admitted = {} /\ env.privateAdmitted = dot.force
    BY DEF localMainnetApiEnv, EnvNames
<1> HIDE DEF env
<1>2. ~starknetEscrowInboxReady(env, m, kept) /\ \A route : ~Offered(route, env, m)
    BY <1>1 DEF starknetEscrowInboxReady, Offered
<1>3. routesForConfig(env, m, kept) = {}
    BY <1>2 DEF routesForConfig
<1> QED BY <1>3 DEF env

\* The hosted mainnet API comes up with everything on offer when its .env is
\* complete, its providers answer and its relayer is deployed and not the
\* deployer (sync-production-env.mjs).
THEOREM HostedApiServes ==
    ASSUME NEW dot, NEW m, NEW kept, NEW accounts, DOMAIN dot = EnvNames
    PROVE  HostedServes(dot, m, kept, accounts)
<1> DEFINE env == mainnetApi(dot)
<1> SUFFICES ASSUME Complete(dot), OnMainnet(m), m.sealed, ContractsVerified(m), m.router.live,
                    env.rpc.answers = "mainnet", env.fallback.answers = "mainnet",
                    env.rpc.host # env.fallback.host,
                    SourcesAnswer(env), RelayerIsSeparate(env, m),
                    <<"mainnet", env.relayer.address>> \in accounts
             PROVE  /\ Boots(env, m, kept, accounts)
                    /\ MainnetRoutes \ dot.paused \subseteq routesForConfig(env, m, kept)
    BY DEF HostedServes
<1>1. /\ env.network = "mainnet" /\ env.force = TRUE /\ env.admitted = MainnetRoutes
      /\ env.runIndexer = TRUE /\ env.runRelayer = TRUE /\ env.privateAdmitted = TRUE
      /\ env.fallback = dot.fallback /\ env.sourceRpc = dot.sourceRpc
      /\ env.paused = dot.paused
    BY DEF mainnetApi, EnvNames
<1>2. /\ env.mainnetRelayer = NoAccount /\ env.deployer = NoAccount /\ env.keystore = "none"
    BY DEF mainnetApi, EnvNames
<1>3. /\ env.fallback # NoUrl
      /\ env.sourceRpc["base"] # NoUrl /\ env.sourceRpc["solana"] # NoUrl
    BY <1>1 DEF Complete
<1> HIDE DEF env
<1>4. loadConfig(env, m, kept)
    BY <1>1, <1>3 DEF loadConfig, OnMainnet, Supported, SourceRpcsGiven, forceAdmit,
                      starknetPrivateEvidenceVerified
<1>5. Checked(env, m, kept)
    BY <1>4 DEF Checked, assertStarknetRpcNetwork, assertMainnetSourceRpcNetworks, OnMainnet
<1>6. WorkersChecked(env, m)
    BY <1>1, <1>3 DEF WorkersChecked, assertMainnetWorkerReadiness, cctpWorkersRequested,
                      runtimeVerifiedCctpRoutes, assertMainnetFallbackRpcNetwork, MainnetRoutes
<1>7. relayer(env).address = env.relayer.address
    BY <1>2 DEF relayer, Or, RelayerIsSeparate, NoAccount
<1>8. Candidates(env, m).first = {env.relayer.address}
    BY <1>7 DEF Candidates, Usable, RelayerIsSeparate
<1>9. relayerReadiness(env, m, accounts)
    BY <1>8 DEF relayerReadiness, resolveRelayerCredentials, OnMainnet
<1>10. Boots(env, m, kept, accounts)
    BY <1>5, <1>6, <1>9 DEF Boots
<1>11. env.admitted \ env.paused \subseteq routesForConfig(env, m, kept)
    BY <1>1, <1>10, AdmittedRoutesAreOffered DEF AdmittedIsOffered, WorkersRequested
<1> QED BY <1>1, <1>10, <1>11
=============================================================================
