------------------------------ MODULE Relayer ------------------------------
(***************************************************************************)
(* The settlement of one CCTP burn on Starknet: the job in relayer_jobs,   *)
(* the workers that take it, the intent's row, and the indexer that walks  *)
(* the same row.  Between two awaits of a worker all the others run.  The  *)
(* lease is left out, as in IntentWorkflow: it lasts 30 seconds, a worker  *)
(* may hold a job much longer (waitForTransaction alone polls for minutes).*)
(*                                                                         *)
(* Circle and the chain are external.  The burn is one that                *)
(* validateSettlement accepts, so to settle it is to fund its claim.       *)
(* Starknet's own clock, expiry and the sweep are in IntentWorkflow.       *)
(***************************************************************************)
EXTENDS IntentStates, FiniteSets

CONSTANTS Workers,      \* relayer processes
          MaxAttempts,  \* 10 in the code
          Exits,        \* bound: how the claim may leave the pool
          MaxFaults,    \* bound: calls that throw, transactions that fail
          MaxCuts       \* bound: workers that die

ASSUME RelayerAssumption == /\ MaxAttempts \in Nat \ {0}
                            /\ Exits \subseteq {"claimed", "refunded"}
                            /\ MaxFaults \in Nat
                            /\ MaxCuts \in Nat

\* Transactions are numbered as they are sent.  NoTx is the null of a
\* destination_tx_hash, Projected the hash of the event the indexer saw.
NoTx == 0
Projected == -1

VARIABLES
    job,        \* relayer_jobs: status, attempts, dest (destination_tx_hash)
    intent,     \* the row: state, version, onchain (onchain_state)
    txs,        \* the settlements the workers have sent
    chain,      \* the events of the claim hash, as in IntentWorkflow
    worker,     \* what every worker is about to do
    indexer,    \* what the indexer is about to do
    cursor,     \* indexer_cursors, counted in events
    faults, cuts

bounds == <<faults, cuts>>
vars == <<job, intent, txs, chain, worker, indexer, cursor, bounds>>

\* settle has gone through: processed_intents holds the intent.
processed == chain # <<>>

\* state, version, dest, attempts: the worker's copy of the job; seen: the
\* onchain_state it started from; fee: out of STRK, or a signer refused.
Free == [pc |-> "idle", state |-> "draft", version |-> 0, dest |-> NoTx,
         attempts |-> 0, seen |-> "none", fee |-> FALSE]

Resting == [pc |-> "next", at |-> 0, state |-> "draft", version |-> 0]

\* The places in processJob between two awaits, in the order of the code.
InJob == {"start", "resume", "walk", "iris", "prepare", "check", "router", "lookup",
          "known", "reread", "send", "save", "submit", "confirm", "clear", "back",
          "retreat", "settled", "deliver", "finish"}

PCs == InJob \cup {"idle", "claim", "release", "fail", "giveUp"}

Hash == {NoTx, Projected} \cup 1..Len(txs)
OnchainStates == {"none", "funded", "claimed", "refunded"}

TypeOK ==
    /\ job \in [status: {"queued", "processing", "succeeded", "failed"},
                attempts: 0..MaxAttempts, dest: Hash]
    /\ intent \in [state: IntentState, version: Nat, onchain: OnchainStates]
    /\ txs \in Seq({"pending", "success", "reverted"})
    /\ chain \in Seq(OnchainStates)
    /\ worker \in [Workers -> [pc: PCs, state: IntentState, version: Nat, dest: Hash,
                               attempts: 0..MaxAttempts, seen: OnchainStates,
                               fee: BOOLEAN]]
    /\ indexer \in [pc: {"next", "apply", "walk"}, at: 0..Len(chain),
                    state: IntentState, version: Nat]
    /\ cursor \in 0..Len(chain)
    /\ faults \in 0..MaxFaults /\ cuts \in 0..MaxCuts

\* markSourceSubmitted has stored the hash of the burn and queued the job.
Init == /\ job = [status |-> "queued", attempts |-> 0, dest |-> NoTx]
        /\ intent = [state |-> "source_submitted", version |-> 2, onchain |-> "none"]
        /\ txs = <<>>
        /\ chain = <<>>
        /\ worker = [w \in Workers |-> Free]
        /\ indexer = Resting
        /\ cursor = 0
        /\ faults = 0
        /\ cuts = 0

-----------------------------------------------------------------------------
(* What the steps of a worker have in common. *)

elsewhere == <<txs, chain, indexer, cursor, bounds>>

\* What will be read again, or never again, is forgotten.
Forgetful == {"resume", "lookup", "known", "reread", "confirm", "settled", "clear",
              "back", "finish", "release"}

Trimmed(copy) ==
    LET over == copy.pc \in {"fail", "release"}
    IN  [copy EXCEPT
            !.state = IF copy.pc \in Forgetful \/ (over /\ ~copy.fee) THEN Free.state ELSE @,
            !.version = IF copy.pc \in Forgetful \/ (over /\ ~copy.fee) THEN 0 ELSE @,
            !.dest = IF over THEN NoTx ELSE @,
            !.seen = IF over THEN "none" ELSE @]

Become(w, new) == worker' = [worker EXCEPT ![w] = Trimmed(new)]
GoTo(w, pc) == Become(w, [worker[w] EXCEPT !.pc = pc])
At(w, pc) == worker[w].pc = pc

\* refreshJobState, then on with what the fresh row asks for.
Refreshed(w) == [worker[w] EXCEPT !.state = intent.state, !.version = intent.version]

\* advance: the worker's copy goes along, or the version conflict is thrown.
Moved(w, to) == [worker[w] EXCEPT !.state = to, !.version = @ + 1]

Advance(w, to, copy) ==
    IF worker[w].version = intent.version
    THEN /\ intent' = [intent EXCEPT !.state = to, !.version = @ + 1]
         /\ Become(w, copy)
    ELSE UNCHANGED intent /\ GoTo(w, "fail")

\* With the hash of a settlement, its confirmation; without, the settlement
\* has been verified and the workflow just catches up.
Submitted(copy) ==
    [copy EXCEPT !.pc = IF copy.dest # NoTx THEN "confirm"
                        ELSE IF copy.state = "funded" THEN "finish"
                        ELSE "walk"]

\* Without a hash an intent past attestation_ready is taken for settled.
Prepared_FallsThrough(copy) ==
    [copy EXCEPT !.pc =
        CASE copy.state \in {"source_submitted", "source_confirmed"} -> "prepare"
          [] copy.state = "attestation_ready" -> IF copy.dest = NoTx THEN "check"
                                                 ELSE "submit"
          [] OTHER -> Submitted(copy).pc]

Prepared(copy) ==
    [copy EXCEPT !.pc =
        CASE copy.state \in {"failed_recoverable", "source_submitted",
                             "source_confirmed"} -> "prepare"
          [] copy.state = "attestation_ready" -> IF copy.dest = NoTx THEN "check"
                                                 ELSE "submit"
          [] OTHER -> IF copy.dest = NoTx THEN "fail" ELSE "confirm"]

-----------------------------------------------------------------------------
(* runRelayerOnce: taking a job and giving it back. *)

\* Only claims that got as far as a hash are returned.
RequeueStale_WithHash == /\ \E w \in Workers : At(w, "idle")
                         /\ job.status = "processing" /\ job.dest # NoTx
                         /\ job' = [job EXCEPT !.status = "queued"]
                         /\ UNCHANGED <<intent, worker, elsewhere>>

\* A worker that comes along returns an old claim to the queue; ten minutes
\* may always have passed since it was made.
RequeueStale == /\ \E w \in Workers : At(w, "idle")
                /\ job.status = "processing"
                /\ job' = [job EXCEPT !.status = "queued"]
                /\ UNCHANGED <<intent, worker, elsewhere>>

List(w) == /\ At(w, "idle")
           /\ job.status = "queued"
           /\ Become(w, [Refreshed(w) EXCEPT !.pc = "claim", !.dest = job.dest,
                                             !.attempts = job.attempts])
           /\ UNCHANGED <<job, intent, elsewhere>>

\* Other jobs of the list come first, so the copy may be old by then.
Claim(w) == /\ At(w, "claim")
            /\ IF job.status = "queued"
               THEN job' = [job EXCEPT !.status = "processing"] /\ GoTo(w, "start")
               ELSE UNCHANGED job /\ Become(w, Free)
            /\ UNCHANGED <<intent, elsewhere>>

\* No attestation, no attempt used up.
Release(w) == /\ At(w, "release")
              /\ IF job.status = "processing"
                 THEN job' = [job EXCEPT !.status = "queued"]
                 ELSE UNCHANGED job
              /\ Become(w, Free)
              /\ UNCHANGED <<intent, elsewhere>>

\* The catch clause: attempts come from the copy, the status is not looked at.
Fail(w) ==
    LET attempts == worker[w].attempts + 1
    IN  /\ At(w, "fail")
        /\ job' = [job EXCEPT !.status = IF attempts >= MaxAttempts \/ worker[w].fee
                                            THEN "failed" ELSE "queued",
                                 !.attempts = attempts]
        /\ IF worker[w].fee /\ TransitionAllowed(worker[w].state, "failed_recoverable")
           THEN GoTo(w, "giveUp")
           ELSE Become(w, Free)
        /\ UNCHANGED <<intent, elsewhere>>

\* A conflict here is only logged.
GiveUp(w) == /\ At(w, "giveUp")
             /\ intent' = IF worker[w].version = intent.version
                          THEN [intent EXCEPT !.state = "failed_recoverable",
                                              !.version = @ + 1]
                          ELSE intent
             /\ Become(w, Free)
             /\ UNCHANGED <<job, elsewhere>>

-----------------------------------------------------------------------------
(* processJob, up to the settlement. *)

ReadProjection(w) ==
    /\ At(w, "start")
    /\ IF intent.onchain = "none"
       THEN GoTo(w, "iris")
       ELSE Become(w, [worker[w] EXCEPT !.pc = "resume", !.seen = intent.onchain])
    /\ UNCHANGED <<job, intent, elsewhere>>

\* The pool has the claim already: catch up and be done.
Resume(w) ==
    /\ At(w, "resume")
    /\ Become(w, [Refreshed(w) EXCEPT !.pc =
          IF /\ worker[w].seen = "funded"
             /\ intent.state \in {"attestation_ready", "destination_submitted",
                                  "failed_recoverable"}
          THEN "walk" ELSE "deliver"])
    /\ UNCHANGED <<job, intent, elsewhere>>

\* A null is an attestation that is not there yet, a rate limit, a poll that
\* is not due, or Iris being down.
Attested(w) == /\ At(w, "iris")
               /\ Become(w, Prepared(worker[w]))
               /\ UNCHANGED <<job, intent, elsewhere>>

NotYet_UsesAttempt(w) == /\ At(w, "iris")
                         /\ GoTo(w, "fail")
                         /\ UNCHANGED <<job, intent, elsewhere>>

NotYet(w) == /\ At(w, "iris")
             /\ GoTo(w, "release")
             /\ UNCHANGED <<job, intent, elsewhere>>

Prepare(w) ==
    /\ At(w, "prepare")
    /\ LET to == IF worker[w].state = "source_submitted" THEN "source_confirmed"
                 ELSE "attestation_ready"
       IN  Advance(w, to, Prepared(Moved(w, to)))
    /\ UNCHANGED <<job, elsewhere>>

\* Two questions before sending: the row, then the router.
CheckRow(w) ==
    /\ At(w, "check")
    /\ Become(w, IF intent.onchain # "none"
                 THEN [worker[w] EXCEPT !.pc = "known", !.dest = Projected]
                 ELSE [worker[w] EXCEPT !.pc = "router"])
    /\ UNCHANGED <<job, intent, elsewhere>>

AskRouter(w) == /\ At(w, "router")
                /\ GoTo(w, IF processed THEN "lookup" ELSE "send")
                /\ UNCHANGED <<job, intent, elsewhere>>

\* The last look of waitForOnchainProjection, which gives up after 9 seconds.
Lookup(w) ==
    /\ At(w, "lookup")
    /\ Become(w, IF intent.onchain # "none"
                 THEN [worker[w] EXCEPT !.pc = "known", !.dest = Projected]
                 ELSE [worker[w] EXCEPT !.pc = "reread"])
    /\ UNCHANGED <<job, intent, elsewhere>>

SaveKnown(w) == /\ At(w, "known")
                /\ job' = [job EXCEPT !.dest = worker[w].dest]
                /\ GoTo(w, "reread")
                /\ UNCHANGED <<intent, elsewhere>>

Reread(w) ==
    /\ At(w, "reread")
    /\ Become(w, IF intent.state \in {"attestation_ready", "failed_recoverable"}
                 THEN [Refreshed(w) EXCEPT !.pc = "submit"]
                 ELSE Submitted(Refreshed(w)))
    /\ UNCHANGED <<job, intent, elsewhere>>

\* The estimate runs the settlement, which reverts when it is spent.
Send(w) == /\ At(w, "send")
           /\ IF processed
              THEN UNCHANGED txs /\ GoTo(w, "fail")
              ELSE /\ txs' = Append(txs, "pending")
                   /\ Become(w, [worker[w] EXCEPT !.pc = "save", !.dest = Len(txs) + 1])
           /\ UNCHANGED <<job, intent, chain, indexer, cursor, bounds>>

\* Too little STRK, or a signature the account refuses.
CannotPay(w) ==
    /\ At(w, "send")
    /\ faults < MaxFaults
    /\ faults' = faults + 1
    /\ Become(w, [worker[w] EXCEPT !.pc = "fail", !.fee = TRUE])
    /\ UNCHANGED <<job, intent, txs, chain, indexer, cursor, cuts>>

SaveHash(w) == /\ At(w, "save")
               /\ job' = [job EXCEPT !.dest = worker[w].dest]
               /\ GoTo(w, "submit")
               /\ UNCHANGED <<intent, elsewhere>>

Submit(w) == /\ At(w, "submit")
             /\ Advance(w, "destination_submitted", Submitted(Moved(w, "destination_submitted")))
             /\ UNCHANGED <<job, elsewhere>>

-----------------------------------------------------------------------------
(* processJob, from the settlement on. *)

\* transitionToward "funded", one edge.
Caught(copy) ==
    [copy EXCEPT !.pc = IF copy.state # "funded" THEN "walk"
                        ELSE IF copy.seen = "none" /\ copy.dest = NoTx THEN "finish"
                        ELSE "deliver"]

Walk(w) == /\ At(w, "walk")
           /\ IF Reachable(worker[w].state, "funded")
              THEN LET to == NextToward(worker[w].state, "funded")
                   IN  Advance(w, to, Caught(Moved(w, to)))
              ELSE UNCHANGED intent /\ GoTo(w, "fail")
           /\ UNCHANGED <<job, elsewhere>>

\* waitForTransaction; a hash from the projection is that of a success.
Outcome(hash) == IF hash = Projected THEN "success" ELSE txs[hash]

Confirm(w) == /\ At(w, "confirm")
              /\ Outcome(worker[w].dest) # "pending"
              /\ GoTo(w, IF Outcome(worker[w].dest) = "success" THEN "settled" ELSE "clear")
              /\ UNCHANGED <<job, intent, elsewhere>>

Clear(w) == /\ At(w, "clear")
            /\ job' = [job EXCEPT !.dest = NoTx]
            /\ Become(w, [worker[w] EXCEPT !.pc = "back", !.dest = NoTx])
            /\ UNCHANGED <<intent, elsewhere>>

Back(w) ==
    /\ At(w, "back")
    /\ Become(w, [Refreshed(w) EXCEPT !.pc =
          IF TransitionAllowed(intent.state, "failed_recoverable") THEN "retreat" ELSE "fail"])
    /\ UNCHANGED <<job, intent, elsewhere>>

Retreat(w) == /\ At(w, "retreat")
              /\ Advance(w, "failed_recoverable",
                         [Moved(w, "failed_recoverable") EXCEPT !.pc = "fail"])
              /\ UNCHANGED <<job, elsewhere>>

Settled(w) ==
    /\ At(w, "settled")
    /\ Become(w, [Refreshed(w) EXCEPT !.pc =
          IF intent.state = "destination_submitted" THEN "walk" ELSE "deliver"])
    /\ UNCHANGED <<job, intent, elsewhere>>

\* deliverRegisteredNoteIfReady; whether a note is stored is left open here.
Deliver(w) == /\ At(w, "deliver")
              /\ \/ UNCHANGED intent /\ GoTo(w, "finish")
                 \/ /\ worker[w].state = "funded"
                    /\ Advance(w, "delivered", [Moved(w, "delivered") EXCEPT !.pc = "finish"])
              /\ UNCHANGED <<job, elsewhere>>

\* Only a job that began with the projection writes a hash here.
Finish(w) ==
    /\ At(w, "finish")
    /\ job' = [job EXCEPT !.status = "succeeded",
                             !.dest = CASE worker[w].seen = "none" -> @
                                        [] worker[w].dest = NoTx -> Projected
                                        [] OTHER -> worker[w].dest]
    /\ Become(w, Free)
    /\ UNCHANGED <<intent, elsewhere>>

\* Any await of processJob can throw: the database, an RPC node, Iris.
Throw(w) == /\ worker[w].pc \in InJob
            /\ faults < MaxFaults
            /\ faults' = faults + 1
            /\ GoTo(w, "fail")
            /\ UNCHANGED <<job, intent, txs, chain, indexer, cursor, cuts>>

WorkerStep(w) ==
    \/ List(w) \/ Claim(w) \/ Release(w) \/ Fail(w) \/ GiveUp(w)
    \/ ReadProjection(w) \/ Resume(w) \/ Attested(w) \/ NotYet(w) \/ Prepare(w)
    \/ CheckRow(w)
    \/ AskRouter(w) \/ Lookup(w) \/ SaveKnown(w) \/ Reread(w) \/ Send(w)
    \/ SaveHash(w) \/ Submit(w) \/ Walk(w) \/ Confirm(w) \/ Clear(w) \/ Back(w)
    \/ Retreat(w) \/ Settled(w) \/ Deliver(w) \/ Finish(w)

\* The process dies; another one is started in its place.
Die(w) == /\ ~At(w, "idle")
          /\ cuts < MaxCuts
          /\ cuts' = cuts + 1
          /\ Become(w, Free)
          /\ UNCHANGED <<job, intent, txs, chain, indexer, cursor, faults>>

-----------------------------------------------------------------------------
(* The indexer, one event of the claim at a time; IntentWorkflow has it in *)
(* full.                                                                   *)

workers == <<job, txs, chain, worker, bounds>>

Target == chain[indexer.at]
Planned == NextToward(indexer.state, Target)

ProjectEvent ==
    /\ indexer.pc = "next" /\ indexer.at < Len(chain)
    /\ intent' = [intent EXCEPT !.onchain = chain[indexer.at + 1]]
    /\ indexer' = [indexer EXCEPT !.pc = "apply", !.at = @ + 1]
    /\ UNCHANGED <<workers, cursor>>

ApplyProjection ==
    /\ indexer.pc = "apply"
    /\ indexer' = IF /\ intent.state \notin Terminal \cup {Target}
                     /\ Reachable(intent.state, Target)
                  THEN [pc |-> "walk", at |-> indexer.at, state |-> intent.state,
                        version |-> intent.version]
                  ELSE [Resting EXCEPT !.at = indexer.at]
    /\ UNCHANGED <<workers, intent, cursor>>

AdvanceTowardEvent ==
    /\ indexer.pc = "walk"
    /\ indexer.version = intent.version
    /\ intent' = [intent EXCEPT !.state = Planned, !.version = @ + 1]
    /\ indexer' = IF Planned = Target THEN [Resting EXCEPT !.at = indexer.at]
                  ELSE [indexer EXCEPT !.state = Planned, !.version = @ + 1]
    /\ UNCHANGED <<workers, cursor>>

\* A version_conflict ends the iteration, and the next one replays from the
\* cursor; an invalid_transition is taken for an event that is over.
LoseToWorker ==
    /\ indexer.pc = "walk"
    /\ indexer.version # intent.version
    /\ \/ indexer' = [Resting EXCEPT !.at = cursor]
       \/ /\ ~TransitionAllowed(intent.state, Planned)
          /\ indexer' = [Resting EXCEPT !.at = indexer.at]
    /\ UNCHANGED <<workers, intent, cursor>>

SaveCursor == /\ indexer.pc = "next" /\ cursor < indexer.at
              /\ cursor' = indexer.at
              /\ UNCHANGED <<workers, intent, indexer>>

IndexerStep == \/ ProjectEvent \/ ApplyProjection \/ AdvanceTowardEvent
               \/ LoseToWorker \/ SaveCursor

-----------------------------------------------------------------------------
(* Circle, the chain, the recipient, and the clock. *)

us == <<intent, worker, indexer, cursor, cuts>>

\* INTENT_USED makes every settlement but the first revert; the first can
\* revert too (out of gas, a paused router).
Mine(tx) ==
    /\ tx \in DOMAIN txs /\ txs[tx] = "pending"
    /\ \/ /\ ~processed
          /\ txs' = [txs EXCEPT ![tx] = "success"]
          /\ chain' = <<"funded">>
          /\ UNCHANGED faults
       \/ /\ processed
          /\ txs' = [txs EXCEPT ![tx] = "reverted"]
          /\ UNCHANGED <<chain, faults>>
       \/ /\ ~processed /\ faults < MaxFaults
          /\ txs' = [txs EXCEPT ![tx] = "reverted"]
          /\ faults' = faults + 1
          /\ UNCHANGED chain
    /\ UNCHANGED <<us, job>>

\* settle is open to everybody who has the attestation.
SelfSettle == /\ ~processed
              /\ chain' = <<"funded">>
              /\ UNCHANGED <<us, job, txs, faults>>

\* The claim is claimed or, once it has expired, refunded.
Exit(event) == /\ Len(chain) = 1
               /\ chain' = Append(chain, event)
               /\ UNCHANGED <<us, job, txs, faults>>

Next == \/ \E w \in Workers : WorkerStep(w) \/ CannotPay(w) \/ Throw(w) \/ Die(w)
        \/ RequeueStale \/ IndexerStep
        \/ SelfSettle
        \/ \E tx \in DOMAIN txs : Mine(tx)
        \/ \E event \in Exits : Exit(event)

Spec == Init /\ [][Next]_vars

\* The loops run for ever and come round to an old claim; Iris is asked again
\* until it answers; transactions are mined.  Nobody else has to do anything.
\* This is of one job: that its turn comes, with other jobs in the queue, is
\* assumed here, and JobQueue says when it does not.
FairSpec == /\ Spec
            /\ \A w \in Workers : WF_vars(WorkerStep(w))
            /\ WF_vars(IndexerStep)
            /\ WF_vars(RequeueStale)
            /\ \A w \in Workers : SF_vars(Attested(w))
            /\ WF_vars(\E tx \in DOMAIN txs : Mine(tx))

\* TLC goes on from states with one mishap at most, a death or a failure.
OneMishap == faults + cuts <= 1

-----------------------------------------------------------------------------
FundedOrLater == {"funded", "delivered", "claimable", "claimed",
                  "expired", "refundable", "refunded"}

\* A worker calls an intent funded, or its job succeeded, only when the burn
\* is settled: not because its own hash is missing, belongs to another try, or
\* was reverted, and not on what another worker did in the meantime.
FundedMeansSettled ==
    intent.state \in FundedOrLater \/ job.status = "succeeded" => processed

\* Every edge a worker takes is allowed, and its copy of the row is never
\* written back over a row that has moved on.
OnlyAllowedEdges ==
    [][IF intent'.state # intent.state
       THEN /\ TransitionAllowed(intent.state, intent'.state)
            /\ intent'.version = intent.version + 1
       ELSE intent'.version = intent.version]_vars

\* A job comes to an end, and it is the good one unless something failed: the
\* claim of a worker that dies comes back to the queue, no settlement is awaited
\* that will not be mined, and neither the conflicts with the indexer, nor the
\* settlements that somebody else was faster to make, nor waiting for Circle
\* use up the attempts (half of the ten are enough).  Older jobs that Iris keeps
\* waiting are not part of it.
JobEnds == <>(job.status = "succeeded" \/ (job.status = "failed" /\ cuts + faults > 0))

\* docs/intent-recovery.md: a claimed event walks the intent to claimed.
ClaimedReachesRow ==
    chain = <<"funded", "claimed">> ~> intent.state = "claimed"
=============================================================================
