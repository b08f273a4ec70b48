--------------------------- MODULE IntentWorkflow ---------------------------
(***************************************************************************)
(* One payment intent on a Starknet route: its row in Postgres, its event  *)
(* log, and everybody who writes them, one statement at a time.  A task is *)
(* a request of the API or an iteration of an indexer; between two of its  *)
(* statements the others run, and at any of them it may be cut off (a      *)
(* crash, a lost connection, an error reply) and not come back.            *)
(*                                                                         *)
(* A transition is a fresh read, the check of the edge, an update guarded  *)
(* by the version, and the insertion of an event.  Whoever changes the     *)
(* state changes the version, so a read that finds the expected version    *)
(* adds nothing to the guard of the update, and the two are one step here. *)
(*                                                                         *)
(* The worker lease is left out: it lasts 30 seconds, is never renewed nor *)
(* given back, and an iteration is not bounded, so another indexer may     *)
(* start at any moment of it.  So is a reorganisation of the chain.        *)
(***************************************************************************)
EXTENDS IntentStates, FiniteSets

CONSTANTS Requests,     \* API requests under way at the same time
          Indexers,     \* indexer processes
          Quotes,       \* {0}, {1} or both: is the quote there from the start
          MaxRequests,  \* bound: requests that get as far as reading the row
          Cuttable,     \* bound: the tasks that may be cut off
          MaxCuts       \* bound: how often one is

ASSUME IntentWorkflowAssumption ==
    /\ Requests \cap Indexers = {}
    /\ Cuttable \subseteq Requests \cup Indexers
    /\ Quotes \subseteq 0..1
    /\ MaxRequests \in Nat
    /\ MaxCuts \in Nat

Tasks == Requests \cup Indexers

VARIABLES
    intent,     \* the row: state, version, hasSourceTx, onchain (onchain_state)
    events,     \* intent_events: what is logged of each version
    note,       \* an encrypted note or a pending claim is stored
    sent,       \* the wallet has broadcast the deposit and knows its hash
    chain,      \* the events the escrow pool has emitted for the claim hash
    expired,    \* the wall clock, the block timestamps are past expires_at
    cursor,     \* indexer_cursors, counted in those events
    task,       \* what every task is about to do
    asked,      \* requests so far
    cuts        \* tasks cut off so far

world == <<sent, chain, expired>>
bounds == <<asked, cuts>>
vars == <<intent, events, note, sent, chain, expired, cursor, task, bounds>>

\* from, version: the state and version a task believes in; to: the state it
\* writes or logs; target: where its walk ends; at, upto: its place in chain.
Idle == [pc |-> "idle", from |-> "draft", to |-> "draft", version |-> 0,
         target |-> "draft", at |-> 0, upto |-> 0]

PCs == {"idle", "walk", "log", "mark", "store", "next", "apply", "sweep"}

Task == [pc: PCs, from: IntentState, to: IntentState, version: Nat,
         target: IntentState, at: Nat, upto: Nat]

TypeOK == /\ intent \in [state: IntentState, version: Nat, hasSourceTx: BOOLEAN,
                         onchain: {"none", "funded", "claimed", "refunded"}]
          /\ DOMAIN events \subseteq 0..intent.version
          /\ \A v \in DOMAIN events : events[v] \in [from: IntentState, to: IntentState]
          /\ note \in BOOLEAN /\ sent \in BOOLEAN
          /\ chain \in Seq({"funded", "claimed", "refunded"})
          /\ expired \in [wall: BOOLEAN, block: BOOLEAN]
          /\ cursor \in 0..Len(chain)
          /\ task \in [Tasks -> Task]
          /\ asked \in 0..MaxRequests
          /\ cuts \in 0..MaxCuts

\* createIntent has inserted the row, then the event; and signQuote may have
\* been through already.
Init == /\ \E quotes \in Quotes :
              /\ intent = [state |-> IF quotes = 0 THEN "draft" ELSE "quoted",
                           version |-> quotes, hasSourceTx |-> FALSE, onchain |-> "none"]
              /\ events = [v \in 0..quotes |->
                    [from |-> "draft", to |-> IF v = 0 THEN "draft" ELSE "quoted"]]
        /\ note = FALSE
        /\ sent = FALSE
        /\ chain = <<>>
        /\ expired = [wall |-> FALSE, block |-> FALSE]
        /\ cursor = 0
        /\ task = [t \in Tasks |-> Idle]
        /\ asked = 0
        /\ cuts = 0

-----------------------------------------------------------------------------
(* transition and transitionToward, for every task. *)

Become(t, new) == task' = [task EXCEPT ![t] = new]

\* What the indexer does when a walk, or an event without one, is over.
Onward(t) == [Idle EXCEPT !.pc = "next", !.at = task[t].at, !.upto = task[t].upto]

\* A walk of the indexer towards an event; its other walk is the sweep's.
Projecting(t) == t \in Indexers /\ task[t].target # "refundable"

Planned(t) == NextToward(task[t].from, task[t].target)

StartWalk(t, target) ==
    Become(t, [task[t] EXCEPT !.pc = "walk", !.from = intent.state,
                              !.version = intent.version, !.target = target])

\* The update without .eq("version", expectedVersion).
Advance_Unguarded(t) ==
    /\ task[t].pc = "walk"
    /\ intent' = [intent EXCEPT !.state = Planned(t), !.version = task[t].version + 1]
    /\ Become(t, [task[t] EXCEPT !.pc = "log", !.to = Planned(t),
                                 !.version = task[t].version + 1])
    /\ UNCHANGED <<events, note, world, cursor, bounds>>

Advance(t) ==
    /\ task[t].pc = "walk"
    /\ task[t].version = intent.version
    /\ intent' = [intent EXCEPT !.state = Planned(t), !.version = task[t].version + 1]
    /\ Become(t, [task[t] EXCEPT !.pc = "log", !.to = Planned(t),
                                 !.version = task[t].version + 1])
    /\ UNCHANGED <<events, note, world, cursor, bounds>>

\* Somebody else was faster.  Mostly that is a version_conflict, which ends
\* the task; but the edge is checked first, on the fresh row, and the indexer
\* takes an invalid_transition for an event it need not project.
Lose(t) ==
    /\ task[t].pc = "walk"
    /\ task[t].version # intent.version
    /\ \/ Become(t, Idle)
       \/ /\ Projecting(t)
          /\ ~TransitionAllowed(intent.state, Planned(t))
          /\ Become(t, Onward(t))
    /\ UNCHANGED <<intent, events, note, world, cursor, bounds>>

\* The event says what the row has become by the time it is written.
LogEvent_RowAsItIs(t) ==
    LET e == task[t]
    IN  /\ e.pc = "log"
        /\ IF e.version \in DOMAIN events
           THEN UNCHANGED events /\ Become(t, Idle)
           ELSE /\ events' = [v \in DOMAIN events \cup {e.version} |->
                                IF v = e.version THEN [from |-> e.from, to |-> intent.state]
                                ELSE events[v]]
                /\ Become(t, IF e.to # e.target THEN [e EXCEPT !.pc = "walk", !.from = e.to]
                             ELSE IF Projecting(t) THEN Onward(t)
                             ELSE Idle)
        /\ UNCHANGED <<intent, note, world, cursor, bounds>>

\* intent_events is unique in (intent_id, version): a second event for a
\* version is an error, which ends the task.
LogEvent(t) ==
    LET e == task[t]
    IN  /\ e.pc = "log"
        /\ IF e.version \in DOMAIN events
           THEN UNCHANGED events /\ Become(t, Idle)
           ELSE /\ events' = [v \in DOMAIN events \cup {e.version} |->
                                IF v = e.version THEN [from |-> e.from, to |-> e.to]
                                ELSE events[v]]
                /\ Become(t, IF e.to # e.target THEN [e EXCEPT !.pc = "walk", !.from = e.to]
                             ELSE IF Projecting(t) THEN Onward(t)
                             ELSE Idle)
        /\ UNCHANGED <<intent, note, world, cursor, bounds>>

-----------------------------------------------------------------------------
(* The requests.  One that is refused changes nothing and is left out. *)

Arrive(r) == /\ task[r] = Idle
             /\ asked < MaxRequests
             /\ asked' = asked + 1

\* signQuote: the update is guarded by the state and the version.
Quote(r) ==
    /\ Arrive(r)
    /\ intent.state = "draft" /\ intent.version = 0
    /\ intent' = [intent EXCEPT !.state = "quoted", !.version = 1]
    /\ Become(r, [Idle EXCEPT !.pc = "log", !.to = "quoted", !.version = 1,
                              !.target = "quoted"])
    /\ UNCHANGED <<events, note, world, cursor, cuts>>

Cancel(r) ==
    /\ Arrive(r)
    /\ ~intent.hasSourceTx
    /\ intent.state \in {"draft", "quoted"}
    /\ StartWalk(r, "failed_terminal")
    /\ UNCHANGED <<intent, events, note, world, cursor, cuts>>

\* markSourceSubmitted: the read.  When the indexer was here first, only the
\* hash is written.
ReadForSource(r) ==
    LET projected == intent.onchain # "none"
    IN  /\ Arrive(r)
        /\ sent
        /\ ~intent.hasSourceTx
        /\ projected \/ intent.state = "quoted"
        /\ Become(r, [Idle EXCEPT !.pc = "mark", !.version = intent.version,
                                  !.from = intent.state,
                                  !.to = IF projected THEN intent.state
                                         ELSE "source_submitted"])
        /\ UNCHANGED <<intent, events, note, world, cursor, cuts>>

SourceMarked(m) == [intent EXCEPT !.hasSourceTx = TRUE,
                                  !.state = m.to,
                                  !.version = IF m.to = m.from THEN @ ELSE m.version + 1]

\* markSourceSubmitted: the update.
MarkSource(r) ==
    /\ task[r].pc = "mark"
    /\ IF intent.version = task[r].version /\ ~intent.hasSourceTx
       THEN /\ intent' = SourceMarked(task[r])
            /\ Become(r, [task[r] EXCEPT !.pc = "log", !.target = task[r].to,
                                         !.version = intent'.version])
       ELSE UNCHANGED intent /\ Become(r, Idle)
    /\ UNCHANGED <<events, note, world, cursor, bounds>>

\* The delivery route: the read, then storeDelivery, then what was read decides.
ReadForDelivery(r) ==
    /\ Arrive(r)
    /\ ~expired.wall
    /\ Become(r, [Idle EXCEPT !.pc = "store", !.from = intent.state,
                              !.version = intent.version])
    /\ UNCHANGED <<intent, events, note, world, cursor, cuts>>

StoreNote(r) ==
    /\ task[r].pc = "store"
    /\ note' = TRUE
    /\ Become(r, IF task[r].from = "funded"
                 THEN [task[r] EXCEPT !.pc = "walk", !.target = "delivered"]
                 ELSE Idle)
    /\ UNCHANGED <<intent, events, world, cursor, bounds>>

\* Takes the client's word for it.
RefundObserved_Trusting(r) ==
    /\ Arrive(r)
    /\ intent.state # "refunded" /\ Reachable(intent.state, "refunded")
    /\ StartWalk(r, "refunded")
    /\ UNCHANGED <<intent, events, note, world, cursor, cuts>>

RefundObserved(r) ==
    /\ Arrive(r)
    /\ intent.onchain = "refunded"
    /\ intent.state # "refunded" /\ Reachable(intent.state, "refunded")
    /\ StartWalk(r, "refunded")
    /\ UNCHANGED <<intent, events, note, world, cursor, cuts>>

NewRequest(r) == \/ Quote(r) \/ Cancel(r) \/ ReadForSource(r)
                 \/ ReadForDelivery(r) \/ RefundObserved(r)

Continue(r) == MarkSource(r) \/ StoreNote(r) \/ Advance(r) \/ Lose(r) \/ LogEvent(r)

-----------------------------------------------------------------------------
(* An iteration of an indexer.  There is always a newer block than the     *)
(* cursor's, so it always gets to its sweep; most blocks hold no event.    *)

\* The cursor saved for the blocks still to be read.
StartIteration_CursorFirst(x) ==
    /\ task[x] = Idle
    /\ Become(x, [Idle EXCEPT !.pc = "next", !.at = cursor, !.upto = Len(chain)])
    /\ cursor' = Len(chain)
    /\ UNCHANGED <<intent, events, note, world, bounds>>

StartIteration(x) ==
    /\ task[x] = Idle
    /\ Become(x, [Idle EXCEPT !.pc = "next", !.at = cursor, !.upto = Len(chain)])
    /\ UNCHANGED <<intent, events, note, world, cursor, bounds>>

\* persistProjection up to applyOnchainProjection: the column is written with
\* no regard for the state, the version, or what is in it.
ProjectEvent(x) ==
    LET i == task[x].at + 1
    IN  /\ task[x].pc = "next" /\ i <= task[x].upto
        /\ intent' = [intent EXCEPT !.onchain = chain[i]]
        /\ Become(x, [task[x] EXCEPT !.pc = "apply", !.at = i, !.target = chain[i]])
        /\ UNCHANGED <<events, note, world, cursor, bounds>>

ApplyProjection(x) ==
    /\ task[x].pc = "apply"
    /\ IF /\ intent.state \notin Terminal \cup {task[x].target}
          /\ Reachable(intent.state, task[x].target)
       THEN StartWalk(x, task[x].target)
       ELSE Become(x, Onward(x))
    /\ UNCHANGED <<intent, events, note, world, cursor, bounds>>

SaveCursor(x) ==
    /\ task[x].pc = "next" /\ task[x].at = task[x].upto
    /\ cursor' = task[x].upto
    /\ Become(x, [Idle EXCEPT !.pc = "sweep"])
    /\ UNCHANGED <<intent, events, note, world, bounds>>

Sweepable == {"source_submitted", "source_confirmed", "attestation_ready",
              "destination_submitted", "funded", "delivered", "claimable",
              "failed_recoverable"}

\* sweepExpiredFunded: the select; what it throws afterwards is ignored.
Sweep(x) ==
    /\ task[x].pc = "sweep"
    /\ IF intent.onchain = "funded" /\ expired.wall /\ intent.state \in Sweepable
       THEN StartWalk(x, "refundable")
       ELSE Become(x, Idle)
    /\ UNCHANGED <<intent, events, note, world, cursor, bounds>>

IndexerStep(x) == \/ StartIteration(x) \/ ProjectEvent(x) \/ ApplyProjection(x)
                  \/ SaveCursor(x) \/ Sweep(x)
                  \/ Advance(x) \/ Lose(x) \/ LogEvent(x)

-----------------------------------------------------------------------------
(* The world: the wallet, the chain, time, and failures. *)

outside == <<intent, events, note, cursor>>

\* The client has its quote when signQuote returns.
Broadcast == /\ ~sent
             /\ 1 \in DOMAIN events /\ events[1].to = "quoted"
             /\ sent' = TRUE
             /\ UNCHANGED <<outside, chain, expired, task, bounds>>

Emit(event) == /\ chain' = Append(chain, event)
               /\ UNCHANGED <<outside, sent, expired, task, bounds>>

\* What EscrowPool lets happen to one claim hash.
Deposit == sent /\ chain = <<>> /\ ~expired.block /\ Emit("funded")
ClaimNote == Len(chain) = 1 /\ ~expired.block /\ Emit("claimed")
RefundPublic == Len(chain) = 1 /\ expired.block /\ Emit("refunded")

\* Block timestamps are near the wall clock, on either side of it.
Expire(clock) == /\ ~expired[clock]
                 /\ expired' = [expired EXCEPT ![clock] = TRUE]
                 /\ UNCHANGED <<outside, sent, chain, task, bounds>>

CutOff(t) == /\ t \in Cuttable
             /\ task[t] # Idle
             /\ cuts < MaxCuts
             /\ cuts' = cuts + 1
             /\ Become(t, Idle)
             /\ UNCHANGED <<outside, world, asked>>

Next == \/ \E r \in Requests : NewRequest(r) \/ Continue(r)
        \/ \E x \in Indexers : IndexerStep(x)
        \/ \E t \in Tasks : CutOff(t)
        \/ Broadcast \/ Deposit \/ ClaimNote \/ RefundPublic
        \/ \E clock \in {"wall", "block"} : Expire(clock)

Spec == Init /\ [][Next]_vars

\* runIndexerLoop starts another iteration after every one, failed or not; a
\* request that is under way goes on.  Nobody is obliged to make one.
FairSpec == /\ Spec
            /\ \A x \in Indexers : WF_vars(IndexerStep(x))
            /\ \A r \in Requests : WF_vars(Continue(r))

-----------------------------------------------------------------------------
\* Whatever the tasks do to each other, the state moves along one allowed
\* edge at a time and every move has a version of its own: no update is ever
\* made on the strength of a row that has changed since.
OnlyAllowedEdges ==
    [][IF intent'.state # intent.state
       THEN /\ TransitionAllowed(intent.state, intent'.state)
            /\ intent'.version = intent.version + 1
       ELSE intent'.version = intent.version]_vars

\* The workflow never runs ahead of the chain: an intent is called funded,
\* claimed or refunded only when the pool has said so, and refundable only
\* past its expiry, on the detours through failed_recoverable as well.
FundedOrLater == {"funded", "delivered", "claimable", "claimed",
                  "expired", "refundable", "refunded"}

NeverAheadOfChain ==
    /\ intent.state \in FundedOrLater => chain # <<>>
    /\ intent.state \in {"claimed", "refunded"} =>
          Len(chain) = 2 /\ chain[2] = intent.state
    /\ intent.state \in {"expired", "refundable"} => expired.wall \/ expired.block

\* intent_events is a history with holes: it tells of the last version what
\* the state is, and of every edge it tells that it exists and that it began
\* where the event before left off.  A request that only records the hash
\* logs no edge, and may have taken the place of the event of its version.
LogIsHistory ==
    /\ intent.version \in DOMAIN events => events[intent.version].to = intent.state
    /\ \A v \in DOMAIN events :
          LET e == events[v]
          IN  e.from # e.to => /\ TransitionAllowed(e.from, e.to)
                               /\ v - 1 \in DOMAIN events => e.from = events[v - 1].to

\* With one indexer, what the pool says reaches the row, wherever iterations
\* are cut off and whatever requests do in between, unless the intent was
\* cancelled: the cursor never gets ahead of what has been projected.
CatchesUp ==
    /\ chain # <<>> ~> intent.state \in FundedOrLater \cup {"failed_terminal"}
    /\ chain = <<"funded", "claimed">> ~> intent.state \in {"claimed", "failed_terminal"}
    /\ chain = <<"funded", "refunded">> ~> intent.state \in {"refunded", "failed_terminal"}
=============================================================================
