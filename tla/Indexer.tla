-------------------------------- MODULE Indexer --------------------------------
(***************************************************************************)
(* The indexer and the chain it follows.  An iteration looks whether the   *)
(* block of its cursor is still there, asks for the events of the blocks   *)
(* after it, projects them one by one into chain_events and intents, and   *)
(* saves the last block as the new cursor.  When the block is gone, the    *)
(* whole read model is reset and replayed from the first block.            *)
(*                                                                         *)
(* The node may change its mind about the last blocks at any moment, an    *)
(* iteration may break off at any statement, and the lease that keeps a    *)
(* second one away lasts 30 seconds and is never renewed.  What the        *)
(* iteration does to the workflow is in IntentWorkflow.                    *)
(***************************************************************************)
EXTENDS Integers, Sequences

CONSTANTS Indexers,    \* processes that run the loop
          Claims,      \* claim hashes
          MaxHeight,   \* bound: blocks of the chain
          MaxReorgs,   \* bound: how often the chain loses its last blocks
          MaxCuts      \* bound: how often an iteration breaks off

IndexerAssumption == MaxHeight \in Nat /\ MaxReorgs \in Nat /\ MaxCuts \in Nat

VARIABLES
    chain,      \* blocks: the fork that tells two of one height apart, and an event
    forks,      \* reorganisations so far
    lease,      \* the lease is held and has not run out
    cursor,     \* indexer_cursors: number and fork of a block; number 0 if none
    canonical,  \* chain_events that are canonical
    onchain,    \* intents.onchain_state
    iter,       \* what each indexer is doing
    cuts,
    torn,       \* history: did two iterations overlap?
    unseen      \* history: was there a reorganisation that no look will notice?

readModel == <<cursor, canonical, onchain>>
history == <<torn, unseen>>
vars == <<chain, forks, lease, readModel, iter, cuts, history>>

Kinds == {"funded", "claimed", "refunded"}
Events == [claim: Claims, kind: Kinds]
NoEvent == [kind |-> "none"]

EventsOf(blocks) == {blocks[i].event : i \in DOMAIN blocks} \ {NoEvent}

\* What the escrow pool says of a claim at the end of these blocks.
Truth(c, blocks) ==
    LET of(kind) == [claim |-> c, kind |-> kind] \in EventsOf(blocks)
    IN  IF of("claimed") THEN "claimed"
        ELSE IF of("refunded") THEN "refunded"
        ELSE IF of("funded") THEN "funded" ELSE "none"

UpTo(n) == SubSeq(chain, 1, n)

OnChain(c) == c.number = 0 \/ (c.number <= Len(chain) /\ chain[c.number].fork = c.fork)

Idle == [pc |-> "idle", from |-> 0, latest |-> 0, page |-> <<>>]

TypeOK ==
    /\ \A i \in DOMAIN chain : chain[i].fork \in 0..forks
                               /\ chain[i].event \in Events \cup {NoEvent}
    /\ forks \in 0..MaxReorgs /\ cuts \in 0..MaxCuts
    /\ lease \in BOOLEAN /\ torn \in BOOLEAN /\ unseen \in BOOLEAN
    /\ cursor \in [number: 0..MaxHeight, fork: 0..MaxReorgs]
    /\ canonical \subseteq Events
    /\ onchain \in [Claims -> Kinds \cup {"none"}]
    /\ \A x \in Indexers :
          /\ iter[x].pc \in {"idle", "check", "resetEvents", "resetIntents",
                             "events", "project", "write"}
          /\ iter[x].from \in 0..MaxHeight + 1 /\ iter[x].latest \in 0..MaxHeight
          /\ \E S \in SUBSET (1..MaxHeight) : iter[x].page \in [S -> Events]

Init ==
    /\ chain = <<>> /\ forks = 0
    /\ lease = FALSE
    /\ cursor = [number |-> 0, fork |-> 0]
    /\ canonical = {}
    /\ onchain = [c \in Claims |-> "none"]
    /\ iter = [x \in Indexers |-> Idle]
    /\ cuts = 0
    /\ torn = FALSE /\ unseen = FALSE

-----------------------------------------------------------------------------
(* An iteration: runIndexerOnce. *)

Become(x, new) == iter' = [iter EXCEPT ![x] = new]
Go(x, pc) == Become(x, [iter[x] EXCEPT !.pc = pc])

\* Past the look at the cursor, and not at the end.
Open(x) == iter[x].pc \notin {"idle", "check"}

\* A second iteration past that look: the slower one writes its older events,
\* and its older cursor, over the newer ones.
Overlaps(x) == \E y \in Indexers \ {x} : Open(y)

\* The holder is a fresh name, so a process waits for its own lease, too.
AcquireLease(x) ==
    /\ iter[x].pc = "idle"
    /\ ~lease
    /\ lease' = TRUE
    /\ Go(x, "check")
    /\ UNCHANGED <<chain, forks, readModel, cuts, history>>

LeaseRunsOut == /\ lease
                /\ lease' = FALSE
                /\ UNCHANGED <<chain, forks, readModel, iter, cuts, history>>

\* A chain that is shorter than the cursor has no such block: the node's error
\* ends the iteration.
CheckCursor(x) ==
    /\ iter[x].pc = "check"
    /\ Become(x, IF cursor.number > Len(chain) THEN Idle
                 ELSE IF OnChain(cursor)
                 THEN [Idle EXCEPT !.pc = "events", !.from = cursor.number + 1]
                 ELSE [Idle EXCEPT !.pc = "resetEvents", !.from = 1])
    /\ torn' = (torn \/ Overlaps(x))
    /\ UNCHANGED <<chain, forks, lease, readModel, cuts, unseen>>

\* resetCanonicalReadModel: two statements, and nothing is done to state.
ResetEvents(x) ==
    /\ iter[x].pc = "resetEvents"
    /\ canonical' = {}
    /\ Go(x, "resetIntents")
    /\ UNCHANGED <<chain, forks, lease, cursor, onchain, cuts, history>>

\* Leaves the column as it is: the replay will write it again.
ResetIntents_Skipped(x) ==
    /\ iter[x].pc = "resetIntents"
    /\ Go(x, "events")
    /\ UNCHANGED <<chain, forks, lease, readModel, cuts, history>>

ResetIntents(x) ==
    /\ iter[x].pc = "resetIntents"
    /\ onchain' = [c \in Claims |-> "none"]
    /\ Go(x, "events")
    /\ UNCHANGED <<chain, forks, lease, cursor, canonical, cuts, history>>

\* getBlockNumber and getEvents.
ReadEvents(x) ==
    LET blocks == {i \in iter[x].from..Len(chain) : chain[i].event # NoEvent}
    IN  /\ iter[x].pc = "events"
        /\ Become(x, IF iter[x].from > Len(chain) THEN Idle
                     ELSE [iter[x] EXCEPT !.pc = "project", !.latest = Len(chain),
                              !.page = [i \in blocks |-> chain[i].event]])
        /\ UNCHANGED <<chain, forks, lease, readModel, cuts, history>>

\* The oldest event of a page, and those after it.
First(page) == CHOOSE i \in DOMAIN page : \A j \in DOMAIN page : i <= j
After(page) == [i \in DOMAIN page \ {First(page)} |-> page[i]]

\* The receipt is asked for; one that the chain has lost ends the iteration.
PersistEvent(x) ==
    LET e == iter[x].page[First(iter[x].page)]
    IN  /\ iter[x].pc = "project" /\ DOMAIN iter[x].page # {}
        /\ IF e \in EventsOf(chain)
           THEN canonical' = canonical \cup {e} /\ Go(x, "write")
           ELSE UNCHANGED canonical /\ Become(x, Idle)
        /\ UNCHANGED <<chain, forks, lease, cursor, onchain, cuts, history>>

\* The column is written whatever is in it.
WriteIntent(x) ==
    LET e == iter[x].page[First(iter[x].page)]
    IN  /\ iter[x].pc = "write"
        /\ onchain' = [onchain EXCEPT ![e.claim] = e.kind]
        /\ Become(x, [iter[x] EXCEPT !.pc = "project", !.page = After(@)])
        /\ UNCHANGED <<chain, forks, lease, cursor, canonical, cuts, history>>

\* The newest block instead of the one that was read up to.
SaveCursor_Newest(x) ==
    /\ iter[x].pc = "project" /\ DOMAIN iter[x].page = {}
    /\ cursor' = IF iter[x].latest > Len(chain) THEN cursor
                 ELSE [number |-> Len(chain), fork |-> chain[Len(chain)].fork]
    /\ Become(x, Idle)
    /\ UNCHANGED <<chain, forks, lease, canonical, onchain, cuts, history>>

\* The hash is asked for only now.
SaveCursor(x) ==
    /\ iter[x].pc = "project" /\ DOMAIN iter[x].page = {}
    /\ cursor' = IF iter[x].latest > Len(chain) THEN cursor
                 ELSE [number |-> iter[x].latest, fork |-> chain[iter[x].latest].fork]
    /\ Become(x, Idle)
    /\ UNCHANGED <<chain, forks, lease, canonical, onchain, cuts, history>>

Step(x) == \/ CheckCursor(x) \/ ResetEvents(x) \/ ResetIntents(x) \/ ReadEvents(x)
           \/ PersistEvent(x) \/ WriteIntent(x) \/ SaveCursor(x)

-----------------------------------------------------------------------------
(* Failures, and the chain. *)

\* The chain loses the blocks after n, and no later look at the cursor will tell:
\* an iteration is past its own look, or the block of the cursor stays and the
\* read model has an event of a lost one, because an iteration broke off before
\* it saved its cursor.
Unnoticed(n) ==
    \/ \E x \in Indexers : iter[x].pc \in {"events", "project", "write"}
    \/ /\ OnChain(cursor) /\ cursor.number <= n
       /\ ~(canonical \subseteq EventsOf(UpTo(n)))

Cut(x) ==
    /\ iter[x].pc # "idle"
    /\ cuts < MaxCuts
    /\ cuts' = cuts + 1
    /\ Become(x, Idle)
    /\ UNCHANGED <<chain, forks, lease, readModel, history>>

CanHappen(e) ==
    LET past == Truth(e.claim, chain)
    IN  IF e.kind = "funded" THEN past = "none" ELSE past = "funded"

Grow == /\ Len(chain) < MaxHeight
        /\ \E e \in {f \in Events : CanHappen(f)} \cup {NoEvent} :
              chain' = Append(chain, [fork |-> forks, event |-> e])
        /\ UNCHANGED <<forks, lease, readModel, iter, cuts, history>>

Reorg == /\ forks < MaxReorgs
         /\ forks' = forks + 1
         /\ \E n \in 0..Len(chain) - 1 :
               chain' = UpTo(n) /\ unseen' = (unseen \/ Unnoticed(n))
         /\ UNCHANGED <<lease, readModel, iter, cuts, torn>>

Next == \/ \E x \in Indexers : AcquireLease(x) \/ Step(x) \/ Cut(x)
        \/ LeaseRunsOut \/ Grow \/ Reorg

Spec == Init /\ [][Next]_vars

\* runIndexerLoop goes on for ever, the lease runs out, the chain grows.
FairSpec == /\ Spec
            /\ \A x \in Indexers : WF_vars(Step(x)) /\ WF_vars(AcquireLease(x))
            /\ WF_vars(LeaseRunsOut) /\ WF_vars(Grow)

-----------------------------------------------------------------------------
AtRest == \A x \in Indexers : ~Open(x)

\* With a cursor that is on the chain, the read model says what the chain said
\* at the cursor or has said since.
Projection ==
    OnChain(cursor) =>
        /\ EventsOf(UpTo(cursor.number)) \subseteq canonical
        /\ canonical \subseteq EventsOf(chain)
        /\ \A c \in Claims :
              onchain[c] \in {Truth(c, UpTo(n)) : n \in cursor.number..Len(chain)}

\* A reorganisation that takes the block of the cursor, or nothing of what is
\* projected, is noticed and mended wherever iterations break off: runIndexerOnce.
\* torn and unseen stand for what the code does not mend: iterations that
\* overlap, and the reorganisations of Unnoticed.
ReadModelTrue == AtRest /\ ~torn /\ ~unseen => Projection

\* In the end the read model is the chain's, and stays so, after every
\* reorganisation but those of Unnoticed, and unless iterations overlap:
\* runIndexerLoop.
CatchesUp == <>[](torn \/ unseen \/ \A c \in Claims : onchain[c] = Truth(c, chain))

\* "Index verified Wotta escrow events and maintain a reorg-replayable status
\* projection" (runIndexerOnce): in the end the column is what the chain says,
\* whichever blocks were lost, and when.  It is not: Unnoticed.
ReorgIsReplayed == <>[](torn \/ \A c \in Claims : onchain[c] = Truth(c, chain))
=============================================================================
