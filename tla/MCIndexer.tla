------------------------------- MODULE MCIndexer -------------------------------
(* The two loops of the API's workers, in two scenes; a behaviour plays one   *)
(* of them and leaves the other where it began.                               *)
(*   blocks  the indexers, of which one takes over from the other, and one    *)
(*           claim hash on a chain that loses its last blocks;                *)
(*   queue   a relayer's loop with three jobs, of which an iteration takes    *)
(*           two, and a client of Iris that remembers two attestations.       *)
(* And what has to be in place before a worker is started.                    *)
EXTENDS ReadModel, MCAdmission, JobQueue

CONSTANTS x1, x2, c1,
          Scenes        \* the scenes that are played

VARIABLES scene,
          watched       \* in the queue: the job that WatchedJobServed is about

readModel == <<blocks, forks, lease, saved, canonical, onchain, iter, breaks, torn, unseen>>
played == <<scene, watched>>
all == <<readModel, queueVars, played>>

SceneInit == /\ Ix!Init /\ QueueInit /\ scene \in Scenes
             /\ watched \in IF scene = "queue" THEN Jobs ELSE {1}

SceneNext == /\ \/ scene = "blocks" /\ Ix!Next /\ UNCHANGED queueVars
                \/ scene = "queue" /\ QueueNext /\ UNCHANGED readModel
             /\ UNCHANGED played

InBlocks(step) == scene = "blocks" /\ step /\ UNCHANGED <<queueVars, played>>
InQueue(step) == scene = "queue" /\ step /\ UNCHANGED <<readModel, played>>

(* The fairness of the two, each in its scene. *)
SceneSpec ==
    /\ SceneInit /\ [][SceneNext]_all
    /\ \A x \in Followers : WF_all(InBlocks(Ix!Step(x))) /\ WF_all(InBlocks(Ix!AcquireLease(x)))
    /\ WF_all(InBlocks(Ix!LeaseRunsOut)) /\ WF_all(InBlocks(Ix!Grow))
    /\ WF_all(InQueue(LoopStep)) /\ WF_all(InQueue(Tick))
    /\ \A j \in Jobs : WF_all(InQueue(RequeueOrphan(j)))

(* In the end the read model is the chain's, and stays so: runIndexerLoop. *)
CatchesUp == Ix!CatchesUp

(* JobServed, of the job that the behaviour has chosen: an attested job comes *)
(* to its end unless older ones without an attestation fill every round.      *)
WatchedJobServed == HasItsTurn(watched) ~> ~Open(watched)

(* "maintain a reorg-replayable status projection": runIndexerOnce. *)
ReorgIsReplayed == Ix!ReorgIsReplayed
=============================================================================
