---------------------------- MODULE RelayerProofs ----------------------------
(***************************************************************************)
(* FundedMeansSettled for any number of workers, attempts, failures and    *)
(* deaths.  The proof is about the time before the settlement: as long as  *)
(* the chain has no event of the claim, no worker has a reason to go on    *)
(* from it.  Whether a walk of the table gets anywhere plays no part.      *)
(* What the client of Iris remembers, in the process of a worker, follows. *)
(***************************************************************************)
EXTENDS RelayerRow, JobQueue, TLAPS

\* What a row, a copy of the job and a worker look like before the settlement.
\* n is the number of transactions sent.
Unfunded == {"draft", "source_submitted", "source_confirmed", "attestation_ready",
             "destination_submitted", "failed_recoverable"}

EarlyPCs == {"idle", "claim", "release", "fail", "giveUp", "start", "iris", "prepare", "check",
             "router", "send", "save", "submit", "confirm", "clear", "back", "retreat"}

Copies(n) == [pc: EarlyPCs, state: Unfunded, version: Nat, dest: 0..n, attempts: Nat,
              seen: {"none"}, fee: BOOLEAN]

\* Where a worker goes on with a settlement, it has the hash of one.
HasHash(copy) == copy.pc \in {"save", "submit", "confirm"} => copy.dest # R!NoTx

JobOpen == jobRow \in [status: {"queued", "processing", "failed"}, attempts: Nat,
                    dest: 0..Len(txs)]
RowOpen == intentRow \in [state: Unfunded, version: Nat, onchain: {"none"}]
WorkersWait == /\ worker \in [Workers -> Copies(Len(txs))]
               /\ \A w \in Workers : HasHash(worker[w])
IndexerWaits == indexer.pc = "next" /\ indexer.at = 0
NoneMined == txs \in Seq({"pending", "reverted"})

Unsettled == JobOpen /\ RowOpen /\ WorkersWait /\ IndexerWaits /\ NoneMined

SettlementInv == chain \in Seq(R!OnchainStates) /\ (~R!processed => Unsettled)

LEMMA InitInv == R!Init => SettlementInv
  BY RelayerRowAssumption
  DEF R!RelayerAssumption, R!Init, SettlementInv, R!processed, Unsettled, JobOpen, RowOpen,
      WorkersWait, IndexerWaits,
      NoneMined, Copies, HasHash, EarlyPCs, Unfunded, R!Free, R!Resting, R!NoTx

-----------------------------------------------------------------------------
(* The copy of a worker. *)

LEMMA TrimmedIsCopy ==
    ASSUME NEW n \in Nat, NEW copy \in Copies(n), HasHash(copy)
    PROVE  R!Trimmed(copy) \in Copies(n) /\ HasHash(R!Trimmed(copy))
  <1>1. \E s \in Unfunded, v \in Nat, d \in 0..n :
            /\ R!Trimmed(copy) = [copy EXCEPT !.state = s, !.version = v, !.dest = d,
                                           !.seen = "none"]
            /\ copy.pc \in {"save", "submit", "confirm"} => d = copy.dest
    <2> DEFINE over == copy.pc \in {"fail", "release"}
               forgets == copy.pc \in R!Forgetful \/ (over /\ ~copy.fee)
               s == IF forgets THEN "draft" ELSE copy.state
               v == IF forgets THEN 0 ELSE copy.version
               d == IF over THEN 0 ELSE copy.dest
    <2>1. s \in Unfunded /\ v \in Nat /\ d \in 0..n /\ copy.seen = "none"
      BY DEF Copies, Unfunded
    <2>2. R!Trimmed(copy) = [copy EXCEPT !.state = s, !.version = v, !.dest = d, !.seen = "none"]
      BY <2>1 DEF R!Trimmed, R!Free, R!NoTx, Copies
    <2>3. copy.pc \in {"save", "submit", "confirm"} => d = copy.dest
      OBVIOUS
    <2> HIDE DEF s, v, d
    <2> QED
      BY <2>1, <2>2, <2>3
  <1>2. QED
    BY <1>1 DEF Copies, HasHash

LEMMA BecomeWaits ==
    ASSUME WorkersWait, NoneMined, NEW w \in Workers, NEW copy \in Copies(Len(txs)),
           HasHash(copy), R!Become(w, copy), txs' = txs
    PROVE  WorkersWait'
  <1>1. Len(txs) \in Nat
    BY DEF NoneMined
  <1>2. R!Trimmed(copy) \in Copies(Len(txs)) /\ HasHash(R!Trimmed(copy))
    BY <1>1, TrimmedIsCopy
  <1>3. QED
    BY <1>2 DEF WorkersWait, R!Become, HasHash

\* A worker that goes to a place where it needs no hash.
LEMMA GoToWaits ==
    ASSUME WorkersWait, NoneMined, NEW w \in Workers,
           NEW pc \in EarlyPCs \ {"save", "submit", "confirm"}, R!GoTo(w, pc), txs' = txs
    PROVE  WorkersWait'
  <1> DEFINE copy == [worker[w] EXCEPT !.pc = pc]
  <1>1. copy \in Copies(Len(txs)) /\ HasHash(copy)
    BY DEF WorkersWait, Copies, HasHash
  <1>2. R!Become(w, copy)
    BY DEF R!GoTo
  <1> QED
    BY <1>1, <1>2, BecomeWaits

LEMMA FreeIsCopy == ASSUME NEW n \in Nat PROVE R!Free \in Copies(n) /\ HasHash(R!Free)
  BY DEF R!Free, Copies, HasHash, EarlyPCs, Unfunded, R!NoTx

\* What Iris answers leads to a settlement only with its hash.
LEMMA PreparedIsCopy ==
    ASSUME NEW n \in Nat, NEW copy \in Copies(n)
    PROVE  R!Prepared(copy) \in Copies(n) /\ HasHash(R!Prepared(copy))
  BY DEF R!Prepared, Copies, HasHash, EarlyPCs, Unfunded, R!NoTx

LEMMA RowMoves ==
    ASSUME Unsettled, NEW to \in Unfunded,
           intentRow' = [intentRow EXCEPT !.state = to, !.version = @ + 1]
    PROVE  RowOpen'
  <1>1. intentRow \in [state: Unfunded, version: Nat, onchain: {"none"}]
    BY DEF Unsettled, RowOpen
  <1>2. intentRow.version + 1 \in Nat
    BY <1>1
  <1>3. intentRow' \in [state: Unfunded, version: Nat, onchain: {"none"}]
    BY <1>1, <1>2, Zenon
  <1> QED
    BY <1>3 DEF RowOpen

LEMMA AdvanceKeeps ==
    ASSUME Unsettled, NEW w \in Workers, NEW to \in Unfunded,
           NEW copy \in Copies(Len(txs)), HasHash(copy), R!Advance(w, to, copy), txs' = txs
    PROVE  RowOpen' /\ WorkersWait'
  <1>1. CASE worker[w].version = intentRow.version
    <2>1. RowOpen'
      BY <1>1, RowMoves DEF R!Advance
    <2>2. R!Become(w, copy)
      BY <1>1 DEF R!Advance
    <2> QED
      BY <2>1, <2>2, BecomeWaits DEF Unsettled
  <1>2. CASE worker[w].version # intentRow.version
    <2>1. "fail" \in EarlyPCs \ {"save", "submit", "confirm"}
      BY DEF EarlyPCs
    <2>2. UNCHANGED intentRow /\ R!GoTo(w, "fail")
      BY <1>2 DEF R!Advance
    <2> QED
      BY <2>1, <2>2, GoToWaits DEF Unsettled, RowOpen
  <1> QED
    BY <1>1, <1>2

LEMMA ElsewhereKeeps ==
    ASSUME Unsettled, UNCHANGED R!elsewhere
    PROVE  IndexerWaits' /\ NoneMined' /\ txs' = txs
  BY DEF Unsettled, IndexerWaits, NoneMined, R!elsewhere

LEMMA SameRow == ASSUME Unsettled, UNCHANGED intentRow PROVE RowOpen'
  BY DEF Unsettled, RowOpen

LEMMA SameJob == ASSUME Unsettled, UNCHANGED jobRow, txs' = txs PROVE JobOpen'
  BY DEF Unsettled, JobOpen

LEMMA CopyOf ==
    ASSUME Unsettled, NEW w \in Workers
    PROVE  worker[w] \in Copies(Len(txs)) /\ HasHash(worker[w]) /\ Len(txs) \in Nat
  BY DEF Unsettled, WorkersWait, NoneMined

\* Places a worker is never at while nothing is settled.
LEMMA NotThere ==
    ASSUME Unsettled, NEW w \in Workers
    PROVE  worker[w].pc \notin {"resume", "walk", "lookup", "known", "reread", "settled",
                              "deliver", "finish"}
  BY CopyOf DEF Copies, EarlyPCs

-----------------------------------------------------------------------------
(* Taking the job and giving it back. *)

LEMMA ListKeeps == ASSUME Unsettled, NEW w \in Workers, R!List(w) PROVE Unsettled'
  <1>1. IndexerWaits' /\ NoneMined' /\ txs' = txs
    BY ElsewhereKeeps DEF R!List
  <1>2. JobOpen' /\ RowOpen'
    BY <1>1, SameRow, SameJob DEF R!List
  <1>3. WorkersWait'
    <2> DEFINE copy == [R!Refreshed(w) EXCEPT !.pc = "claim", !.dest = jobRow.dest,
                                           !.attempts = jobRow.attempts]
    <2>1. copy \in Copies(Len(txs)) /\ HasHash(copy)
      BY CopyOf DEF R!Refreshed, Copies, HasHash, EarlyPCs, Unsettled, JobOpen, RowOpen
    <2>2. R!Become(w, copy)
      BY DEF R!List
    <2> QED
      BY <1>1, <2>1, <2>2, BecomeWaits DEF Unsettled
  <1> QED
    BY <1>1, <1>2, <1>3 DEF Unsettled

LEMMA ClaimKeeps == ASSUME Unsettled, NEW w \in Workers, R!Claim(w) PROVE Unsettled'
  <1>1. IndexerWaits' /\ NoneMined' /\ txs' = txs
    BY ElsewhereKeeps DEF R!Claim
  <1>2. RowOpen'
    BY SameRow DEF R!Claim
  <1>3. JobOpen'
    BY <1>1 DEF R!Claim, Unsettled, JobOpen
  <1>4. WorkersWait'
    <2>1. CASE R!GoTo(w, "start")
      BY <1>1, <2>1, GoToWaits DEF Unsettled, EarlyPCs
    <2>2. CASE R!Become(w, R!Free)
      BY <1>1, <2>2, BecomeWaits, FreeIsCopy, CopyOf DEF Unsettled
    <2> QED
      BY <2>1, <2>2 DEF R!Claim
  <1> QED
    BY <1>1, <1>2, <1>3, <1>4 DEF Unsettled

LEMMA ReleaseKeeps == ASSUME Unsettled, NEW w \in Workers, R!Release(w) PROVE Unsettled'
  <1>1. IndexerWaits' /\ NoneMined' /\ txs' = txs
    BY ElsewhereKeeps DEF R!Release
  <1>2. RowOpen'
    BY SameRow DEF R!Release
  <1>3. JobOpen'
    BY <1>1 DEF R!Release, Unsettled, JobOpen
  <1>4. WorkersWait'
    BY <1>1, BecomeWaits, FreeIsCopy, CopyOf DEF Unsettled, R!Release
  <1> QED
    BY <1>1, <1>2, <1>3, <1>4 DEF Unsettled

LEMMA FailKeeps == ASSUME Unsettled, NEW w \in Workers, R!Fail(w) PROVE Unsettled'
  <1>1. IndexerWaits' /\ NoneMined' /\ txs' = txs
    BY ElsewhereKeeps DEF R!Fail
  <1>2. RowOpen'
    BY SameRow DEF R!Fail
  <1>3. JobOpen'
    <2>1. worker[w].attempts + 1 \in Nat
      BY CopyOf DEF Copies
    <2> QED
      BY <1>1, <2>1 DEF R!Fail, Unsettled, JobOpen
  <1>4. WorkersWait'
    <2>1. CASE R!GoTo(w, "giveUp")
      BY <1>1, <2>1, GoToWaits DEF Unsettled, EarlyPCs
    <2>2. CASE R!Become(w, R!Free)
      BY <1>1, <2>2, BecomeWaits, FreeIsCopy, CopyOf DEF Unsettled
    <2> QED
      BY <2>1, <2>2 DEF R!Fail
  <1> QED
    BY <1>1, <1>2, <1>3, <1>4 DEF Unsettled

LEMMA GiveUpKeeps == ASSUME Unsettled, NEW w \in Workers, R!GiveUp(w) PROVE Unsettled'
  <1>1. IndexerWaits' /\ NoneMined' /\ txs' = txs
    BY ElsewhereKeeps DEF R!GiveUp
  <1>2. JobOpen'
    BY <1>1, SameJob DEF R!GiveUp
  <1>3. RowOpen'
    <2>1. "failed_recoverable" \in Unfunded
      BY DEF Unfunded
    <2>2. CASE worker[w].version = intentRow.version
      BY <2>1, <2>2, RowMoves DEF R!GiveUp
    <2>3. CASE worker[w].version # intentRow.version
      BY <2>3, SameRow DEF R!GiveUp
    <2> QED
      BY <2>2, <2>3
  <1>4. WorkersWait'
    BY <1>1, BecomeWaits, FreeIsCopy, CopyOf DEF Unsettled, R!GiveUp
  <1> QED
    BY <1>1, <1>2, <1>3, <1>4 DEF Unsettled

-----------------------------------------------------------------------------
(* processJob, as far as it gets without a settlement. *)

LEMMA ReadProjectionKeeps ==
    ASSUME Unsettled, NEW w \in Workers, R!ReadProjection(w)
    PROVE  Unsettled'
  <1>1. IndexerWaits' /\ NoneMined' /\ txs' = txs
    BY ElsewhereKeeps DEF R!ReadProjection
  <1>2. JobOpen'
    BY <1>1, SameJob DEF R!ReadProjection
  <1>3. RowOpen' /\ WorkersWait'
    <2>1. intentRow.onchain = "none"
      BY DEF Unsettled, RowOpen
    <2>2. R!GoTo(w, "iris")
      BY <2>1 DEF R!ReadProjection
    <2> QED
      BY <1>1, <2>2, GoToWaits, SameRow DEF R!ReadProjection, Unsettled, EarlyPCs
  <1> QED
    BY <1>1, <1>2, <1>3 DEF Unsettled

LEMMA AttestedKeeps ==
    ASSUME Unsettled, NEW w \in Workers, R!Attested(w)
    PROVE  Unsettled'
  <1>1. IndexerWaits' /\ NoneMined' /\ txs' = txs
    BY ElsewhereKeeps DEF R!Attested
  <1>2. JobOpen'
    BY <1>1, SameJob DEF R!Attested
  <1>3. RowOpen' /\ WorkersWait'
    BY <1>1, CopyOf, PreparedIsCopy, BecomeWaits, SameRow DEF R!Attested, Unsettled
  <1> QED
    BY <1>1, <1>2, <1>3 DEF Unsettled

LEMMA NotYetKeeps ==
    ASSUME Unsettled, NEW w \in Workers, R!NotYet(w)
    PROVE  Unsettled'
  <1>1. IndexerWaits' /\ NoneMined' /\ txs' = txs
    BY ElsewhereKeeps DEF R!NotYet
  <1>2. JobOpen'
    BY <1>1, SameJob DEF R!NotYet
  <1>3. RowOpen' /\ WorkersWait'
    BY <1>1, GoToWaits, SameRow DEF R!NotYet, Unsettled, EarlyPCs
  <1> QED
    BY <1>1, <1>2, <1>3 DEF Unsettled

LEMMA MovedIsCopy ==
    ASSUME Unsettled, NEW w \in Workers, NEW to \in Unfunded
    PROVE  R!Moved(w, to) \in Copies(Len(txs)) /\ R!Moved(w, to).dest = worker[w].dest
  <1>1. worker[w] \in Copies(Len(txs))
    BY CopyOf
  <1>2. worker[w].version + 1 \in Nat
    BY <1>1 DEF Copies
  <1> QED
    BY <1>1, <1>2, Zenon DEF R!Moved, Copies

LEMMA PrepareKeeps ==
    ASSUME Unsettled, NEW w \in Workers, R!Prepare(w)
    PROVE  Unsettled'
  <1>1. IndexerWaits' /\ NoneMined' /\ txs' = txs
    BY ElsewhereKeeps DEF R!Prepare
  <1>2. JobOpen'
    BY <1>1, SameJob DEF R!Prepare
  <1>3. RowOpen' /\ WorkersWait'
    <2> DEFINE to == IF worker[w].state = "source_submitted" THEN "source_confirmed"
                     ELSE "attestation_ready"
    <2>1. to \in Unfunded
      BY DEF Unfunded
    <2>2. R!Advance(w, to, R!Prepared(R!Moved(w, to)))
      BY DEF R!Prepare
    <2> HIDE DEF to
    <2>3. R!Prepared(R!Moved(w, to)) \in Copies(Len(txs)) /\ HasHash(R!Prepared(R!Moved(w, to)))
      BY <2>1, MovedIsCopy, PreparedIsCopy, CopyOf
    <2> QED
      BY <1>1, <2>1, <2>2, <2>3, AdvanceKeeps
  <1> QED
    BY <1>1, <1>2, <1>3 DEF Unsettled

LEMMA CheckRowKeeps ==
    ASSUME Unsettled, NEW w \in Workers, R!CheckRow(w)
    PROVE  Unsettled'
  <1>1. IndexerWaits' /\ NoneMined' /\ txs' = txs
    BY ElsewhereKeeps DEF R!CheckRow
  <1>2. JobOpen'
    BY <1>1, SameJob DEF R!CheckRow
  <1>3. RowOpen' /\ WorkersWait'
    <2>1. intentRow.onchain = "none"
      BY DEF Unsettled, RowOpen
    <2>2. R!GoTo(w, "router")
      BY <2>1 DEF R!CheckRow, R!GoTo
    <2> QED
      BY <1>1, <2>2, GoToWaits, SameRow DEF R!CheckRow, Unsettled, EarlyPCs
  <1> QED
    BY <1>1, <1>2, <1>3 DEF Unsettled

LEMMA AskRouterKeeps ==
    ASSUME Unsettled, NEW w \in Workers, R!AskRouter(w), ~R!processed
    PROVE  Unsettled'
  <1>1. IndexerWaits' /\ NoneMined' /\ txs' = txs
    BY ElsewhereKeeps DEF R!AskRouter
  <1>2. JobOpen'
    BY <1>1, SameJob DEF R!AskRouter
  <1>3. RowOpen' /\ WorkersWait'
    BY <1>1, GoToWaits, SameRow DEF R!AskRouter, Unsettled, EarlyPCs
  <1> QED
    BY <1>1, <1>2, <1>3 DEF Unsettled

LEMMA SaveHashKeeps ==
    ASSUME Unsettled, NEW w \in Workers, R!SaveHash(w)
    PROVE  Unsettled'
  <1>1. IndexerWaits' /\ NoneMined' /\ txs' = txs
    BY ElsewhereKeeps DEF R!SaveHash
  <1>2. JobOpen'
    BY <1>1, CopyOf DEF R!SaveHash, Unsettled, JobOpen, Copies
  <1>3. RowOpen' /\ WorkersWait'
    <2> DEFINE copy == [worker[w] EXCEPT !.pc = "submit"]
    <2>1. copy \in Copies(Len(txs)) /\ HasHash(copy)
      BY CopyOf DEF R!SaveHash, R!At, Copies, HasHash, EarlyPCs
    <2>2. R!Become(w, copy)
      BY DEF R!SaveHash, R!GoTo
    <2> QED
      BY <1>1, <2>1, <2>2, BecomeWaits, SameRow DEF R!SaveHash, Unsettled
  <1> QED
    BY <1>1, <1>2, <1>3 DEF Unsettled

LEMMA SubmitKeeps ==
    ASSUME Unsettled, NEW w \in Workers, R!Submit(w)
    PROVE  Unsettled'
  <1>1. IndexerWaits' /\ NoneMined' /\ txs' = txs
    BY ElsewhereKeeps DEF R!Submit
  <1>2. JobOpen'
    BY <1>1, SameJob DEF R!Submit
  <1>3. RowOpen' /\ WorkersWait'
    <2> DEFINE to == "destination_submitted"
    <2>1. to \in Unfunded
      BY DEF Unfunded
    <2>2. worker[w].dest # R!NoTx
      BY CopyOf DEF HasHash, R!Submit, R!At
    <2>3. R!Submitted(R!Moved(w, to)) = [R!Moved(w, to) EXCEPT !.pc = "confirm"]
      BY <2>1, <2>2, MovedIsCopy DEF R!Submitted
    <2>4. R!Submitted(R!Moved(w, to)) \in Copies(Len(txs)) /\ HasHash(R!Submitted(R!Moved(w, to)))
      BY <2>1, <2>2, <2>3, MovedIsCopy DEF Copies, HasHash, EarlyPCs
    <2>5. R!Advance(w, to, R!Submitted(R!Moved(w, to)))
      BY DEF R!Submit
    <2> QED
      BY <1>1, <2>1, <2>4, <2>5, AdvanceKeeps
  <1> QED
    BY <1>1, <1>2, <1>3 DEF Unsettled

\* A transaction more is a hash more that copies may have.
LEMMA SendKeeps ==
    ASSUME Unsettled, NEW w \in Workers, R!Send(w), ~R!processed
    PROVE  Unsettled'
  <1> DEFINE n == Len(txs)
             copy == [worker[w] EXCEPT !.pc = "save", !.dest = n + 1]
  <1>1. /\ txs' = Append(txs, "pending") /\ R!Become(w, copy)
        /\ UNCHANGED <<jobRow, intentRow, indexer>>
    BY DEF R!Send
  <1>2. n \in Nat /\ Len(txs') = n + 1 /\ NoneMined'
    BY <1>1 DEF Unsettled, NoneMined
  <1>3. JobOpen' /\ RowOpen' /\ IndexerWaits'
    BY <1>1, <1>2 DEF Unsettled, JobOpen, RowOpen, IndexerWaits
  <1>4. Copies(n) \subseteq Copies(n + 1)
    <2> 0..n \subseteq 0..(n + 1)
      BY <1>2
    <2> QED
      BY DEF Copies
  <1>5. R!Trimmed(copy) \in Copies(n + 1) /\ HasHash(R!Trimmed(copy))
    <2>1. worker[w] \in Copies(n + 1)
      BY <1>4, CopyOf
    <2>2. n + 1 \in 0..(n + 1) /\ n + 1 # R!NoTx /\ n + 1 \in Nat
      BY <1>2 DEF R!NoTx
    <2>3. copy \in Copies(n + 1) /\ HasHash(copy)
      BY <2>1, <2>2 DEF Copies, HasHash, EarlyPCs
    <2> QED
      BY <2>2, <2>3, TrimmedIsCopy
  <1>6. WorkersWait'
    <2>1. worker' = [worker EXCEPT ![w] = R!Trimmed(copy)]
      BY <1>1 DEF R!Become
    <2>2. worker \in [Workers -> Copies(n + 1)] /\ \A x \in Workers : HasHash(worker[x])
      BY <1>4 DEF Unsettled, WorkersWait
    <2> HIDE DEF copy, n
    <2>3. worker' \in [Workers -> Copies(n + 1)] /\ \A x \in Workers : HasHash(worker'[x])
      BY <1>5, <2>1, <2>2
    <2> QED
      BY <1>2, <2>3 DEF WorkersWait
  <1> QED
    BY <1>2, <1>3, <1>6 DEF Unsettled

LEMMA CannotPayKeeps ==
    ASSUME Unsettled, NEW w \in Workers, R!CannotPay(w)
    PROVE  Unsettled'
  <1> DEFINE copy == [worker[w] EXCEPT !.pc = "fail", !.fee = TRUE]
  <1>1. R!Become(w, copy) /\ UNCHANGED <<jobRow, intentRow, txs, indexer>>
    BY DEF R!CannotPay
  <1>2. copy \in Copies(Len(txs)) /\ HasHash(copy)
    BY CopyOf DEF Copies, HasHash, EarlyPCs
  <1>3. WorkersWait'
    BY <1>1, <1>2, BecomeWaits DEF Unsettled
  <1> QED
    BY <1>1, <1>3 DEF Unsettled, JobOpen, RowOpen, IndexerWaits, NoneMined

-----------------------------------------------------------------------------
(* processJob, with the hash of a settlement that has not been made. *)

LEMMA ConfirmKeeps ==
    ASSUME Unsettled, NEW w \in Workers, R!Confirm(w)
    PROVE  Unsettled'
  <1>1. IndexerWaits' /\ NoneMined' /\ txs' = txs
    BY ElsewhereKeeps DEF R!Confirm
  <1>2. JobOpen'
    BY <1>1, SameJob DEF R!Confirm
  <1>3. RowOpen' /\ WorkersWait'
    <2>1. worker[w].dest \in 1..Len(txs)
      BY CopyOf DEF Copies, HasHash, R!Confirm, R!At, R!NoTx
    <2>2. R!Outcome(worker[w].dest) \in {"pending", "reverted"}
      BY <2>1 DEF R!Outcome, R!Projected, Unsettled, NoneMined
    <2>3. R!GoTo(w, "clear")
      BY <2>2 DEF R!Confirm
    <2> QED
      BY <1>1, <2>3, GoToWaits, SameRow DEF R!Confirm, Unsettled, EarlyPCs
  <1> QED
    BY <1>1, <1>2, <1>3 DEF Unsettled

LEMMA ClearKeeps ==
    ASSUME Unsettled, NEW w \in Workers, R!Clear(w)
    PROVE  Unsettled'
  <1>1. IndexerWaits' /\ NoneMined' /\ txs' = txs
    BY ElsewhereKeeps DEF R!Clear
  <1>2. JobOpen'
    BY <1>1, CopyOf DEF R!Clear, Unsettled, JobOpen, R!NoTx
  <1>3. RowOpen' /\ WorkersWait'
    <2> DEFINE copy == [worker[w] EXCEPT !.pc = "back", !.dest = R!NoTx]
    <2>1. copy \in Copies(Len(txs)) /\ HasHash(copy)
      <3>1. worker[w] \in Copies(Len(txs)) /\ R!NoTx \in 0..Len(txs)
        BY CopyOf DEF R!NoTx
      <3>2. "back" \in EarlyPCs
        BY DEF EarlyPCs
      <3> QED
        BY <3>1, <3>2 DEF Copies, HasHash
    <2>2. R!Become(w, copy)
      BY DEF R!Clear
    <2> QED
      BY <1>1, <2>1, <2>2, BecomeWaits, SameRow DEF R!Clear, Unsettled
  <1> QED
    BY <1>1, <1>2, <1>3 DEF Unsettled

LEMMA BackKeeps ==
    ASSUME Unsettled, NEW w \in Workers, R!Back(w)
    PROVE  Unsettled'
  <1>1. IndexerWaits' /\ NoneMined' /\ txs' = txs
    BY ElsewhereKeeps DEF R!Back
  <1>2. JobOpen'
    BY <1>1, SameJob DEF R!Back
  <1>3. RowOpen' /\ WorkersWait'
    <2> DEFINE pc == IF R!TransitionAllowed(intentRow.state, "failed_recoverable")
                     THEN "retreat" ELSE "fail"
               copy == [R!Refreshed(w) EXCEPT !.pc = pc]
    <2>1. pc \in {"retreat", "fail"}
      OBVIOUS
    <2>2. R!Become(w, copy)
      BY DEF R!Back
    <2> HIDE DEF pc
    <2>3. copy \in Copies(Len(txs)) /\ HasHash(copy)
      <3>1. intentRow.state \in Unfunded /\ intentRow.version \in Nat
        BY DEF Unsettled, RowOpen
      <3>2. R!Refreshed(w) = [worker[w] EXCEPT !.state = intentRow.state,
                                               !.version = intentRow.version]
        BY DEF R!Refreshed
      <3>3. R!Refreshed(w) \in Copies(Len(txs))
        BY <3>1, <3>2, CopyOf, Zenon DEF Copies
      <3> QED
        BY <2>1, <3>3 DEF Copies, HasHash, EarlyPCs
    <2> QED
      BY <1>1, <2>2, <2>3, BecomeWaits, SameRow DEF R!Back, Unsettled
  <1> QED
    BY <1>1, <1>2, <1>3 DEF Unsettled

LEMMA RetreatKeeps ==
    ASSUME Unsettled, NEW w \in Workers, R!Retreat(w)
    PROVE  Unsettled'
  <1>1. IndexerWaits' /\ NoneMined' /\ txs' = txs
    BY ElsewhereKeeps DEF R!Retreat
  <1>2. JobOpen'
    BY <1>1, SameJob DEF R!Retreat
  <1>3. RowOpen' /\ WorkersWait'
    <2> DEFINE to == "failed_recoverable"
               copy == [R!Moved(w, to) EXCEPT !.pc = "fail"]
    <2>1. to \in Unfunded
      BY DEF Unfunded
    <2>2. copy \in Copies(Len(txs)) /\ HasHash(copy)
      BY <2>1, MovedIsCopy DEF Copies, HasHash, EarlyPCs
    <2>3. R!Advance(w, to, copy)
      BY DEF R!Retreat
    <2> QED
      BY <1>1, <2>1, <2>2, <2>3, AdvanceKeeps
  <1> QED
    BY <1>1, <1>2, <1>3 DEF Unsettled

LEMMA ThrowKeeps == ASSUME Unsettled, NEW w \in Workers, R!Throw(w) PROVE Unsettled'
  <1>1. R!GoTo(w, "fail") /\ UNCHANGED <<jobRow, intentRow, txs, indexer>>
    BY DEF R!Throw
  <1>2. WorkersWait'
    BY <1>1, GoToWaits DEF Unsettled, EarlyPCs
  <1> QED
    BY <1>1, <1>2 DEF Unsettled, JobOpen, RowOpen, IndexerWaits, NoneMined

LEMMA DieKeeps == ASSUME Unsettled, NEW w \in Workers, R!Die(w) PROVE Unsettled'
  <1>1. R!Become(w, R!Free) /\ UNCHANGED <<jobRow, intentRow, txs, indexer>>
    BY DEF R!Die
  <1>2. WorkersWait'
    BY <1>1, BecomeWaits, FreeIsCopy, CopyOf DEF Unsettled
  <1> QED
    BY <1>1, <1>2 DEF Unsettled, JobOpen, RowOpen, IndexerWaits, NoneMined

LEMMA WorkerKeeps ==
    ASSUME Unsettled, ~R!processed, NEW w \in Workers, R!WorkerStep(w)
    PROVE  Unsettled'
  <1>1. ~ \/ R!Resume(w) \/ R!Lookup(w) \/ R!SaveKnown(w) \/ R!Reread(w) \/ R!Walk(w)
          \/ R!Settled(w) \/ R!Deliver(w) \/ R!Finish(w)
    BY NotThere
    DEF R!At, R!Resume, R!Lookup, R!SaveKnown, R!Reread, R!Walk, R!Settled, R!Deliver, R!Finish
  <1> QED
    BY <1>1, ListKeeps, ClaimKeeps, ReleaseKeeps, FailKeeps, GiveUpKeeps, ReadProjectionKeeps,
       AttestedKeeps, NotYetKeeps, PrepareKeeps, CheckRowKeeps, AskRouterKeeps, SendKeeps,
       SaveHashKeeps, SubmitKeeps, ConfirmKeeps, ClearKeeps, BackKeeps, RetreatKeeps
    DEF R!WorkerStep

-----------------------------------------------------------------------------
(* The others, and the theorem. *)

LEMMA RequeueKeeps == ASSUME Unsettled, R!RequeueStale PROVE Unsettled'
  BY DEF R!RequeueStale, R!elsewhere, Unsettled, JobOpen, RowOpen, WorkersWait, IndexerWaits,
         NoneMined

\* The indexer sees no event, and may at most save its cursor.
LEMMA IndexerKeeps ==
    ASSUME Unsettled, ~R!processed, R!IndexerStep
    PROVE  Unsettled'
  <1>1. Len(chain) = 0
    BY DEF R!processed
  <1>2. R!SaveCursor
    BY <1>1 DEF R!IndexerStep, R!ProjectEvent, R!ApplyProjection, R!AdvanceTowardEvent,
        R!LoseToWorker,
                Unsettled, IndexerWaits
  <1> QED
    BY <1>2 DEF R!SaveCursor, R!workers, Unsettled, JobOpen, RowOpen, WorkersWait, IndexerWaits,
                NoneMined

\* A settlement that is mined is the event, or was reverted.
LEMMA MineKeeps ==
    ASSUME Unsettled, NEW tx \in DOMAIN txs, R!Mine(tx), chain' = <<>>
    PROVE  Unsettled'
  <1>1. txs' = [txs EXCEPT ![tx] = "reverted"] /\ UNCHANGED <<jobRow, intentRow, worker, indexer>>
    BY DEF R!Mine, R!us
  <1>2. NoneMined' /\ Len(txs') = Len(txs)
    BY <1>1 DEF Unsettled, NoneMined
  <1> QED
    BY <1>1, <1>2 DEF Unsettled, JobOpen, RowOpen, WorkersWait, IndexerWaits

LEMMA ChainGrows ==
    ASSUME chain \in Seq(R!OnchainStates), [R!Next]_R!vars
    PROVE  chain' \in Seq(R!OnchainStates) /\ (R!processed => R!processed')
  <1>1. CASE UNCHANGED chain
    BY <1>1 DEF R!processed
  <1>2. CASE chain' = <<"funded">>
    BY <1>2 DEF R!processed, R!OnchainStates
  <1>3. ASSUME NEW event \in Exits, R!Exit(event)
        PROVE  chain' \in Seq(R!OnchainStates) /\ (R!processed => R!processed')
    BY <1>3, RelayerRowAssumption
    DEF R!RelayerAssumption, R!Exit, R!processed, R!OnchainStates
  <1>4. ASSUME NEW w \in Workers, R!WorkerStep(w) PROVE UNCHANGED chain
    BY <1>4
    DEF R!WorkerStep, R!elsewhere, R!List, R!Claim, R!Release, R!Fail, R!GiveUp,
        R!ReadProjection, R!Resume, R!Attested, R!NotYet, R!Prepare, R!CheckRow,
        R!AskRouter, R!Lookup, R!SaveKnown, R!Reread, R!Send, R!SaveHash, R!Submit,
        R!Walk, R!Confirm, R!Clear, R!Back, R!Retreat, R!Settled, R!Deliver, R!Finish
  <1>5. R!IndexerStep => UNCHANGED chain
    BY DEF R!IndexerStep, R!ProjectEvent, R!ApplyProjection, R!AdvanceTowardEvent,
           R!LoseToWorker, R!SaveCursor, R!workers
  <1> QED
    BY <1>1, <1>2, <1>3, <1>4, <1>5
    DEF R!Next, R!vars, R!CannotPay, R!Throw, R!Die, R!RequeueStale, R!elsewhere,
        R!SelfSettle, R!Mine

LEMMA NextInv == SettlementInv /\ [R!Next]_R!vars => SettlementInv'
  <1> SUFFICES ASSUME SettlementInv, [R!Next]_R!vars, ~R!processed' PROVE Unsettled'
    BY ChainGrows DEF SettlementInv
  <1>1. ~R!processed /\ Unsettled /\ chain' = <<>>
    BY ChainGrows DEF SettlementInv, R!processed
  <1>2. ASSUME NEW w \in Workers, R!WorkerStep(w) \/ R!CannotPay(w) \/ R!Throw(w) \/ R!Die(w)
        PROVE  Unsettled'
    BY <1>1, <1>2, WorkerKeeps, CannotPayKeeps, ThrowKeeps, DieKeeps
  <1>3. CASE R!RequeueStale
    BY <1>1, <1>3, RequeueKeeps
  <1>4. CASE R!IndexerStep
    BY <1>1, <1>4, IndexerKeeps
  <1>5. ~R!SelfSettle
    BY <1>1 DEF R!SelfSettle
  <1>6. ASSUME NEW tx \in DOMAIN txs, R!Mine(tx) PROVE Unsettled'
    BY <1>1, <1>6, MineKeeps
  <1>7. ASSUME NEW event \in Exits PROVE ~R!Exit(event)
    BY <1>1 DEF R!Exit, R!processed
  <1>8. CASE UNCHANGED R!vars
    BY <1>1, <1>8 DEF R!vars, Unsettled, JobOpen, RowOpen, WorkersWait, IndexerWaits, NoneMined
  <1> QED
    BY <1>2, <1>3, <1>4, <1>5, <1>6, <1>7, <1>8 DEF R!Next

\* run.ts: however many workers share the job, whatever throws, reverts, dies
\* or is retried, the intent is called funded, or the job succeeded, only when
\* the burn is settled.
THEOREM FundedMeansSettledHolds == R!Spec => []FundedMeansSettled
  <1>1. SettlementInv => FundedMeansSettled
    BY DEF SettlementInv, FundedMeansSettled, R!FundedMeansSettled, R!FundedOrLater,
           Unsettled, JobOpen, RowOpen, Unfunded
  <1> QED
    BY InitInv, NextInv, <1>1, PTL DEF R!Spec

-----------------------------------------------------------------------------
(* OldestGoesFirst for any number of jobs: the cache is sorted by age and   *)
(* without repetition, and a burn that is asked for has no entry, expired or *)
(* not, so the end of the map is where its attestation is put.              *)

Ordered(s) == \A i, j \in 1..Len(s) : i < j => /\ s[i].burn # s[j].burn
                                               /\ s[i].left <= s[j].left

CacheInv == cache \in Seq(Entry) /\ Ordered(cache) /\ Len(cache) <= MaxEntries

AskedInv == /\ round \subseteq Jobs
            /\ hand = EmptyHand \/ hand \in [job: Jobs, pc: {"look", "ask", "settle", "back", "fail"}]
            /\ hand.pc = "ask" => Places(hand.job) = {}

QueueInv == CacheInv /\ AskedInv

LEMMA DropFacts ==
    ASSUME NEW S, NEW s \in Seq(S), NEW i \in 1..Len(s)
    PROVE  /\ Drop(s, i) \in Seq(S)
           /\ Len(Drop(s, i)) = Len(s) - 1
           /\ \A j \in 1..Len(s) - 1 : Drop(s, i)[j] = IF j < i THEN s[j] ELSE s[j + 1]
  <1>1. Len(s) - 1 \in Nat
    OBVIOUS
  <1>2. \A j \in 1..Len(s) - 1 : s[j] \in S /\ s[j + 1] \in S
    OBVIOUS
  <1>3. Drop(s, i) \in [1..Len(s) - 1 -> S]
    BY <1>2 DEF Drop
  <1>4. QED
    BY <1>1, <1>3 DEF Drop

\* What is left of the cache keeps its order.
LEMMA DropOrdered ==
    ASSUME NEW s \in Seq(Entry), Ordered(s), NEW i \in 1..Len(s)
    PROVE  /\ Ordered(Drop(s, i))
           /\ \A j \in 1..Len(s) - 1 : Drop(s, i)[j].burn # s[i].burn
           /\ \A j \in 1..Len(s) : j # i => \E k \in 1..Len(s) - 1 : Drop(s, i)[k] = s[j]
           /\ \A j \in 1..Len(s) - 1 : \E k \in 1..Len(s) : Drop(s, i)[j] = s[k]
  <1>1. /\ Len(Drop(s, i)) = Len(s) - 1
        /\ \A j \in 1..Len(s) - 1 : Drop(s, i)[j] = IF j < i THEN s[j] ELSE s[j + 1]
    BY DropFacts
  <1>2. \A j \in 1..Len(s) - 1 : \E k \in 1..Len(s) :
            k # i /\ Drop(s, i)[j] = s[k] /\ (j < i => k = j) /\ (j >= i => k = j + 1)
    <2> SUFFICES ASSUME NEW j \in 1..Len(s) - 1
                 PROVE  \E k \in 1..Len(s) : /\ k # i /\ Drop(s, i)[j] = s[k]
                                             /\ (j < i => k = j) /\ (j >= i => k = j + 1)
      OBVIOUS
    <2> DEFINE k == IF j < i THEN j ELSE j + 1
    <2>1. k \in 1..Len(s) /\ k # i /\ (j < i => k = j) /\ (j >= i => k = j + 1)
      OBVIOUS
    <2>2. Drop(s, i)[j] = s[k]
      BY <1>1
    <2>3. QED
      BY <2>1, <2>2
  <1>3. ASSUME NEW j \in 1..Len(s), j # i
        PROVE  \E k \in 1..Len(s) - 1 : Drop(s, i)[k] = s[j]
    <2>1. CASE j < i
      <3>1. j \in 1..Len(s) - 1 /\ Drop(s, i)[j] = s[j]
        BY <1>1, <2>1
      <3>2. QED
        BY <3>1
    <2>2. CASE j > i
      <3>1. j - 1 \in 1..Len(s) - 1 /\ Drop(s, i)[j - 1] = s[j]
        BY <1>1, <2>2
      <3>2. QED
        BY <3>1
    <2>3. QED
      BY <1>3, <2>1, <2>2
  <1>4. \A j \in 1..Len(s) - 1 : Drop(s, i)[j].burn # s[i].burn
    <2> SUFFICES ASSUME NEW j \in 1..Len(s) - 1 PROVE Drop(s, i)[j].burn # s[i].burn
      OBVIOUS
    <2>1. PICK k \in 1..Len(s) : k # i /\ Drop(s, i)[j] = s[k]
      BY <1>2
    <2>2. k < i \/ i < k
      BY <2>1
    <2>3. QED
      BY <2>1, <2>2 DEF Ordered
  <1>5. Ordered(Drop(s, i))
    <2> SUFFICES ASSUME NEW j \in 1..Len(s) - 1, NEW k \in 1..Len(s) - 1, j < k
                 PROVE  /\ Drop(s, i)[j].burn # Drop(s, i)[k].burn
                        /\ Drop(s, i)[j].left <= Drop(s, i)[k].left
      BY <1>1 DEF Ordered
    <2>1. PICK m \in 1..Len(s) : /\ Drop(s, i)[j] = s[m]
                                 /\ (j < i => m = j) /\ (j >= i => m = j + 1)
      BY <1>2
    <2>2. PICK n \in 1..Len(s) : /\ Drop(s, i)[k] = s[n]
                                 /\ (k < i => n = k) /\ (k >= i => n = k + 1)
      BY <1>2
    <2>3. m < n
      BY <2>1, <2>2
    <2>4. QED
      BY <2>1, <2>2, <2>3 DEF Ordered
  <1>6. QED
    BY <1>2, <1>3, <1>4, <1>5

LEMMA DeletedFacts ==
    ASSUME CacheInv, NEW b \in Jobs
    PROVE  LET rest == Deleted(b)
           IN  /\ rest \in Seq(Entry) /\ Ordered(rest) /\ Len(rest) <= MaxEntries
               /\ \A j \in 1..Len(rest) : rest[j].burn # b
               /\ \A j \in 1..Len(cache) : cache[j].burn # b =>
                     \E k \in 1..Len(rest) : rest[k] = cache[j]
               /\ \A j \in 1..Len(rest) : \E k \in 1..Len(cache) : rest[j] = cache[k]
  <1>1. CASE Places(b) = {}
    BY <1>1 DEF Deleted, Places, CacheInv
  <1>2. CASE Places(b) # {}
    <2> DEFINE i == CHOOSE i \in Places(b) : TRUE
    <2>1. i \in Places(b)
      BY <1>2
    <2>2. i \in 1..Len(cache) /\ cache[i].burn = b
      BY <2>1 DEF Places
    <2>3. Deleted(b) = Drop(cache, i)
      BY <1>2 DEF Deleted
    <2> HIDE DEF i
    <2>4. /\ Drop(cache, i) \in Seq(Entry) /\ Len(Drop(cache, i)) = Len(cache) - 1
      BY <2>2, DropFacts DEF CacheInv
    <2>5. /\ Ordered(Drop(cache, i))
          /\ \A j \in 1..Len(cache) - 1 : Drop(cache, i)[j].burn # cache[i].burn
          /\ \A j \in 1..Len(cache) : j # i =>
                \E k \in 1..Len(cache) - 1 : Drop(cache, i)[k] = cache[j]
          /\ \A j \in 1..Len(cache) - 1 : \E k \in 1..Len(cache) : Drop(cache, i)[j] = cache[k]
      BY <2>2, DropOrdered DEF CacheInv
    <2>6. Len(Drop(cache, i)) <= MaxEntries
      BY <2>4, QueueAssumption DEF CacheInv
    <2>7. QED
      BY <2>2, <2>3, <2>4, <2>5, <2>6
  <1>3. QED
    BY <1>1, <1>2

\* A burn without an entry gets the last one; one that is dropped is the first.
LEMMA RememberedFacts ==
    ASSUME CacheInv, NEW b \in Jobs, Places(b) = {}
    PROVE  LET new == Remembered(b)
           IN  /\ new \in Seq(Entry) /\ Ordered(new) /\ Len(new) <= MaxEntries
               /\ \A i \in 1..Len(new) : \/ new[i] = Fresh(b)
                                         \/ \E j \in 1..Len(cache) : new[i] = cache[j]
               /\ \A i \in 1..Len(cache) :
                     \/ \E j \in 1..Len(new) : new[j].burn = cache[i].burn
                     \/ /\ Len(new) = MaxEntries
                        /\ \A j \in 1..Len(new) : new[j].left >= cache[i].left
  <1> DEFINE room == IF Len(cache) >= MaxEntries THEN Tail(cache) ELSE cache
             first == IF Len(cache) >= MaxEntries THEN 1 ELSE 0
             new == Append(room, Fresh(b))
  <1>0. /\ cache \in Seq(Entry) /\ Len(cache) \in Nat /\ Len(cache) <= MaxEntries
        /\ MaxEntries \in Nat \ {0} /\ Lifetime \in Nat \ {0}
        /\ \A i \in 1..Len(cache) : cache[i] \in Entry
    BY QueueAssumption DEF CacheInv
  <1>1. /\ room \in Seq(Entry) /\ Len(room) = Len(cache) - first
        /\ \A i \in 1..Len(room) : room[i] = cache[i + first]
    BY <1>0
  <1>2. \A i \in 1..Len(room) : room[i].burn # b
    BY <1>0, <1>1 DEF Places
  <1>3. Remembered(b) = new
    BY <1>2 DEF Remembered
  <1>4. Fresh(b) \in Entry /\ Fresh(b).burn = b /\ Fresh(b).left = Lifetime
    BY <1>0 DEF Fresh, Entry
  <1> HIDE DEF room
  <1>5. /\ new \in Seq(Entry) /\ Len(new) = Len(room) + 1
        /\ \A i \in 1..Len(room) : new[i] = room[i]
        /\ new[Len(room) + 1] = Fresh(b)
    BY <1>1, <1>4
  <1> HIDE DEF new
  <1>6. Len(new) <= MaxEntries /\ Len(room) \in Nat /\ first \in {0, 1}
        /\ (first = 1 => Len(new) = MaxEntries)
    BY <1>0, <1>1, <1>5
  <1>7. \A i \in 1..Len(new) :
            IF i = Len(new) THEN new[i] = Fresh(b)
            ELSE i + first \in 1..Len(cache) /\ new[i] = cache[i + first] /\ new[i].burn # b
    BY <1>0, <1>1, <1>2, <1>5, <1>6
  <1>8. \A i \in 1..Len(cache) : cache[i].left <= Lifetime
    BY <1>0 DEF Entry
  <1>9. Ordered(new)
    <2> SUFFICES ASSUME NEW i \in 1..Len(new), NEW j \in 1..Len(new), i < j
                 PROVE  new[i].burn # new[j].burn /\ new[i].left <= new[j].left
      BY DEF Ordered
    <2>1. i + first \in 1..Len(cache) /\ new[i] = cache[i + first] /\ new[i].burn # b
      BY <1>7
    <2>2. CASE j = Len(new)
      BY <1>4, <1>7, <1>8, <2>1, <2>2
    <2>3. CASE j # Len(new)
      <3>1. j + first \in 1..Len(cache) /\ new[j] = cache[j + first]
        BY <1>7, <2>3
      <3>2. i + first < j + first
        BY <1>6
      <3>3. QED
        BY <2>1, <3>1, <3>2 DEF CacheInv, Ordered
    <2>4. QED
      BY <2>2, <2>3
  <1>10. ASSUME NEW i \in 1..Len(cache)
         PROVE  \/ \E j \in 1..Len(new) : new[j].burn = cache[i].burn
                \/ /\ Len(new) = MaxEntries
                   /\ \A j \in 1..Len(new) : new[j].left >= cache[i].left
    <2>1. CASE i > first
      <3>1. i - first \in 1..Len(room) /\ (i - first) + first = i
        BY <1>0, <1>1, <1>6, <2>1
      <3>2. i - first \in 1..Len(new) /\ new[i - first] = cache[i]
        BY <1>1, <1>5, <1>6, <3>1
      <3>3. QED
        BY <3>2
    <2>2. CASE i <= first
      <3>1. i = 1 /\ first = 1 /\ Len(new) = MaxEntries
        BY <1>6, <2>2
      <3>2. ASSUME NEW j \in 1..Len(new) PROVE new[j].left >= cache[i].left
        <4>1. CASE j = Len(new)
          BY <1>0, <1>4, <1>7, <1>8, <4>1 DEF Entry
        <4>2. CASE j # Len(new)
          <5>1. j + first \in 1..Len(cache) /\ new[j] = cache[j + first] /\ i < j + first
            BY <1>7, <4>2, <3>1
          <5>2. cache[i].left <= cache[j + first].left
            BY <5>1 DEF CacheInv, Ordered
          <5>3. cache[i].left \in Nat /\ cache[j + first].left \in Nat
            BY <5>1, <1>0 DEF Entry
          <5>4. QED
            BY <5>1, <5>2, <5>3
        <4>3. QED
          BY <4>1, <4>2
      <3>3. QED
        BY <3>1, <3>2
    <2>3. QED
      BY <1>6, <2>1, <2>2
  <1>11. \A i \in 1..Len(new) : \/ new[i] = Fresh(b)
                                \/ \E j \in 1..Len(cache) : new[i] = cache[j]
    BY <1>7
  <1>12. QED
    BY <1>3, <1>5, <1>6, <1>9, <1>10, <1>11

\* A tick makes all entries older, and leaves them where they are.
LEMMA AgedFacts ==
    ASSUME CacheInv, Tick
    PROVE  /\ CacheInv' /\ Len(cache') = Len(cache)
           /\ \A i \in 1..Len(cache) : cache'[i].burn = cache[i].burn
  <1>1. /\ cache' = [i \in 1..Len(cache) |-> [cache[i] EXCEPT !.left = Sooner(@)]]
          /\ cache \in Seq(Entry) /\ Len(cache) \in Nat
      BY DEF Tick, CacheInv
  <1>2. ASSUME NEW i \in 1..Len(cache)
          PROVE  /\ cache'[i] \in Entry /\ cache'[i].burn = cache[i].burn
                 /\ cache'[i].left = Sooner(cache[i].left)
    <2>1. cache[i] \in Entry
        BY <1>1
    <2>2. Sooner(cache[i].left) \in 0..Lifetime
        BY <2>1, QueueAssumption DEF Entry, Sooner
    <2>3. QED
        BY <1>1, <2>1, <2>2 DEF Entry
  <1>3. cache' \in Seq(Entry) /\ Len(cache') = Len(cache)
    <2>1. cache' \in [1..Len(cache) -> Entry]
        BY <1>1, <1>2
    <2>2. QED
        BY <1>1, <2>1
  <1>4. Ordered(cache')
    <2> SUFFICES ASSUME NEW i \in 1..Len(cache), NEW j \in 1..Len(cache), i < j
                   PROVE  cache'[i].burn # cache'[j].burn /\ cache'[i].left <= cache'[j].left
        BY <1>3 DEF Ordered
    <2>1. cache[i].burn # cache[j].burn /\ cache[i].left <= cache[j].left
        BY DEF CacheInv, Ordered
    <2>2. cache[i] \in Entry /\ cache[j] \in Entry
      BY <1>1
    <2>3. Sooner(cache[i].left) <= Sooner(cache[j].left)
      BY <2>1, <2>2, QueueAssumption DEF Entry, Sooner
    <2>4. QED
      BY <1>2, <2>1, <2>3
  <1>5. CacheInv'
    BY <1>3, <1>4 DEF CacheInv, Ordered
  <1>6. QED
    BY <1>2, <1>3, <1>5

-----------------------------------------------------------------------------
LEMMA QueueInitInv == QueueInit => QueueInv
  BY QueueAssumption DEF QueueInit, QueueInv, CacheInv, AskedInv, Ordered, EmptyHand

\* The cache stays as it is, and nobody begins to ask.
LEMMA CacheStays ==
    ASSUME QueueInv, UNCHANGED cache, round' \subseteq Jobs,
           \/ UNCHANGED hand
           \/ hand' = EmptyHand
           \/ \E j \in Jobs, pc \in {"look", "settle", "back", "fail"} : Goes(j, pc)
    PROVE  QueueInv'
  <1>1. CacheInv'
    BY DEF QueueInv, CacheInv, Ordered
  <1>2. AskedInv'
    <2>1. CASE UNCHANGED hand
      BY <2>1 DEF QueueInv, AskedInv, Places
    <2>2. CASE hand' = EmptyHand
      BY <2>2 DEF AskedInv, EmptyHand
    <2>3. CASE \E j \in Jobs, pc \in {"look", "settle", "back", "fail"} : Goes(j, pc)
      BY <2>3 DEF AskedInv, Goes
    <2>4. QED
      BY <2>1, <2>2, <2>3
  <1>3. QED
    BY <1>1, <1>2 DEF QueueInv

LEMMA HandIsJob ==
    ASSUME QueueInv, hand.pc \in {"look", "ask", "settle", "back", "fail"}
    PROVE  hand.job \in Jobs
  BY DEF QueueInv, AskedInv, EmptyHand

\* An expired entry is deleted before the burn is asked for.
LEMMA LookFacts ==
    ASSUME QueueInv, Look
    PROVE  /\ QueueInv'
           /\ \A i \in 1..Len(cache) :
                 cache[i].left > 0 => \E k \in 1..Len(cache') : cache'[k] = cache[i]
  <1> DEFINE j == hand.job
  <1>1. j \in Jobs
    BY HandIsJob DEF Look
  <1>2. CASE Held(j)
    <2>1. UNCHANGED <<cache, round>> /\ Goes(j, "settle")
      BY <1>2 DEF Look
    <2>2. QED
      BY <1>1, <2>1, CacheStays DEF QueueInv, AskedInv
  <1>3. CASE ~Held(j)
    <2>1. /\ cache' = Deleted(j) /\ UNCHANGED round
          /\ Goes(j, "ask") \/ Goes(j, "back")
      BY <1>3 DEF Look
    <2>2. /\ cache' \in Seq(Entry) /\ Ordered(cache') /\ Len(cache') <= MaxEntries
          /\ \A k \in 1..Len(cache') : cache'[k].burn # j
          /\ \A i \in 1..Len(cache) : cache[i].burn # j =>
                \E k \in 1..Len(cache') : cache'[k] = cache[i]
      BY <1>1, <2>1, DeletedFacts DEF QueueInv
    <2>3. \A i \in 1..Len(cache) : cache[i].left > 0 => cache[i].burn # j
      BY <1>3 DEF Held, Places
    <2>4. AskedInv'
      BY <1>1, <2>1, <2>2 DEF QueueInv, AskedInv, Goes, Places
    <2>5. QED
      BY <2>2, <2>3, <2>4 DEF QueueInv, CacheInv
  <1>4. QED
    BY <1>2, <1>3

\* One that is dropped for the answer is the oldest.
LEMMA ArrivedFacts ==
    ASSUME QueueInv, Arrived
    PROVE  /\ QueueInv'
           /\ \A i \in 1..Len(cache) :
                 \/ \E k \in 1..Len(cache') : cache'[k].burn = cache[i].burn
                 \/ /\ Len(cache') = MaxEntries
                    /\ \A k \in 1..Len(cache') : cache'[k].left >= cache[i].left
  <1> DEFINE j == hand.job
  <1>1. /\ j \in Jobs /\ Places(j) = {} /\ CacheInv
        /\ cache' = Remembered(j) /\ UNCHANGED round /\ Goes(j, "settle")
    BY HandIsJob DEF Arrived, QueueInv, AskedInv
  <1> HIDE DEF j
  <1>2. /\ cache' \in Seq(Entry) /\ Ordered(cache') /\ Len(cache') <= MaxEntries
        /\ \A i \in 1..Len(cache) :
              \/ \E k \in 1..Len(cache') : cache'[k].burn = cache[i].burn
              \/ /\ Len(cache') = MaxEntries
                 /\ \A k \in 1..Len(cache') : cache'[k].left >= cache[i].left
    BY <1>1, RememberedFacts
  <1>3. AskedInv'
    BY <1>1 DEF QueueInv, AskedInv, Goes
  <1>4. QED
    BY <1>2, <1>3 DEF QueueInv, CacheInv

LEMMA TickKeeps == ASSUME QueueInv, Tick PROVE QueueInv'
  <1>1. /\ CacheInv' /\ Len(cache') = Len(cache)
        /\ \A i \in 1..Len(cache) : cache'[i].burn = cache[i].burn
    BY AgedFacts DEF QueueInv
  <1>2. UNCHANGED <<round, hand>>
    BY DEF Tick, loop
  <1>3. \A j : Places(j)' = Places(j)
    BY <1>1 DEF Places
  <1>4. QED
    BY <1>1, <1>2, <1>3 DEF QueueInv, AskedInv

LEMMA RestartKeeps == ASSUME Restart PROVE QueueInv'
  BY QueueAssumption DEF Restart, QueueInv, CacheInv, AskedInv, Ordered, EmptyHand

\* What the other steps have in common.
LEMMA OthersKeep ==
    ASSUME QueueInv, [QueueNext]_queueVars, ~Look, ~Arrived, ~Tick, ~Restart
    PROVE  UNCHANGED cache /\ QueueInv'
  <1>1. CASE SelectJobs
    <2>1. round' \subseteq Jobs /\ UNCHANGED <<cache, hand>>
      BY <1>1 DEF SelectJobs, Queued
    <2>2. QED
      BY <2>1, CacheStays
  <1>2. CASE TakeJob
    <2>1. PICK j \in round : round' = round \ {j} /\ Goes(j, "look")
      BY <1>2 DEF TakeJob
    <2>2. j \in Jobs /\ round' \subseteq Jobs /\ UNCHANGED cache
      BY <1>2, <2>1 DEF TakeJob, QueueInv, AskedInv
    <2>3. QED
      BY <2>1, <2>2, CacheStays
  <1>3. CASE Incomplete \/ Down \/ RateLimited \/ Throws
    <2>1. hand.job \in Jobs /\ UNCHANGED <<cache, round>>
      BY <1>3, HandIsJob DEF Incomplete, Down, RateLimited, Throws
    <2>2. Goes(hand.job, "back") \/ Goes(hand.job, "fail")
      BY <1>3 DEF Incomplete, Down, RateLimited, Throws
    <2>3. QED
      BY <2>1, <2>2, CacheStays DEF QueueInv, AskedInv
  <1>4. CASE Settles \/ PutBack \/ Fails
    <2>1. UNCHANGED <<cache, round>> /\ hand' = EmptyHand
      BY <1>4 DEF Settles, PutBack, Fails, Leaves
    <2>2. QED
      BY <2>1, CacheStays DEF QueueInv, AskedInv
  <1>5. CASE \/ UNCHANGED queueVars
             \/ \E j \in Jobs : RequeueOrphan(j) \/ QueueJob(j) \/ Attest(j)
    <2>1. UNCHANGED <<cache, round, hand>>
      BY <1>5 DEF queueVars, loop, RequeueOrphan, QueueJob, Attest
    <2>2. QED
      BY <2>1, CacheStays DEF QueueInv, AskedInv
  <1>6. QED
    BY <1>1, <1>2, <1>3, <1>4, <1>5 DEF QueueNext, LoopStep

LEMMA QueueStep == QueueInv /\ [QueueNext]_queueVars => QueueInv'
  BY LookFacts, ArrivedFacts, TickKeeps, RestartKeeps, OthersKeep

\* No attestation is given up before its time for one that is older.
THEOREM OldestGoesFirstHolds == QueueSpec => OldestGoesFirst
  <1> DEFINE Gone(i) == ~\E k \in 1..Len(cache') : cache'[k].burn = cache[i].burn
             Orderly == \A i \in 1..Len(cache) :
                Gone(i) /\ cache[i].left > 0 =>
                   /\ Len(cache') = MaxEntries
                   /\ \A k \in 1..Len(cache') : cache'[k].left >= cache[i].left
  <1>1. ASSUME QueueInv, [QueueNext]_queueVars PROVE Restart \/ Orderly
    <2>1. CASE Look
      <3> SUFFICES ASSUME NEW i \in 1..Len(cache), cache[i].left > 0 PROVE ~Gone(i)
        OBVIOUS
      <3>1. PICK k \in 1..Len(cache') : cache'[k] = cache[i]
        BY <1>1, <2>1, LookFacts
      <3>2. QED
        BY <3>1
    <2>2. CASE Arrived
      BY <1>1, <2>2, ArrivedFacts
    <2>3. CASE Tick
      <3>1. Len(cache') = Len(cache) /\ \A i \in 1..Len(cache) : cache'[i].burn = cache[i].burn
        BY <1>1, <2>3, AgedFacts DEF QueueInv
      <3>2. QED
        BY <3>1
    <2>4. CASE UNCHANGED cache
      BY <2>4
    <2>5. QED
      BY <1>1, <2>1, <2>2, <2>3, <2>4, OthersKeep
  <1>2. QED
    BY <1>1, QueueInitInv, QueueStep, PTL DEF QueueSpec, OldestGoesFirst
=============================================================================
