------------------------------- MODULE SendFlow -------------------------------
(***************************************************************************)
(* Sending from the web app: the form of SendPage, the runs it starts, the *)
(* API they call, the wallet they ask and the source chain.  A run is one  *)
(* call of run(): it goes on when the user has stopped waiting for it, has *)
(* left the page or has started another one, and what it does to the form  *)
(* then, it does to the form of the other one.                             *)
(*                                                                         *)
(* A call of the API may be refused, or done without its answer arriving.  *)
(* The one that records the hash of the burn is repeated under one         *)
(* idempotency key, and the API may still be busy with an attempt that the *)
(* browser has given up.                                                   *)
(***************************************************************************)
EXTENDS Naturals, FiniteSets

CONSTANTS Sends,      \* runs of the form, each with an intent and a burn of its own
          Routes,     \* the sources on offer
          Attempts,   \* how often the hash is sent, 3 in the code
          None        \* no run

ASSUME SendFlowAssumption ==
    /\ Routes \subseteq {"starknet", "evm", "stellar"}   \* evm is Solana, too
    /\ Attempts \in Nat \ {0}
    /\ None \notin Sends

VARIABLES
    page,    \* SendForm: busy, stage, pendingSourceTx, activeSendOperation; the mode
    send,    \* the runs
    api,     \* per intent: the row, the note, its hash, the job, the key
    req,     \* the handlers of source-submitted, one per attempt
    burn     \* the transaction on the source chain

sendVars == <<page, send, api, req, burn>>

Modes == {"mainnet", "testnet"}
Calls == {"sync", "create", "quote", "deliver"}
Ended == {"sent", "failed", "gone"}
SendPCs == Calls \cup Ended \cup {"idle", "wallet", "record", "confirm", "wait"}
Running(s) == send[s].pc \notin Ended \cup {"idle"}

CrossChain(s) == send[s].route # "starknet"

\* executeStellarCctpBurn takes no onSubmitted.
RecordsFirst(s) == send[s].route # "stellar"

SendTypeOK ==
    /\ page \in [mode: Modes, open: BOOLEAN, busy: BOOLEAN,
                 stage: {"idle", "working", "complete"},
                 pending: Sends \cup {None}, active: Sends \cup {None}]
    /\ send \in [Sends -> [pc: SendPCs, route: Routes, op: {"none", "active", "cancelled", "finished"},
                           attached: BOOLEAN, attempt: 0..Attempts,
                           recorded: BOOLEAN, told: BOOLEAN]]
    /\ api \in [Sends -> [row: {"none", "draft", "quoted", "source_submitted",
                                "funded", "failed_recoverable"},
                          note: BOOLEAN, hash: BOOLEAN, key: BOOLEAN,
                          job: {"none", "queued", "running", "succeeded", "failed"}]]
    /\ req \in [Sends -> [1..Attempts ->
                   {"none", "lookup", "mark", "enqueue", "save", "ok", "error"}]]
    /\ burn \in [Sends -> {"none", "broadcast", "confirmed", "reverted"}]

Blank(mode) == [mode |-> mode, open |-> TRUE, busy |-> FALSE, stage |-> "idle",
                pending |-> None, active |-> None]

SendInit ==
    /\ \E mode \in Modes : page = Blank(mode)
    /\ \E route \in Routes :
          send = [s \in Sends |-> [pc |-> "idle", route |-> route, op |-> "none",
                                   attached |-> FALSE, attempt |-> 0,
                                   recorded |-> FALSE, told |-> FALSE]]
    /\ api = [s \in Sends |-> [row |-> "none", note |-> FALSE, hash |-> FALSE,
                               key |-> FALSE, job |-> "none"]]
    /\ req = [s \in Sends |-> [n \in 1..Attempts |-> "none"]]
    /\ burn = [s \in Sends |-> "none"]

-----------------------------------------------------------------------------
(* What a run does to the form: nothing, once its component is unmounted.  *)

OnPage(s, new) == IF send[s].attached THEN new ELSE page

Staged(s) == OnPage(s, [page EXCEPT !.stage = "working"])

GoOn(s, pc) == send' = [send EXCEPT ![s].pc = pc]

Finished(run, pc) == [run EXCEPT !.pc = pc, !.op = IF @ = "active" THEN "finished" ELSE @]

\* The catch clause and the finally clause, whosever form it is by now.
Fail(s) ==
    /\ send' = [send EXCEPT ![s] = Finished(@, "failed")]
    /\ page' = OnPage(s, [page EXCEPT
                            !.pending = IF send[s].op = "cancelled" THEN None ELSE @,
                            !.stage = "idle", !.busy = FALSE,
                            !.active = IF @ = s THEN None ELSE @])

\* On mainnet the operation is looked at once more.
Succeed(s) ==
    IF page.mode = "mainnet" /\ send[s].op = "cancelled"
    THEN Fail(s)
    ELSE /\ send' = [send EXCEPT ![s] = Finished(@, "sent")]
         /\ page' = OnPage(s, [page EXCEPT !.stage = "complete", !.pending = None,
                                           !.busy = FALSE,
                                           !.active = IF @ = s THEN None ELSE @])

-----------------------------------------------------------------------------
(* A run up to the wallet. *)

\* The submit button, which is disabled while busy; that the route, the wallet
\* and the recipient are ready is a matter of the form before it is pressed.
Click(s, route) ==
    /\ page.open /\ ~page.busy /\ page.stage # "complete"
    /\ send[s].pc = "idle"
    /\ route = "stellar" => page.mode = "testnet"
    /\ send' = [send EXCEPT ![s] = [@ EXCEPT !.pc = "sync", !.route = route,
                                             !.op = "active", !.attached = TRUE]]
    /\ page' = [page EXCEPT !.busy = TRUE, !.pending = None, !.active = s]
    /\ UNCHANGED <<api, req, burn>>

\* syncSession and me, and assertActive between them.
Sync(s) ==
    /\ send[s].pc = "sync"
    /\ \/ send[s].op = "active" /\ GoOn(s, "create") /\ page' = Staged(s)
       \/ Fail(s)
    /\ UNCHANGED <<api, req, burn>>

\* One call that prepares the payment: it is answered, done but not answered,
\* or not done.  No step but the last asks whether the operation is cancelled.
Prepare(s, pc, next, done) ==
    /\ send[s].pc = pc
    /\ \/ api' = done /\ GoOn(s, next) /\ page' = Staged(s)
       \/ api' \in {api, done} /\ Fail(s)
    /\ UNCHANGED <<req, burn>>

CreateIntent(s) == Prepare(s, "create", "quote", [api EXCEPT ![s].row = "draft"])
SignQuote(s) == Prepare(s, "quote", "deliver", [api EXCEPT ![s].row = "quoted"])

\* Goes on to the wallet whatever has become of the note.
Deliver_Unanswered(s) ==
    /\ send[s].pc = "deliver"
    /\ api' \in {api, [api EXCEPT ![s].note = TRUE]}
    /\ GoOn(s, "wallet") /\ page' = Staged(s)
    /\ UNCHANGED <<req, burn>>

Deliver(s) == Prepare(s, "deliver", "wallet", [api EXCEPT ![s].note = TRUE])

-----------------------------------------------------------------------------
(* The burn, and its hash. *)

\* The callback only after a hash has been recorded.
StartRecording_Untold(s) ==
    /\ \E arrival \in {"lookup", "error"} : req' = [req EXCEPT ![s][1] = arrival]
    /\ send' = [send EXCEPT ![s] = [@ EXCEPT !.pc = "record", !.attempt = 1]]
    /\ page' = Staged(s)

\* onSourceTxHash, then the first attempt; the request may not arrive.
StartRecording(s) ==
    /\ \E arrival \in {"lookup", "error"} : req' = [req EXCEPT ![s][1] = arrival]
    /\ send' = [send EXCEPT ![s] = [@ EXCEPT !.pc = "record", !.attempt = 1, !.told = TRUE]]
    /\ page' = OnPage(s, [page EXCEPT !.pending = s, !.stage = "working"])

\* The user approves in the wallet, or does not.
Approve(s) ==
    /\ send[s].pc = "wallet"
    /\ burn' = [burn EXCEPT ![s] = "broadcast"]
    /\ IF RecordsFirst(s) THEN StartRecording(s)
       ELSE GoOn(s, "confirm") /\ page' = Staged(s) /\ UNCHANGED req
    /\ UNCHANGED api

Reject(s) == /\ send[s].pc = "wallet"
             /\ Fail(s)
             /\ UNCHANGED <<api, req, burn>>

AfterRecord(s) == IF RecordsFirst(s) THEN "confirm" ELSE "wait"

Recorded(s) ==
    /\ send[s].pc = "record"
    /\ req[s][send[s].attempt] = "ok"
    /\ send' = [send EXCEPT ![s] = [@ EXCEPT !.pc = AfterRecord(s), !.recorded = TRUE]]
    /\ page' = Staged(s)
    /\ UNCHANGED <<api, req, burn>>

\* An error reply, a lost connection, or 15 seconds without an answer.
AttemptFails(s) ==
    LET n == send[s].attempt + 1
    IN  /\ send[s].pc = "record"
        /\ IF n <= Attempts
           THEN /\ \E arrival \in {"lookup", "error"} : req' = [req EXCEPT ![s][n] = arrival]
                /\ send' = [send EXCEPT ![s].attempt = n]
                /\ UNCHANGED page
           ELSE Fail(s) /\ UNCHANGED req
        /\ UNCHANGED <<api, burn>>

\* The adapter's wait for the receipt: confirmed, reverted, or timed out.
Confirm(s) ==
    /\ send[s].pc = "confirm"
    /\ \/ /\ burn[s] = "confirmed"
          /\ IF RecordsFirst(s)
             THEN GoOn(s, "wait") /\ page' = Staged(s) /\ UNCHANGED req
             ELSE StartRecording(s)
       \/ Fail(s) /\ UNCHANGED req
    /\ UNCHANGED <<api, burn>>

\* Polls until the payment has come to an end, however long it takes.
WaitForEscrow_NoDeadline(s) ==
    /\ send[s].pc = "wait"
    /\ \/ api[s].row = "funded" /\ Succeed(s)
       \/ api[s].row = "failed_recoverable" /\ Fail(s)
    /\ UNCHANGED <<api, req, burn>>

\* The deadline, or 20 polls in a row without an answer, may end it, too.
WaitForEscrow(s) ==
    /\ send[s].pc = "wait"
    /\ \/ api[s].row = "funded" /\ Succeed(s)
       \/ Fail(s)
    /\ UNCHANGED <<api, req, burn>>

RunStep(s) == \/ Sync(s) \/ CreateIntent(s) \/ SignQuote(s) \/ Deliver(s)
              \/ Recorded(s) \/ AttemptFails(s) \/ Confirm(s) \/ WaitForEscrow(s)

-----------------------------------------------------------------------------
(* The user, besides Click, Approve and Reject. *)

\* "Cancel and unlock Send": the run goes on.
unlockAfterReadyClosed ==
    /\ page.mode = "mainnet" /\ page.busy
    /\ page.pending = None /\ page.active # None
    /\ send' = [send EXCEPT ![page.active].op = "cancelled"]
    /\ page' = [page EXCEPT !.active = None, !.busy = FALSE, !.stage = "idle"]
    /\ UNCHANGED <<api, req, burn>>

\* "Dismiss"; and a change of source does the same.
Dismiss == /\ page.pending # None
           /\ page' = [page EXCEPT !.pending = None]
           /\ UNCHANGED <<send, api, req, burn>>

SendAnother == /\ page.stage = "complete"
               /\ page' = [page EXCEPT !.stage = "idle", !.pending = None]
               /\ UNCHANGED <<send, api, req, burn>>

\* Every run is left without its form, and the active one is cancelled.
Unmount == [s \in Sends |-> [send[s] EXCEPT !.attached = FALSE,
                                            !.op = IF page.active = s THEN "cancelled" ELSE @]]

LeavePage == /\ page.open
             /\ send' = Unmount
             /\ page' = Blank(page.mode)
             /\ UNCHANGED <<api, req, burn>>

\* prepareNetworkSwitch: refused while an operation blocks it.
SwitchNetwork ==
    /\ page.open
    /\ \A s \in Sends : send[s].op # "active"
    /\ send' = Unmount
    /\ \E mode \in Modes \ {page.mode} : page' = Blank(mode)
    /\ UNCHANGED <<api, req, burn>>

CloseTab ==
    /\ page.open
    /\ page' = [Blank(page.mode) EXCEPT !.open = FALSE]
    /\ send' = [s \in Sends |-> IF Running(s) THEN [send[s] EXCEPT !.pc = "gone"] ELSE send[s]]
    /\ UNCHANGED <<api, req, burn>>

User == \/ \E s \in Sends, route \in Routes : Click(s, route)
        \/ \E s \in Sends : Approve(s) \/ Reject(s)
        \/ unlockAfterReadyClosed \/ Dismiss \/ SendAnother
        \/ LeavePage \/ SwitchNetwork \/ CloseTab

-----------------------------------------------------------------------------
(* The API's side of one attempt, statement by statement: idempotent, and  *)
(* markSourceSubmitted within it.                                          *)

Handle(s, n, from, to) == req[s][n] = from /\ req' = [req EXCEPT ![s][n] = to]

Lookup(s, n) == /\ Handle(s, n, "lookup", IF api[s].key THEN "ok" ELSE "mark")
                /\ UNCHANGED api

Marked(entry) == [entry EXCEPT !.hash = TRUE,
                              !.row = IF @ = "quoted" THEN "source_submitted" ELSE @]

\* The hash is there already: nothing left to do.
Mark_EarlyReturn(s, n) ==
    /\ Handle(s, n, "mark", IF api[s].hash THEN "save" ELSE "enqueue")
    /\ api' = [api EXCEPT ![s] = Marked(@)]

\* The hash may be there already, and the indexer may have been faster.
Mark(s, n) ==
    /\ Handle(s, n, "mark", "enqueue")
    /\ api' = [api EXCEPT ![s] = Marked(@)]

Enqueue(s, n) ==
    /\ Handle(s, n, "enqueue", "save")
    /\ api' = IF CrossChain(s) /\ api[s].job = "none" THEN [api EXCEPT ![s].job = "queued"]
              ELSE api

\* A second insert of the key fails, and the saved response is looked up.
Save(s, n) == /\ Handle(s, n, "save", "ok")
              /\ api' = [api EXCEPT ![s].key = TRUE]

\* Any statement may fail, the insertion of the event among them.
Break(s, n) == /\ req[s][n] \in {"lookup", "mark", "enqueue", "save"}
               /\ req' = [req EXCEPT ![s][n] = "error"]
               /\ UNCHANGED api

Handler(s, n) == /\ Lookup(s, n) \/ Mark(s, n) \/ Enqueue(s, n) \/ Save(s, n) \/ Break(s, n)
                 /\ UNCHANGED <<page, send, burn>>

-----------------------------------------------------------------------------
(* The source chain, the relayer and the indexer. *)

Mine(s) == /\ burn[s] = "broadcast"
           /\ \E result \in {"confirmed", "reverted"} : burn' = [burn EXCEPT ![s] = result]
           /\ UNCHANGED <<page, send, api, req>>

\* A worker takes the job, is done with it, puts it back for another try, or
\* gives it up and says so in the row.
Relay(s) ==
    LET to(job) == api' = [api EXCEPT ![s].job = job]
    IN  /\ \/ api[s].job = "queued" /\ to("running")
           \/ api[s].job = "running" /\ api[s].row = "funded" /\ to("succeeded")
           \/ api[s].job = "running" /\ to("queued")
           \/ api[s].job = "running" /\ api[s].row = "source_submitted"
              /\ api' = [api EXCEPT ![s] = [@ EXCEPT !.job = "failed",
                                                     !.row = "failed_recoverable"]]
        /\ UNCHANGED <<page, send, req, burn>>

\* The deposit, or the settlement, by the relayer or by anybody else.
SeeFunded(s) ==
    /\ burn[s] = "confirmed" /\ api[s].row # "funded"
    /\ api' = [api EXCEPT ![s].row = "funded"]
    /\ UNCHANGED <<page, send, req, burn>>

World(s) == Mine(s) \/ Relay(s) \/ SeeFunded(s) \/ \E n \in 1..Attempts : Handler(s, n)

SendNext == User \/ \E s \in Sends : RunStep(s) \/ World(s)

SendSpec == SendInit /\ [][SendNext]_sendVars

\* Every await of a run ends, with an answer, an error or a timeout, but for
\* the wallet's: the user answers that, or does not.
FairSendSpec == SendSpec /\ \A s \in Sends : WF_sendVars(RunStep(s))

-----------------------------------------------------------------------------
\* Nothing is burned before the recipient's note is stored, so that a browser
\* that dies right after the burn takes nothing with it.
BurnHasNote == \A s \in Sends : burn[s] # "none" => api[s].note

\* A run that recorded its hash first and was not cancelled does not end
\* without the hash: the API has it, or the sender has been shown it.
HashIsKept ==
    \A s \in Sends :
        /\ burn[s] # "none" /\ send[s].pc = "failed"
        /\ RecordsFirst(s) /\ send[s].op # "cancelled"
        => api[s].hash \/ send[s].told

\* What the browser takes for recorded, and what the idempotency key will
\* answer from now on, has its hash in the row and, when a relayer is needed,
\* a job: also when an earlier attempt broke off between the two.
RecordedIsQueued ==
    \A s \in Sends :
        send[s].recorded \/ api[s].key =>
            api[s].hash /\ (CrossChain(s) => api[s].job # "none")

\* A job that is done is done: an attempt whose answer was lost, or that
\* arrives late, does not put it back into the queue.
DoneStaysDone ==
    [][\A s \in Sends : api[s].job = "succeeded" => api'[s].job = "succeeded"]_sendVars

\* The form comes back to its user, unless a wallet prompt is still open.
FormComesBack == page.busy ~> ~page.busy \/ \E s \in Sends : send[s].pc = "wallet"
=============================================================================
