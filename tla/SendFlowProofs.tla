--------------------------- MODULE SendFlowProofs ---------------------------
(***************************************************************************)
(* Theorems about SendFlow for any number of runs of the form and any      *)
(* number of attempts to record a burn: types, that no burn is without its *)
(* note, that a recorded burn is queued, and that a done job stays done.   *)
(***************************************************************************)
EXTENDS SendFlow, TLAPS

-----------------------------------------------------------------------------
(* Types. *)

PageType == [mode: Modes, open: BOOLEAN, busy: BOOLEAN, stage: {"idle", "working", "complete"},
             pending: Sends \cup {None}, active: Sends \cup {None}]
RunType == [pc: SendPCs, route: Routes, op: {"none", "active", "cancelled", "finished"},
            attached: BOOLEAN, attempt: 0..Attempts, recorded: BOOLEAN, told: BOOLEAN]
RowType == [row: {"none", "draft", "quoted", "source_submitted", "funded", "failed_recoverable"},
            note: BOOLEAN, hash: BOOLEAN, key: BOOLEAN,
            job: {"none", "queued", "running", "succeeded", "failed"}]
HandlerPCs == {"none", "lookup", "mark", "enqueue", "save", "ok", "error"}
BurnStates == {"none", "broadcast", "confirmed", "reverted"}

\* SendTypeOK with its record types named, in the state before a step and after it.
LEMMA TypeOKUnfolded ==
    /\ SendTypeOK <=> /\ page \in PageType /\ send \in [Sends -> RunType]
                  /\ api \in [Sends -> RowType]
                  /\ req \in [Sends -> [1..Attempts -> HandlerPCs]]
                  /\ burn \in [Sends -> BurnStates]
    /\ SendTypeOK' <=> /\ page' \in PageType /\ send' \in [Sends -> RunType]
                   /\ api' \in [Sends -> RowType]
                   /\ req' \in [Sends -> [1..Attempts -> HandlerPCs]]
                   /\ burn' \in [Sends -> BurnStates]
  BY DEF SendTypeOK, PageType, RunType, RowType, HandlerPCs, BurnStates

LEMMA BlankType == ASSUME NEW mode \in Modes PROVE Blank(mode) \in PageType
  BY DEF Blank, PageType

LEMMA RunTypeKept ==
    ASSUME NEW r \in RunType
    PROVE  /\ \A pc \in SendPCs : [r EXCEPT !.pc = pc] \in RunType
           /\ \A op \in {"none", "active", "cancelled", "finished"} :
                 [r EXCEPT !.op = op] \in RunType
           /\ \A route \in Routes : [r EXCEPT !.route = route] \in RunType
           /\ \A attempt \in 0..Attempts : [r EXCEPT !.attempt = attempt] \in RunType
           /\ [r EXCEPT !.attached = TRUE] \in RunType
           /\ [r EXCEPT !.attached = FALSE] \in RunType
           /\ [r EXCEPT !.recorded = TRUE] \in RunType
           /\ [r EXCEPT !.told = TRUE] \in RunType
  BY DEF RunType

LEMMA FinishedType ==
    ASSUME NEW r \in RunType, NEW pc \in SendPCs
    PROVE  Finished(r, pc) \in RunType
  <1> DEFINE one == [r EXCEPT !.pc = pc]
  <1>1. one \in RunType
    BY RunTypeKept
  <1> HIDE DEF one
  <1>2. [one EXCEPT !.op = IF @ = "active" THEN "finished" ELSE @] \in RunType
    BY <1>1 DEF RunType
  <1>3. QED
    BY <1>2 DEF Finished, one

\* What a run does to the form keeps it well typed.
LEMMA StagedType == ASSUME SendTypeOK, NEW s \in Sends PROVE Staged(s) \in PageType
  BY TypeOKUnfolded DEF Staged, OnPage, PageType

LEMMA ContinueType ==
    ASSUME SendTypeOK, NEW s \in Sends, NEW pc \in SendPCs, GoOn(s, pc)
    PROVE  send' \in [Sends -> RunType]
  BY TypeOKUnfolded DEF GoOn, RunType

LEMMA FailType ==
    ASSUME SendTypeOK, NEW s \in Sends, Fail(s)
    PROVE  send' \in [Sends -> RunType] /\ page' \in PageType
  <1>1. send' \in [Sends -> RunType]
    <2>1. send' = [send EXCEPT ![s] = Finished(send[s], "failed")]
      BY DEF Fail, Finished
    <2>2. Finished(send[s], "failed") \in RunType
      BY FinishedType, TypeOKUnfolded DEF SendPCs, Ended
    <2>3. QED
      BY <2>1, <2>2, TypeOKUnfolded
  <1>2. page' \in PageType
    BY TypeOKUnfolded DEF Fail, OnPage, PageType
  <1>3. QED
    BY <1>1, <1>2

LEMMA SucceedType ==
    ASSUME SendTypeOK, NEW s \in Sends, Succeed(s)
    PROVE  send' \in [Sends -> RunType] /\ page' \in PageType
  <1>1. CASE page.mode = "mainnet" /\ send[s].op = "cancelled"
    BY <1>1, FailType DEF Succeed
  <1>2. CASE ~(page.mode = "mainnet" /\ send[s].op = "cancelled")
    <2>1. send' \in [Sends -> RunType]
      <3>1. send' = [send EXCEPT ![s] = Finished(send[s], "sent")]
        BY <1>2 DEF Succeed, Finished
      <3>2. Finished(send[s], "sent") \in RunType
        BY FinishedType, TypeOKUnfolded DEF SendPCs, Ended
      <3>3. QED
        BY <3>1, <3>2, TypeOKUnfolded
    <2>2. page' \in PageType
      BY <1>2, TypeOKUnfolded DEF Succeed, OnPage, PageType
    <2>3. QED
      BY <2>1, <2>2
  <1>3. QED
    BY <1>1, <1>2

LEMMA StartRecordingType ==
    ASSUME SendTypeOK, NEW s \in Sends, StartRecording(s)
    PROVE  /\ send' \in [Sends -> RunType] /\ page' \in PageType
           /\ req' \in [Sends -> [1..Attempts -> HandlerPCs]]
  <1>1. 1 \in 1..Attempts /\ 1 \in 0..Attempts
    BY SendFlowAssumption
  <1>2. req' \in [Sends -> [1..Attempts -> HandlerPCs]]
    BY <1>1, TypeOKUnfolded DEF StartRecording, HandlerPCs
  <1>3. send' \in [Sends -> RunType]
    <2> DEFINE one == [send[s] EXCEPT !.pc = "record"]
               two == [one EXCEPT !.attempt = 1]
               three == [two EXCEPT !.told = TRUE]
    <2>1. one \in RunType
      BY RunTypeKept, TypeOKUnfolded DEF SendPCs
    <2>2. two \in RunType
      BY <1>1, <2>1, RunTypeKept
    <2>3. three \in RunType
      BY <2>2, RunTypeKept
    <2>4. send' = [send EXCEPT ![s] = three]
      BY DEF StartRecording
    <2> HIDE DEF three
    <2>5. QED
      BY <2>3, <2>4, TypeOKUnfolded
  <1>4. page' \in PageType
    BY TypeOKUnfolded DEF StartRecording, OnPage, PageType
  <1>5. QED
    BY <1>2, <1>3, <1>4

LEMMA MarkedType == ASSUME NEW r \in RowType PROVE Marked(r) \in RowType
  <1> DEFINE one == [r EXCEPT !.hash = TRUE]
  <1>1. one \in RowType
    BY DEF RowType
  <1> HIDE DEF one
  <1>2. [one EXCEPT !.row = IF @ = "quoted" THEN "source_submitted" ELSE @] \in RowType
    BY <1>1 DEF RowType
  <1>3. QED
    BY <1>2 DEF Marked, one

LEMMA PrepareType ==
    ASSUME SendTypeOK, NEW s \in Sends, NEW pc, NEW next \in SendPCs, NEW done \in [Sends -> RowType],
           Prepare(s, pc, next, done)
    PROVE  SendTypeOK'
  <1>1. api' \in [Sends -> RowType]
    BY TypeOKUnfolded DEF Prepare
  <1>2. send' \in [Sends -> RunType] /\ page' \in PageType
    BY ContinueType, StagedType, FailType DEF Prepare
  <1>3. QED
    BY <1>1, <1>2, TypeOKUnfolded DEF Prepare

LEMMA RunStepType ==
    ASSUME SendTypeOK, NEW s \in Sends, RunStep(s)
    PROVE  SendTypeOK'
  <1>1. CASE Sync(s)
    BY <1>1, ContinueType, StagedType, FailType, TypeOKUnfolded DEF Sync, SendPCs, Calls
  <1>2. CASE CreateIntent(s) \/ SignQuote(s) \/ Deliver(s)
    <2>1. "quote" \in SendPCs /\ "deliver" \in SendPCs /\ "wallet" \in SendPCs
      BY DEF SendPCs, Calls
    <2>2. CASE CreateIntent(s)
      <3> DEFINE done == [api EXCEPT ![s].row = "draft"]
      <3>1. done \in [Sends -> RowType]
        BY TypeOKUnfolded DEF RowType
      <3>2. Prepare(s, "create", "quote", done)
        BY <2>2 DEF CreateIntent
      <3> HIDE DEF done
      <3>3. QED
        BY <2>1, <3>1, <3>2, PrepareType
    <2>3. CASE SignQuote(s)
      <3> DEFINE done == [api EXCEPT ![s].row = "quoted"]
      <3>1. done \in [Sends -> RowType]
        BY TypeOKUnfolded DEF RowType
      <3>2. Prepare(s, "quote", "deliver", done)
        BY <2>3 DEF SignQuote
      <3> HIDE DEF done
      <3>3. QED
        BY <2>1, <3>1, <3>2, PrepareType
    <2>4. CASE Deliver(s)
      <3> DEFINE done == [api EXCEPT ![s].note = TRUE]
      <3>1. done \in [Sends -> RowType]
        BY TypeOKUnfolded DEF RowType
      <3>2. Prepare(s, "deliver", "wallet", done)
        BY <2>4 DEF Deliver
      <3> HIDE DEF done
      <3>3. QED
        BY <2>1, <3>1, <3>2, PrepareType
    <2>5. QED
      BY <1>2, <2>2, <2>3, <2>4
  <1>3. CASE Recorded(s)
    <2> DEFINE one == [send[s] EXCEPT !.pc = AfterRecord(s)]
               two == [one EXCEPT !.recorded = TRUE]
    <2>1. one \in RunType
      BY RunTypeKept, TypeOKUnfolded DEF AfterRecord, SendPCs
    <2>2. two \in RunType
      BY <2>1, RunTypeKept
    <2>3. send' = [send EXCEPT ![s] = two]
      BY <1>3 DEF Recorded
    <2> HIDE DEF two
    <2>4. QED
      BY <1>3, <2>2, <2>3, StagedType, TypeOKUnfolded DEF Recorded
  <1>4. CASE AttemptFails(s)
    <2> DEFINE n == send[s].attempt + 1
    <2>1. CASE n > Attempts
      <3>1. n \in Nat /\ Attempts \in Nat
        BY SendFlowAssumption, TypeOKUnfolded DEF RunType
      <3>2. Fail(s) /\ UNCHANGED <<req, api, burn>>
        BY <1>4, <2>1, <3>1 DEF AttemptFails
      <3>3. QED
        BY <3>2, FailType, TypeOKUnfolded
    <2>2. CASE n <= Attempts
      <3>1. n \in 1..Attempts /\ n \in 0..Attempts
        BY <2>2, SendFlowAssumption, TypeOKUnfolded DEF RunType
      <3>2. PICK arrival \in {"lookup", "error"} : req' = [req EXCEPT ![s][n] = arrival]
        BY <1>4, <2>2 DEF AttemptFails
      <3>3. send' = [send EXCEPT ![s].attempt = n] /\ UNCHANGED <<page, api, burn>>
        BY <1>4, <2>2 DEF AttemptFails
      <3> HIDE DEF n
      <3>4. req' \in [Sends -> [1..Attempts -> HandlerPCs]]
        BY <3>1, <3>2, TypeOKUnfolded DEF HandlerPCs
      <3>5. send[s] \in RunType
        BY TypeOKUnfolded
      <3>6. [send[s] EXCEPT !.attempt = n] \in RunType
        BY <3>1, <3>5, RunTypeKept
      <3>7. send' \in [Sends -> RunType]
        BY <3>3, <3>6, TypeOKUnfolded
      <3>8. QED
        BY <3>3, <3>4, <3>7, TypeOKUnfolded
    <2>3. QED
      <3>1. n \in Nat /\ Attempts \in Nat
        BY SendFlowAssumption, TypeOKUnfolded DEF RunType
      <3>2. QED
        BY <2>1, <2>2, <3>1
  <1>5. CASE Confirm(s)
    <2>1. CASE StartRecording(s)
      BY <1>5, <2>1, StartRecordingType, TypeOKUnfolded DEF Confirm
    <2>2. CASE ~StartRecording(s)
      <3>1. UNCHANGED <<api, burn, req>>
            /\ (Fail(s) \/ (GoOn(s, "wait") /\ page' = Staged(s)))
        BY <1>5, <2>2 DEF Confirm
      <3>2. QED
        BY <3>1, ContinueType, StagedType, FailType, TypeOKUnfolded DEF SendPCs
    <2>3. QED
      BY <2>1, <2>2
  <1>6. CASE WaitForEscrow(s)
    BY <1>6, SucceedType, FailType, TypeOKUnfolded DEF WaitForEscrow
  <1>7. QED
    BY <1>1, <1>2, <1>3, <1>4, <1>5, <1>6 DEF RunStep

LEMMA HandlerType ==
    ASSUME SendTypeOK, NEW s \in Sends, NEW n \in 1..Attempts, Handler(s, n)
    PROVE  SendTypeOK'
  <1>1. \A to \in HandlerPCs : [req EXCEPT ![s][n] = to] \in [Sends -> [1..Attempts -> HandlerPCs]]
    BY TypeOKUnfolded
  <1>2. req' \in [Sends -> [1..Attempts -> HandlerPCs]]
    BY <1>1 DEF Handler, Lookup, Mark, Enqueue, Save, Break, Handle, HandlerPCs
  <1>3. Marked(api[s]) \in RowType
    BY MarkedType, TypeOKUnfolded
  <1>4. api' \in [Sends -> RowType]
    <2>1. CASE Mark(s, n)
      BY <1>3, <2>1, TypeOKUnfolded DEF Mark
    <2>2. CASE Lookup(s, n) \/ Break(s, n)
      BY <2>2, TypeOKUnfolded DEF Lookup, Break
    <2>3. CASE Enqueue(s, n)
      BY <2>3, TypeOKUnfolded DEF Enqueue, RowType
    <2>4. CASE Save(s, n)
      BY <2>4, TypeOKUnfolded DEF Save, RowType
    <2>5. QED
      BY <2>1, <2>2, <2>3, <2>4 DEF Handler
  <1>5. QED
    BY <1>2, <1>4, TypeOKUnfolded DEF Handler

LEMMA WorldType ==
    ASSUME SendTypeOK, NEW s \in Sends, World(s)
    PROVE  SendTypeOK'
  <1>1. CASE Mine(s)
    BY <1>1, TypeOKUnfolded DEF Mine, BurnStates
  <1>2. CASE Relay(s)
    <2>1. api' \in [Sends -> RowType]
      <3>1. \A job \in {"queued", "running", "succeeded", "failed"} :
               [api EXCEPT ![s].job = job] \in [Sends -> RowType]
        BY TypeOKUnfolded DEF RowType
      <3>2. [api EXCEPT ![s] = [@ EXCEPT !.job = "failed", !.row = "failed_recoverable"]]
               \in [Sends -> RowType]
        BY TypeOKUnfolded DEF RowType
      <3>3. QED
        BY <1>2, <3>1, <3>2 DEF Relay
    <2>2. QED
      BY <1>2, <2>1, TypeOKUnfolded DEF Relay
  <1>3. CASE SeeFunded(s)
    BY <1>3, TypeOKUnfolded DEF SeeFunded, RowType
  <1>4. QED
    BY <1>1, <1>2, <1>3, HandlerType DEF World

LEMMA UserType ==
    ASSUME SendTypeOK, User
    PROVE  SendTypeOK'
  <1>1. ASSUME NEW s \in Sends, NEW route \in Routes, Click(s, route)
        PROVE  SendTypeOK'
    <2> DEFINE one == [send[s] EXCEPT !.pc = "sync"]
               two == [one EXCEPT !.route = route]
               three == [two EXCEPT !.op = "active"]
               four == [three EXCEPT !.attached = TRUE]
    <2>1. one \in RunType
      BY RunTypeKept, TypeOKUnfolded DEF SendPCs, Calls
    <2>2. two \in RunType
      BY <2>1, RunTypeKept
    <2>3. three \in RunType
      BY <2>2, RunTypeKept
    <2>4. four \in RunType
      BY <2>3, RunTypeKept
    <2>5. send' = [send EXCEPT ![s] = four]
      BY <1>1 DEF Click
    <2> HIDE DEF four
    <2>6. page' \in PageType
      BY <1>1, TypeOKUnfolded DEF Click, PageType
    <2>7. QED
      BY <1>1, <2>4, <2>5, <2>6, TypeOKUnfolded DEF Click
  <1>2. ASSUME NEW s \in Sends, Approve(s)
        PROVE  SendTypeOK'
    <2>1. burn' \in [Sends -> BurnStates]
      BY <1>2, TypeOKUnfolded DEF Approve, BurnStates
    <2>2. CASE RecordsFirst(s)
      BY <1>2, <2>1, <2>2, StartRecordingType, TypeOKUnfolded DEF Approve
    <2>3. CASE ~RecordsFirst(s)
      BY <1>2, <2>1, <2>3, ContinueType, StagedType, TypeOKUnfolded DEF Approve, SendPCs
    <2>4. QED
      BY <2>2, <2>3
  <1>3. ASSUME NEW s \in Sends, Reject(s)
        PROVE  SendTypeOK'
    BY <1>3, FailType, TypeOKUnfolded DEF Reject
  <1>4. CASE unlockAfterReadyClosed
    <2>1. page.active \in Sends
      BY <1>4, TypeOKUnfolded DEF unlockAfterReadyClosed, PageType
    <2>2. send' \in [Sends -> RunType]
      BY <1>4, <2>1, RunTypeKept, TypeOKUnfolded DEF unlockAfterReadyClosed
    <2>3. page' \in PageType
      BY <1>4, TypeOKUnfolded DEF unlockAfterReadyClosed, PageType
    <2>4. QED
      BY <1>4, <2>2, <2>3, TypeOKUnfolded DEF unlockAfterReadyClosed
  <1>5. CASE Dismiss \/ SendAnother
    <2>1. page' \in PageType
      BY <1>5, TypeOKUnfolded DEF Dismiss, SendAnother, PageType
    <2>2. QED
      BY <1>5, <2>1, TypeOKUnfolded DEF Dismiss, SendAnother
  <1>6. Unmount \in [Sends -> RunType]
    BY TypeOKUnfolded DEF Unmount, RunType
  <1>7. CASE LeavePage
    <2>1. page.mode \in Modes
      BY TypeOKUnfolded DEF PageType
    <2>2. QED
      BY <1>6, <1>7, <2>1, BlankType, TypeOKUnfolded DEF LeavePage
  <1>8. CASE SwitchNetwork
    BY <1>6, <1>8, BlankType, TypeOKUnfolded DEF SwitchNetwork
  <1>9. CASE CloseTab
    <2>1. page' \in PageType
      BY <1>9, TypeOKUnfolded DEF CloseTab, Blank, PageType
    <2>2. \A s \in Sends : [send[s] EXCEPT !.pc = "gone"] \in RunType
      BY RunTypeKept, TypeOKUnfolded DEF SendPCs, Ended
    <2>3. send' \in [Sends -> RunType]
      BY <1>9, <2>2, TypeOKUnfolded DEF CloseTab
    <2>4. QED
      BY <1>9, <2>1, <2>3, TypeOKUnfolded DEF CloseTab
  <1>10. QED
    BY <1>1, <1>2, <1>3, <1>4, <1>5, <1>7, <1>8, <1>9 DEF User

LEMMA InitType == SendInit => SendTypeOK
  <1> SUFFICES ASSUME SendInit PROVE SendTypeOK
    OBVIOUS
  <1>1. page \in PageType
    BY BlankType DEF SendInit
  <1>2. send \in [Sends -> RunType]
    BY SendFlowAssumption DEF SendInit, RunType, SendPCs
  <1>3. api \in [Sends -> RowType] /\ req \in [Sends -> [1..Attempts -> HandlerPCs]]
        /\ burn \in [Sends -> BurnStates]
    BY DEF SendInit, RowType, HandlerPCs, BurnStates
  <1>4. QED
    BY <1>1, <1>2, <1>3, TypeOKUnfolded

LEMMA NextType == SendTypeOK /\ [SendNext]_sendVars => SendTypeOK'
  <1>1. SendTypeOK /\ UNCHANGED sendVars => SendTypeOK'
    BY TypeOKUnfolded DEF sendVars
  <1>2. QED
    BY <1>1, UserType, RunStepType, WorldType DEF SendNext

\* Every variable keeps to its type.
THEOREM TypeCorrect == SendSpec => []SendTypeOK
  BY InitType, NextType, PTL DEF SendSpec

-----------------------------------------------------------------------------
(* What a step does to one run: most go on with it and touch nothing else. *)

NotedPCs == {"wallet", "record", "confirm", "wait"}
Queued(s) == api[s].hash /\ (CrossChain(s) => api[s].job # "none")

\* The strengthening of BurnHasNote, RecordedIsQueued and HashIsKept: what the
\* handlers of an attempt have done by the statement they are at, what a run
\* has done by its own, and that nothing has happened to an idle one, whose
\* source may still change.
RunInv(s) ==
    /\ send[s].pc = "idle" => /\ burn[s] = "none" /\ ~api[s].key /\ ~send[s].recorded
                             /\ \A n \in 1..Attempts : req[s][n] = "none"
    /\ \A n \in 1..Attempts : /\ req[s][n] = "enqueue" => api[s].hash
                              /\ req[s][n] \in {"save", "ok"} => Queued(s)
    /\ send[s].recorded \/ api[s].key => Queued(s)
    /\ send[s].pc \in NotedPCs \/ burn[s] # "none" => api[s].note
    /\ RecordsFirst(s) /\ burn[s] # "none" => send[s].told
    /\ send[s].pc = "record" => send[s].attempt \in 1..Attempts

GoesOn(s) ==
    /\ send'[s].route = send[s].route /\ send'[s].told = send[s].told
    /\ send'[s].recorded = send[s].recorded
    /\ api'[s].hash = api[s].hash /\ api'[s].key = api[s].key /\ api'[s].job = api[s].job
    /\ api[s].note => api'[s].note
    /\ req'[s] = req[s] /\ burn'[s] = burn[s]
    /\ send'[s].pc = "record" => /\ send[s].pc = "record"
                                /\ send'[s].attempt = send[s].attempt
    /\ \/ send'[s].pc = send[s].pc
       \/ /\ send[s].pc # "idle" /\ send'[s].pc # "idle"
          /\ send'[s].pc \in NotedPCs => api'[s].note

LEMMA GoesOnKeeps ==
    ASSUME NEW s \in Sends, RunInv(s), GoesOn(s)
    PROVE  RunInv(s)'
  BY DEF RunInv, GoesOn, Queued, CrossChain, RecordsFirst

Alone(s) == \A o \in Sends \ {s} : /\ send'[o] = send[o] /\ api'[o] = api[o]
                                    /\ req'[o] = req[o] /\ burn'[o] = burn[o]

LEMMA AloneGoesOn ==
    ASSUME NEW s \in Sends, Alone(s)
    PROVE  \A o \in Sends \ {s} : GoesOn(o)
  BY DEF Alone, GoesOn

LEMMA RunFields ==
    ASSUME NEW r \in RunType, NEW pc \in SendPCs
    PROVE  /\ Finished(r, pc).pc = pc /\ Finished(r, pc).route = r.route
           /\ Finished(r, pc).told = r.told /\ Finished(r, pc).recorded = r.recorded
  BY DEF Finished, RunType

LEMMA EndGoesOn ==
    ASSUME SendTypeOK, NEW s \in Sends, Fail(s) \/ Succeed(s)
    PROVE  /\ \A o \in Sends \ {s} : send'[o] = send[o]
           /\ send'[s].pc \in {"failed", "sent"} /\ send'[s].route = send[s].route
           /\ send'[s].told = send[s].told /\ send'[s].recorded = send[s].recorded
  <1>1. PICK pc \in {"failed", "sent"} : send' = [send EXCEPT ![s] = Finished(send[s], pc)]
    BY DEF Fail, Succeed
  <1>2. pc \in SendPCs /\ send[s] \in RunType
    BY TypeOKUnfolded DEF SendPCs, Ended
  <1>3. send'[s] = Finished(send[s], pc)
    BY <1>1, TypeOKUnfolded
  <1>4. \A o \in Sends \ {s} : send'[o] = send[o]
    BY <1>1, TypeOKUnfolded
  <1>5. QED
    BY <1>2, <1>3, <1>4, RunFields

LEMMA ContinueGoesOn ==
    ASSUME SendTypeOK, NEW s \in Sends, NEW pc, GoOn(s, pc)
    PROVE  /\ \A o \in Sends \ {s} : send'[o] = send[o]
           /\ send'[s].pc = pc /\ send'[s].route = send[s].route
           /\ send'[s].told = send[s].told /\ send'[s].recorded = send[s].recorded
  <1>1. send' = [send EXCEPT ![s] = [send[s] EXCEPT !.pc = pc]]
    BY DEF GoOn
  <1>2. send'[s] = [send[s] EXCEPT !.pc = pc] /\ \A o \in Sends \ {s} : send'[o] = send[o]
    BY <1>1, TypeOKUnfolded
  <1>3. send[s] \in RunType
    BY TypeOKUnfolded
  <1>4. QED
    BY <1>2, <1>3 DEF RunType

LEMMA PrepareGoesOn ==
    ASSUME SendTypeOK, NEW s \in Sends, NEW pc, NEW next, NEW done,
           Prepare(s, pc, next, done), pc # "idle", next \notin {"idle", "record"},
           \A o \in Sends \ {s} : done[o] = api[o],
           /\ done[s].hash = api[s].hash /\ done[s].key = api[s].key
           /\ done[s].job = api[s].job /\ (api[s].note => done[s].note),
           next \in NotedPCs => done[s].note
    PROVE  \A o \in Sends : GoesOn(o)
  <1>1. Alone(s)
    BY EndGoesOn, ContinueGoesOn DEF Prepare, Alone
  <1>2. GoesOn(s)
    <2>1. send[s].pc # "idle" /\ UNCHANGED <<req, burn>>
      BY DEF Prepare
    <2>2. CASE api' = done /\ GoOn(s, next)
      <3>1. /\ send'[s].pc = next /\ send'[s].route = send[s].route
            /\ send'[s].told = send[s].told /\ send'[s].recorded = send[s].recorded
        BY <2>2, ContinueGoesOn
      <3>2. QED
        BY <2>1, <2>2, <3>1 DEF GoesOn
    <2>3. CASE api' \in {api, done} /\ Fail(s)
      <3>1. /\ send'[s].pc \in {"failed", "sent"} /\ send'[s].route = send[s].route
            /\ send'[s].told = send[s].told /\ send'[s].recorded = send[s].recorded
        BY <2>3, EndGoesOn
      <3>2. QED
        BY <2>1, <2>3, <3>1 DEF GoesOn, NotedPCs
    <2>4. QED
      BY <2>2, <2>3 DEF Prepare
  <1>3. QED
    BY <1>1, <1>2, AloneGoesOn

-----------------------------------------------------------------------------
(* The steps that do more, each seen from the run it is about. *)

AllInv == \A s \in Sends : RunInv(s)

\* The burn is broadcast, or confirmed, and its hash is sent for the first time.
LEMMA StartRecordingStep ==
    ASSUME SendTypeOK, NEW s \in Sends, RunInv(s), StartRecording(s), UNCHANGED api,
           send[s].pc \in {"wallet", "confirm"}, \A o \in Sends \ {s} : burn'[o] = burn[o]
    PROVE  RunInv(s)' /\ Alone(s)
  <1> DEFINE one == [send[s] EXCEPT !.pc = "record"]
             two == [one EXCEPT !.attempt = 1]
             three == [two EXCEPT !.told = TRUE]
  <1>1. send[s] \in RunType /\ 1 \in 1..Attempts
    BY TypeOKUnfolded, SendFlowAssumption
  <1>2. /\ three.pc = "record" /\ three.route = send[s].route /\ three.told = TRUE
        /\ three.recorded = send[s].recorded /\ three.attempt = 1
    BY <1>1 DEF RunType
  <1>3. send' = [send EXCEPT ![s] = three]
    BY DEF StartRecording
  <1> HIDE DEF three
  <1>4. send'[s] = three /\ \A o \in Sends \ {s} : send'[o] = send[o]
    BY <1>3, TypeOKUnfolded
  <1>5. PICK arrival \in {"lookup", "error"} : req' = [req EXCEPT ![s][1] = arrival]
    BY DEF StartRecording
  <1>6. /\ \A o \in Sends \ {s} : req'[o] = req[o]
        /\ \A n \in 1..Attempts : req'[s][n] = req[s][n] \/ req'[s][n] \in {"lookup", "error"}
    BY <1>5, TypeOKUnfolded
  <1>7. Alone(s)
    BY <1>4, <1>6 DEF Alone
  <1>8. RunInv(s)'
    BY <1>1, <1>2, <1>4, <1>6 DEF RunInv, Queued, CrossChain, RecordsFirst, NotedPCs
  <1>9. QED
    BY <1>7, <1>8

LEMMA RunStepKeeps ==
    ASSUME SendTypeOK, AllInv, NEW s \in Sends, RunStep(s)
    PROVE  AllInv'
  <1> USE DEF AllInv
  <1>1. ASSUME \A o \in Sends : GoesOn(o)
        PROVE  AllInv'
    BY <1>1, GoesOnKeeps
  <1>2. ASSUME RunInv(s)', Alone(s)
        PROVE  AllInv'
    BY <1>2, AloneGoesOn, GoesOnKeeps
  <1>3. CASE Sync(s)
    <2>1. \A o \in Sends : GoesOn(o)
      <3>1. CASE GoOn(s, "create")
        BY <1>3, <3>1, ContinueGoesOn DEF Sync, GoesOn, NotedPCs
      <3>2. CASE Fail(s)
        BY <1>3, <3>2, EndGoesOn DEF Sync, GoesOn, NotedPCs
      <3>3. QED
        BY <1>3, <3>1, <3>2 DEF Sync
    <2>2. QED
      BY <1>1, <2>1
  <1>4. CASE CreateIntent(s)
    <2> DEFINE done == [api EXCEPT ![s].row = "draft"]
    <2>1. /\ \A o \in Sends \ {s} : done[o] = api[o]
          /\ done[s].hash = api[s].hash /\ done[s].key = api[s].key
          /\ done[s].job = api[s].job /\ done[s].note = api[s].note
      BY TypeOKUnfolded DEF RowType
    <2>2. Prepare(s, "create", "quote", done)
      BY <1>4 DEF CreateIntent
    <2> HIDE DEF done
    <2>3. QED
      BY <1>1, <2>1, <2>2, PrepareGoesOn DEF NotedPCs
  <1>5. CASE SignQuote(s)
    <2> DEFINE done == [api EXCEPT ![s].row = "quoted"]
    <2>1. /\ \A o \in Sends \ {s} : done[o] = api[o]
          /\ done[s].hash = api[s].hash /\ done[s].key = api[s].key
          /\ done[s].job = api[s].job /\ done[s].note = api[s].note
      BY TypeOKUnfolded DEF RowType
    <2>2. Prepare(s, "quote", "deliver", done)
      BY <1>5 DEF SignQuote
    <2> HIDE DEF done
    <2>3. QED
      BY <1>1, <2>1, <2>2, PrepareGoesOn DEF NotedPCs
  <1>6. CASE Deliver(s)
    <2> DEFINE done == [api EXCEPT ![s].note = TRUE]
    <2>1. /\ \A o \in Sends \ {s} : done[o] = api[o]
          /\ done[s].hash = api[s].hash /\ done[s].key = api[s].key
          /\ done[s].job = api[s].job /\ done[s].note = TRUE
      BY TypeOKUnfolded DEF RowType
    <2>2. Prepare(s, "deliver", "wallet", done)
      BY <1>6 DEF Deliver
    <2> HIDE DEF done
    <2>3. QED
      BY <1>1, <2>1, <2>2, PrepareGoesOn DEF NotedPCs
  <1>7. CASE Recorded(s)
    <2> DEFINE one == [send[s] EXCEPT !.pc = AfterRecord(s)]
               two == [one EXCEPT !.recorded = TRUE]
    <2>1. send[s] \in RunType /\ send[s].attempt \in 0..Attempts
          /\ AfterRecord(s) \in {"confirm", "wait"}
      BY TypeOKUnfolded DEF RunType, AfterRecord
    <2>2. /\ two.pc \in {"confirm", "wait"} /\ two.route = send[s].route
          /\ two.told = send[s].told /\ two.recorded = TRUE
      BY <2>1 DEF RunType
    <2>3. send' = [send EXCEPT ![s] = two]
      BY <1>7 DEF Recorded
    <2> HIDE DEF two
    <2>4. send'[s] = two /\ \A o \in Sends \ {s} : send'[o] = send[o]
      BY <2>3, TypeOKUnfolded
    <2>5. Queued(s)
      <3>1. req[s][send[s].attempt] = "ok" /\ req[s] \in [1..Attempts -> HandlerPCs]
        BY <1>7, TypeOKUnfolded DEF Recorded
      <3>2. send[s].attempt \in 1..Attempts
        BY <1>7 DEF Recorded, RunInv
      <3>3. QED
        BY <3>1, <3>2 DEF RunInv
    <2>6. RunInv(s)'
      BY <1>7, <2>2, <2>4, <2>5 DEF Recorded, RunInv, Queued, CrossChain, RecordsFirst, NotedPCs
    <2>7. Alone(s)
      BY <1>7, <2>4 DEF Recorded, Alone
    <2>8. QED
      BY <1>2, <2>6, <2>7
  <1>8. CASE AttemptFails(s)
    <2> DEFINE n == send[s].attempt + 1
    <2>1. n \in Nat /\ Attempts \in Nat /\ send[s] \in RunType /\ send[s].attempt \in 1..Attempts
      BY <1>8, SendFlowAssumption, TypeOKUnfolded DEF RunType, AttemptFails, RunInv
    <2>2. CASE n > Attempts
      <3>1. Fail(s) /\ UNCHANGED <<req, api, burn>>
        BY <1>8, <2>1, <2>2 DEF AttemptFails
      <3>2. \A o \in Sends : GoesOn(o)
        BY <1>8, <3>1, EndGoesOn DEF AttemptFails, GoesOn, NotedPCs
      <3>3. QED
        BY <1>1, <3>2
    <2>3. CASE n <= Attempts
      <3>1. n \in 1..Attempts
        BY <2>1, <2>3
      <3>2. PICK arrival \in {"lookup", "error"} : req' = [req EXCEPT ![s][n] = arrival]
        BY <1>8, <2>3 DEF AttemptFails
      <3>3. send' = [send EXCEPT ![s] = [send[s] EXCEPT !.attempt = n]] /\ UNCHANGED <<api, burn>>
        BY <1>8, <2>3 DEF AttemptFails
      <3> HIDE DEF n
      <3>4. /\ \A o \in Sends \ {s} : send'[o] = send[o]
            /\ send'[s] = [send[s] EXCEPT !.attempt = n]
        BY <3>3, TypeOKUnfolded
      <3>5. /\ send'[s].pc = "record" /\ send'[s].route = send[s].route
            /\ send'[s].told = send[s].told /\ send'[s].recorded = send[s].recorded
            /\ send'[s].attempt = n
        BY <1>8, <2>1, <3>4 DEF AttemptFails, RunType
      <3>6. /\ \A o \in Sends \ {s} : req'[o] = req[o]
            /\ \A k \in 1..Attempts : req'[s][k] = req[s][k] \/ req'[s][k] \in {"lookup", "error"}
        BY <3>2, TypeOKUnfolded
      <3>7. RunInv(s)'
        BY <1>8, <3>1, <3>3, <3>5, <3>6
           DEF AttemptFails, RunInv, Queued, CrossChain, RecordsFirst, NotedPCs
      <3>8. Alone(s)
        BY <3>3, <3>4, <3>6 DEF Alone
      <3>9. QED
        BY <1>2, <3>7, <3>8
    <2>4. QED
      BY <2>1, <2>2, <2>3
  <1>9. CASE Confirm(s)
    <2>1. CASE StartRecording(s)
      BY <1>2, <1>9, <2>1, StartRecordingStep DEF Confirm
    <2>2. CASE ~StartRecording(s)
      <3>1. \A o \in Sends : GoesOn(o)
        <4>1. CASE Fail(s) /\ UNCHANGED <<req, api, burn>>
          BY <1>9, <4>1, EndGoesOn DEF Confirm, GoesOn, NotedPCs
        <4>2. CASE GoOn(s, "wait") /\ UNCHANGED <<req, api, burn>>
          BY <1>9, <4>2, ContinueGoesOn DEF Confirm, GoesOn, NotedPCs, RunInv
        <4>3. QED
          BY <1>9, <2>2, <4>1, <4>2 DEF Confirm
      <3>2. QED
        BY <1>1, <3>1
    <2>3. QED
      BY <2>1, <2>2
  <1>10. CASE WaitForEscrow(s)
    <2>1. \A o \in Sends : GoesOn(o)
      BY <1>10, EndGoesOn DEF WaitForEscrow, GoesOn, NotedPCs
    <2>2. QED
      BY <1>1, <2>1
  <1>11. QED
    BY <1>3, <1>4, <1>5, <1>6, <1>7, <1>8, <1>9, <1>10 DEF RunStep

LEMMA HandlerKeeps ==
    ASSUME SendTypeOK, AllInv, NEW s \in Sends, NEW n \in 1..Attempts, Handler(s, n)
    PROVE  AllInv'
  <1>1. RunInv(s) /\ UNCHANGED <<page, send, burn>> /\ send[s].pc # "idle"
    BY DEF AllInv, Handler, RunInv, Lookup, Mark, Enqueue, Save, Break, Handle
  <1>2. api[s] \in RowType /\ \A k \in 1..Attempts : req[s][k] \in HandlerPCs
    BY TypeOKUnfolded
  <1>3. PICK to \in HandlerPCs : req' = [req EXCEPT ![s][n] = to]
    BY DEF Handler, Lookup, Mark, Enqueue, Save, Break, Handle, HandlerPCs
  <1>4. /\ req'[s][n] = to
        /\ \A k \in 1..Attempts \ {n} : req'[s][k] = req[s][k]
        /\ \A o \in Sends \ {s} : req'[o] = req[o]
    BY <1>3, TypeOKUnfolded
  <1>5. CASE Lookup(s, n) \/ Break(s, n)
    <2>1. to = "error" \/ (to = "ok" /\ api[s].key) \/ to = "mark"
      <3>1. CASE Lookup(s, n)
        <4> DEFINE answer == IF api[s].key THEN "ok" ELSE "mark"
        <4>1. req' = [req EXCEPT ![s][n] = answer]
          BY <3>1 DEF Lookup, Handle
        <4> HIDE DEF answer
        <4>2. req'[s][n] = answer
          BY <4>1, TypeOKUnfolded
        <4>3. QED
          BY <1>4, <4>2 DEF answer
      <3>2. CASE Break(s, n)
        BY <1>4, <3>2, TypeOKUnfolded DEF Break
      <3>3. QED
        BY <1>5, <3>1, <3>2
    <2>2. UNCHANGED api
      BY <1>5 DEF Lookup, Break
    <2>3. RunInv(s)' /\ Alone(s)
      BY <1>1, <1>4, <2>1, <2>2 DEF RunInv, Queued, CrossChain, RecordsFirst, Alone
    <2>4. QED
      BY <2>3, AloneGoesOn, GoesOnKeeps DEF AllInv
  <1>6. CASE Mark(s, n)
    <2>1. to = "enqueue" /\ api' = [api EXCEPT ![s] = Marked(api[s])]
      BY <1>4, <1>6, TypeOKUnfolded DEF Mark, Handle
    <2>2. /\ Marked(api[s]).hash = TRUE /\ Marked(api[s]).key = api[s].key
          /\ Marked(api[s]).job = api[s].job /\ Marked(api[s]).note = api[s].note
      BY <1>2 DEF Marked, RowType
    <2>3. api'[s] = Marked(api[s]) /\ \A o \in Sends \ {s} : api'[o] = api[o]
      BY <2>1, TypeOKUnfolded
    <2>4. RunInv(s)' /\ Alone(s)
      BY <1>1, <1>4, <2>1, <2>2, <2>3 DEF RunInv, Queued, CrossChain, RecordsFirst, Alone
    <2>5. QED
      BY <2>4, AloneGoesOn, GoesOnKeeps DEF AllInv
  <1>7. CASE Enqueue(s, n)
    <2>1. to = "save" /\ req[s][n] = "enqueue"
      BY <1>4, <1>7, TypeOKUnfolded DEF Enqueue, Handle
    <2>2. /\ api'[s].hash = api[s].hash /\ api'[s].key = api[s].key /\ api'[s].note = api[s].note
          /\ CrossChain(s) => api'[s].job # "none"
          /\ \A o \in Sends \ {s} : api'[o] = api[o]
      BY <1>2, <1>7, TypeOKUnfolded DEF Enqueue, RowType
    <2>3. RunInv(s)' /\ Alone(s)
      BY <1>1, <1>4, <2>1, <2>2 DEF RunInv, Queued, CrossChain, RecordsFirst, Alone
    <2>4. QED
      BY <2>3, AloneGoesOn, GoesOnKeeps DEF AllInv
  <1>8. CASE Save(s, n)
    <2>1. to = "ok" /\ req[s][n] = "save"
      BY <1>4, <1>8, TypeOKUnfolded DEF Save, Handle
    <2>2. /\ api'[s].hash = api[s].hash /\ api'[s].job = api[s].job /\ api'[s].note = api[s].note
          /\ \A o \in Sends \ {s} : api'[o] = api[o]
      BY <1>2, <1>8, TypeOKUnfolded DEF Save, RowType
    <2>3. RunInv(s)' /\ Alone(s)
      BY <1>1, <1>4, <2>1, <2>2 DEF RunInv, Queued, CrossChain, RecordsFirst, Alone
    <2>4. QED
      BY <2>3, AloneGoesOn, GoesOnKeeps DEF AllInv
  <1>9. QED
    BY <1>5, <1>6, <1>7, <1>8 DEF Handler

\* One job goes on to its next state, and nothing else of any row but its own.
JobMoves(s) ==
    /\ api'[s].hash = api[s].hash /\ api'[s].key = api[s].key /\ api'[s].note = api[s].note
    /\ api[s].job # "none" /\ api'[s].job # "none"
    /\ \A o \in Sends \ {s} : api'[o] = api[o]

LEMMA WorldKeeps ==
    ASSUME SendTypeOK, AllInv, NEW s \in Sends, World(s)
    PROVE  AllInv'
  <1>1. api[s] \in RowType
    BY TypeOKUnfolded
  <1>2. CASE Mine(s)
    <2>1. burn[s] = "broadcast" /\ burn'[s] \in {"confirmed", "reverted"}
          /\ (\A o \in Sends \ {s} : burn'[o] = burn[o]) /\ UNCHANGED <<send, api, req>>
      BY <1>2, TypeOKUnfolded DEF Mine
    <2>2. RunInv(s)' /\ Alone(s)
      BY <2>1 DEF AllInv, RunInv, Queued, CrossChain, RecordsFirst, Alone
    <2>3. QED
      BY <2>2, AloneGoesOn, GoesOnKeeps DEF AllInv
  <1>3. CASE Relay(s)
    <2>1. JobMoves(s)
      <3>1. ASSUME NEW job \in {"queued", "running", "succeeded"},
                   api' = [api EXCEPT ![s].job = job], api[s].job # "none"
            PROVE  JobMoves(s)
        BY <1>1, <3>1, TypeOKUnfolded DEF RowType, JobMoves
      <3> DEFINE one == [api[s] EXCEPT !.job = "failed"]
                 two == [one EXCEPT !.row = "failed_recoverable"]
      <3>2. ASSUME api' = [api EXCEPT ![s] = two], api[s].job # "none"
            PROVE  JobMoves(s)
        <4>1. /\ two.hash = api[s].hash /\ two.key = api[s].key
              /\ two.note = api[s].note /\ two.job = "failed"
          BY <1>1 DEF RowType
        <4> HIDE DEF two
        <4>2. api'[s] = two /\ \A o \in Sends \ {s} : api'[o] = api[o]
          BY <3>2, TypeOKUnfolded
        <4>3. QED
          BY <3>2, <4>1, <4>2 DEF JobMoves
      <3>3. /\ api[s].job \in {"queued", "running"}
            /\ \/ \E job \in {"queued", "running", "succeeded"} :
                     api' = [api EXCEPT ![s].job = job]
               \/ api' = [api EXCEPT ![s] = two]
        BY <1>3 DEF Relay
      <3> HIDE DEF two
      <3>4. CASE api' = [api EXCEPT ![s] = two]
        BY <3>2, <3>3, <3>4
      <3>5. CASE \E job \in {"queued", "running", "succeeded"} : api' = [api EXCEPT ![s].job = job]
        <4>1. PICK job \in {"queued", "running", "succeeded"} : api' = [api EXCEPT ![s].job = job]
          BY <3>5
        <4>2. api[s].job # "none"
          BY <3>3
        <4>3. QED
          BY <3>1, <4>1, <4>2
      <3>6. QED
        BY <3>3, <3>4, <3>5
    <2>2. RunInv(s)' /\ Alone(s)
      BY <1>3, <2>1 DEF JobMoves, Relay, AllInv, RunInv, Queued, CrossChain, RecordsFirst, Alone
    <2>3. QED
      BY <2>2, AloneGoesOn, GoesOnKeeps DEF AllInv
  <1>4. CASE SeeFunded(s)
    <2>1. \A o \in Sends : GoesOn(o)
      BY <1>1, <1>4, TypeOKUnfolded DEF SeeFunded, GoesOn, RowType
    <2>2. QED
      BY <2>1, GoesOnKeeps DEF AllInv
  <1>5. QED
    BY <1>2, <1>3, <1>4, HandlerKeeps DEF World

\* A step of the user that leaves the API and the chain alone and at most
\* abandons runs.
LEMMA QuietKeeps ==
    ASSUME AllInv, UNCHANGED <<api, req, burn>>,
           \A s \in Sends :
              /\ send'[s].route = send[s].route /\ send'[s].told = send[s].told
              /\ send'[s].recorded = send[s].recorded
              /\ \/ send'[s].pc = send[s].pc /\ send'[s].attempt = send[s].attempt
                 \/ send[s].pc # "idle" /\ send'[s].pc = "gone"
    PROVE  AllInv'
  <1>1. \A o \in Sends : GoesOn(o)
    BY DEF GoesOn, NotedPCs
  <1>2. QED
    BY <1>1, GoesOnKeeps DEF AllInv

LEMMA UserKeeps ==
    ASSUME SendTypeOK, AllInv, User
    PROVE  AllInv'
  <1>1. ASSUME NEW s \in Sends, NEW route \in Routes, Click(s, route)
        PROVE  AllInv'
    <2> DEFINE one == [send[s] EXCEPT !.pc = "sync"]
               two == [one EXCEPT !.route = route]
               three == [two EXCEPT !.op = "active"]
               four == [three EXCEPT !.attached = TRUE]
    <2>1. send[s] \in RunType
      BY TypeOKUnfolded
    <2>2. four.pc = "sync" /\ four.recorded = send[s].recorded
      BY <2>1 DEF RunType
    <2>3. send' = [send EXCEPT ![s] = four]
      BY <1>1 DEF Click
    <2> HIDE DEF four
    <2>4. send'[s] = four /\ \A o \in Sends \ {s} : send'[o] = send[o]
      BY <2>3, TypeOKUnfolded
    <2>5. RunInv(s)' /\ Alone(s)
      BY <1>1, <2>2, <2>4 DEF Click, AllInv, RunInv, Queued, NotedPCs, Alone
    <2>6. QED
      BY <2>5, AloneGoesOn, GoesOnKeeps DEF AllInv
  <1>2. ASSUME NEW s \in Sends, Approve(s)
        PROVE  AllInv'
    <2>1. burn'[s] = "broadcast" /\ \A o \in Sends \ {s} : burn'[o] = burn[o]
      BY <1>2, TypeOKUnfolded DEF Approve
    <2>2. CASE RecordsFirst(s)
      <3>1. StartRecording(s) /\ UNCHANGED api
        BY <1>2, <2>2 DEF Approve
      <3>2. RunInv(s)' /\ Alone(s)
        BY <1>2, <2>1, <3>1, StartRecordingStep DEF Approve, AllInv
      <3>3. QED
        BY <3>2, AloneGoesOn, GoesOnKeeps DEF AllInv
    <2>3. CASE ~RecordsFirst(s)
      <3>1. GoOn(s, "confirm") /\ UNCHANGED <<api, req>>
        BY <1>2, <2>3 DEF Approve
      <3>2. RunInv(s)' /\ Alone(s)
        BY <1>2, <2>1, <2>3, <3>1, ContinueGoesOn
           DEF Approve, AllInv, RunInv, Queued, CrossChain, RecordsFirst, NotedPCs, Alone
      <3>3. QED
        BY <3>2, AloneGoesOn, GoesOnKeeps DEF AllInv
    <2>4. QED
      BY <2>2, <2>3
  <1>3. ASSUME NEW s \in Sends, Reject(s)
        PROVE  AllInv'
    <2>1. \A o \in Sends : GoesOn(o)
      BY <1>3, EndGoesOn DEF Reject, GoesOn, NotedPCs
    <2>2. QED
      BY <2>1, GoesOnKeeps DEF AllInv
  <1>5. CASE unlockAfterReadyClosed
    <2>1. send' = [send EXCEPT ![page.active].op = "cancelled"] /\ UNCHANGED <<api, req, burn>>
      BY <1>5 DEF unlockAfterReadyClosed
    <2>2. \A s \in Sends :
             /\ send'[s].pc = send[s].pc /\ send'[s].attempt = send[s].attempt
             /\ send'[s].route = send[s].route /\ send'[s].told = send[s].told
             /\ send'[s].recorded = send[s].recorded
      BY <2>1, TypeOKUnfolded DEF RunType
    <2>3. QED
      BY <2>1, <2>2, QuietKeeps
  <1>6. CASE Dismiss \/ SendAnother
    <2>1. UNCHANGED <<send, api, req, burn>>
      BY <1>6 DEF Dismiss, SendAnother
    <2>2. QED
      BY <2>1, QuietKeeps
  <1>7. CASE LeavePage \/ SwitchNetwork
    <2>1. send' = Unmount /\ UNCHANGED <<api, req, burn>>
      BY <1>7 DEF LeavePage, SwitchNetwork
    <2>2. \A s \in Sends :
             /\ send'[s].pc = send[s].pc /\ send'[s].attempt = send[s].attempt
             /\ send'[s].route = send[s].route /\ send'[s].told = send[s].told
             /\ send'[s].recorded = send[s].recorded
      <3> SUFFICES ASSUME NEW s \in Sends
                   PROVE  <2>2!(s)
        OBVIOUS
      <3> DEFINE one == [send[s] EXCEPT !.attached = FALSE]
                 two == [one EXCEPT !.op = IF page.active = s THEN "cancelled" ELSE send[s].op]
      <3>1. send'[s] = two
        BY <2>1 DEF Unmount
      <3>2. send[s] \in RunType
        BY TypeOKUnfolded
      <3>3. /\ two.pc = send[s].pc /\ two.attempt = send[s].attempt /\ two.route = send[s].route
            /\ two.told = send[s].told /\ two.recorded = send[s].recorded
        BY <3>2 DEF RunType
      <3> HIDE DEF two
      <3>4. QED
        BY <3>1, <3>3
    <2>3. QED
      BY <2>1, <2>2, QuietKeeps
  <1>8. CASE CloseTab
    <2>1. UNCHANGED <<api, req, burn>>
          /\ \A s \in Sends : send'[s] = IF Running(s) THEN [send[s] EXCEPT !.pc = "gone"]
                                       ELSE send[s]
      BY <1>8 DEF CloseTab
    <2>2. \A s \in Sends :
             /\ send'[s].route = send[s].route /\ send'[s].told = send[s].told
             /\ send'[s].recorded = send[s].recorded
             /\ \/ send'[s].pc = send[s].pc /\ send'[s].attempt = send[s].attempt
                \/ send[s].pc # "idle" /\ send'[s].pc = "gone"
      <3> SUFFICES ASSUME NEW s \in Sends
                   PROVE  <2>2!(s)
        OBVIOUS
      <3>1. send[s] \in RunType
        BY TypeOKUnfolded
      <3>2. CASE Running(s)
        BY <2>1, <3>1, <3>2 DEF Running, RunType
      <3>3. CASE ~Running(s)
        BY <2>1, <3>3
      <3>4. QED
        BY <3>2, <3>3
    <2>3. QED
      BY <2>1, <2>2, QuietKeeps
  <1>9. QED
    BY <1>1, <1>2, <1>3, <1>5, <1>6, <1>7, <1>8 DEF User

LEMMA InvHolds == SendSpec => [](SendTypeOK /\ AllInv)
  <1>1. SendInit => SendTypeOK /\ AllInv
    <2>1. SendInit => AllInv
      BY DEF SendInit, AllInv, RunInv, NotedPCs
    <2>2. QED
      BY <2>1, InitType
  <1>2. SendTypeOK /\ AllInv /\ [SendNext]_sendVars => (SendTypeOK /\ AllInv)'
    <2>1. AllInv /\ UNCHANGED sendVars => AllInv'
      BY DEF AllInv, RunInv, Queued, CrossChain, RecordsFirst, sendVars
    <2>2. QED
      BY <2>1, NextType, UserKeeps, RunStepKeeps, WorldKeeps DEF SendNext
  <1>3. QED
    BY <1>1, <1>2, PTL DEF SendSpec

\* No burn without a stored note: every run stores the note before it asks the
\* wallet, and no step takes a note away.
THEOREM BurnHasNoteHolds == SendSpec => []BurnHasNote
  <1>1. AllInv => BurnHasNote
    BY DEF AllInv, RunInv, BurnHasNote
  <1>2. QED
    BY <1>1, InvHolds, PTL

\* What is taken for recorded has its hash in the row and a job, whichever of
\* the attempts did which of the statements.
THEOREM RecordedIsQueuedHolds == SendSpec => []RecordedIsQueued
  <1>1. AllInv => RecordedIsQueued
    BY DEF AllInv, RunInv, Queued, RecordedIsQueued
  <1>2. QED
    BY <1>1, InvHolds, PTL

\* A run that failed after its burn has left the hash with the API or shown it.
THEOREM HashIsKeptHolds == SendSpec => []HashIsKept
  <1>1. AllInv => HashIsKept
    BY DEF AllInv, RunInv, HashIsKept
  <1>2. QED
    BY <1>1, InvHolds, PTL

LEMMA StepKeepsDone ==
    ASSUME SendTypeOK, [SendNext]_sendVars, NEW o \in Sends, api[o].job = "succeeded"
    PROVE  api'[o].job = "succeeded"
  <1>1. api[o] \in RowType /\ api \in [Sends -> RowType]
    BY TypeOKUnfolded
  <1>2. CASE UNCHANGED api
    BY <1>2
  <1>3. CASE User \/ UNCHANGED sendVars
    BY <1>3 DEF User, Click, Approve, Reject, unlockAfterReadyClosed, Dismiss, SendAnother,
                LeavePage, SwitchNetwork, CloseTab, sendVars
  <1>4. ASSUME NEW s \in Sends, RunStep(s)
        PROVE  api'[o].job = "succeeded"
    <2>1. CASE CreateIntent(s) \/ SignQuote(s) \/ Deliver(s)
      BY <1>1, <2>1 DEF CreateIntent, SignQuote, Deliver, Prepare, RowType
    <2>2. CASE ~(CreateIntent(s) \/ SignQuote(s) \/ Deliver(s))
      BY <1>4, <2>2 DEF RunStep, Sync, Recorded, AttemptFails, Confirm, WaitForEscrow
    <2>3. QED
      BY <2>1, <2>2
  <1>5. ASSUME NEW s \in Sends, World(s)
        PROVE  api'[o].job = "succeeded"
    <2>1. CASE Mine(s)
      BY <2>1 DEF Mine
    <2>2. CASE Relay(s)
      <3>1. api[s].job # "succeeded" /\ \A p \in Sends \ {s} : api'[p] = api[p]
        BY <1>1, <2>2 DEF Relay
      <3>2. QED
        BY <3>1
    <2>3. CASE SeeFunded(s)
      BY <1>1, <2>3 DEF SeeFunded, RowType
    <2>4. ASSUME NEW n \in 1..Attempts, Handler(s, n)
          PROVE  api'[o].job = "succeeded"
      <3>1. CASE Lookup(s, n) \/ Break(s, n)
        BY <3>1 DEF Lookup, Break
      <3>2. CASE Mark(s, n)
        <4>1. api[s] \in RowType /\ api' = [api EXCEPT ![s] = Marked(api[s])]
          BY <3>2, <1>1 DEF Mark
        <4>2. Marked(api[s]).job = api[s].job
          BY <4>1 DEF Marked, RowType
        <4>3. api'[o] = api[o] \/ (o = s /\ api'[o] = Marked(api[s]))
          BY <1>1, <4>1
        <4>4. QED
          BY <4>2, <4>3
      <3>3. CASE Enqueue(s, n)
        BY <1>1, <3>3 DEF Enqueue
      <3>4. CASE Save(s, n)
        BY <1>1, <3>4 DEF Save, RowType
      <3>5. QED
        BY <2>4, <3>1, <3>2, <3>3, <3>4 DEF Handler
    <2>5. QED
      BY <1>5, <2>1, <2>2, <2>3, <2>4 DEF World
  <1>6. QED
    BY <1>3, <1>4, <1>5 DEF SendNext

\* A job that has succeeded is never queued again: of the steps that write a
\* job only Enqueue could, and it leaves one that is there as it is.
THEOREM DoneStaysDoneHolds == SendSpec => DoneStaysDone
  <1>1. SendTypeOK /\ [SendNext]_sendVars
        => [\A s \in Sends : api[s].job = "succeeded" => api'[s].job = "succeeded"]_sendVars
    BY StepKeepsDone
  <1>2. QED
    BY <1>1, TypeCorrect, PTL DEF SendSpec, DoneStaysDone
=============================================================================
