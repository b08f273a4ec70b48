------------------------- MODULE InboxDeliveryProofs -------------------------
(***************************************************************************)
(* The safety of inbox keys, for any number of profiles, accounts,         *)
(* browsers, tabs and payments.                                            *)
(*                                                                         *)
(* A row of wallet_bindings belongs to one account for ever, and its key   *)
(* changes at most once: the first row may begin with the random key of a  *)
(* browser, and is upgraded to the key derived of its account; every other *)
(* row begins with that.  "own" says whose each row is; n, b and nt are    *)
(* the number of rows, the bindings and the notes of a state.  All copies  *)
(* of rows, however stale, and all notes agree with them.                  *)
(*                                                                         *)
(* Identities follow at the end.                                           *)
(***************************************************************************)
EXTENDS InboxDelivery, Identities, TLAPS

Owners == [1..MaxRows -> Wallets]

\* What a copy or a note may say of its row: it is not ahead of the row itself.
Generation(own, n, b, x) ==
    /\ x.row \in 1..n
    /\ x.version \in {1, 2} /\ (x.version = 2 => x.row = 1)
    /\ x.key = IF x.row = 1 /\ x.version = 1 THEN OldKey ELSE own[x.row]
    /\ \A q \in Profiles : b[q] # Nothing /\ b[q].row = x.row => x.version <= b[q].version

RowOK(own, n, b, r) == r \in Binding /\ Generation(own, n, b, r) /\ r.wallet = own[r.row]

\* The old key is published by the row of profile q.
OldBound(b, q) == b[q] # Nothing /\ b[q].key = OldKey

Bindings == [Profiles -> Binding \cup {Nothing}]

BindingsOK(own, n, b) ==
    /\ b \in Bindings /\ n \in 1..MaxRows
    /\ \A p \in Profiles : b[p] # Nothing => RowOK(own, n, b, b[p])
    /\ \A p, q \in Profiles :
          b[p] # Nothing /\ b[q] # Nothing /\ p # q
              => b[p].row # b[q].row /\ b[p].wallet # b[q].wallet

NotesOK(own, n, b, nt) ==
    /\ nt \in [Intents -> Note \cup {Nothing}]
    /\ \A i \in Intents : nt[i] # Nothing => Generation(own, n, b, nt[i])

IntentOK(own, n, b, s) ==
    /\ s.row # Nothing => RowOK(own, n, b, s.row)
    /\ s.pc = "sealed" => s.row # Nothing
    /\ s.pc = "resolved" => s.to \in Profiles /\ s.seen # Nothing

\* Places of a task where it is about an account; where it has a row in hand.
WithWallet == {"me", "ensure", "link", "relink", "reclaim", "reclaimCheck", "reclaimRevoke",
               "revoke", "insert", "save", "unlinkCheck", "unlinkRevoke", "clear"}
WithRow == {"claims", "note", "finish", "relink", "reclaimCheck", "reclaimRevoke"}

Fields == {"pc", "claims", "p", "w", "keys", "then", "save", "rotate", "row", "holder",
           "batch", "at"}

IsTask(task) ==
    /\ task = [x \in Fields |-> task[x]]
    /\ task.then \in {"idle", "me", "load", "open"} /\ task.batch \subseteq Intents

\* What a task knows of the old key of its account: whether to write it over
\* is only a question when nobody, or its own profile, has it published.
KnowsKey(b, task) ==
    \A q \in Profiles : OldBound(b, q) /\ b[q].wallet = task.w =>
        /\ task.pc \notin {"save", "clear"}
        /\ task.pc \in {"relink", "unlinkCheck", "unlinkRevoke"} => q = task.p
        /\ task.pc = "relink" => b[q] = task.row

TaskOK(own, n, b, nt, task) ==
    /\ IsTask(task)
    /\ task.pc # "idle" => task.p \in Profiles
    /\ task.pc \in WithWallet \/ task.then = "me" => task.w \in Wallets
    /\ task.row # Nothing => RowOK(own, n, b, task.row)
    /\ task.pc \in WithRow => task.row # Nothing
    /\ task.pc \in {"reclaimCheck", "reclaimRevoke"} => task.holder \in Profiles
    /\ task.pc = "relink" => task.row.wallet = task.w
    /\ task.pc = "finish" => task.at \in Intents /\ nt[task.at] # Nothing
    /\ KnowsKey(b, task)

VaultsOK(b, v) == \A p \in Profiles : OldBound(b, p) =>
                     \E c \in Browsers : OldKey \in Secrets(v[c][b[p].wallet])

\* What stands for the types: the fields that steps leave alone stay there.
Shapes ==
    /\ tab = [t \in Tabs |-> tab[t]]
    /\ intent = [i \in Intents |-> [x \in {"pc", "to", "seen", "row"} |-> intent[i][x]]]
    /\ pending = [i \in Intents |-> [x \in {"state", "token", "leased"} |-> pending[i][x]]]
    /\ vault = [c \in Browsers |-> [w \in Wallets |-> vault[c][w]]]

Inv(own) ==
    /\ Shapes
    /\ BindingsOK(own, rows, binding)
    /\ NotesOK(own, rows, binding, note)
    /\ \A i \in Intents : IntentOK(own, rows, binding, intent[i])
    /\ \A t \in Tabs : TaskOK(own, rows, binding, note, tab[t])
    /\ VaultsOK(binding, vault)
    /\ DoneHasNote

KeysInv == \E own \in Owners : Inv(own)

-----------------------------------------------------------------------------
(* What the invariant is for. *)

LEMMA OldKeyIsNoWallet == OldKey \notin Wallets /\ OldKey # Nothing /\ Nothing \notin Wallets
  BY InboxDeliveryAssumption

LEMMA InvSuffices == KeysInv => PublishedKeyHeld /\ NoteNamesItsKey /\ DoneHasNote
  <1> SUFFICES ASSUME NEW own \in Owners, Inv(own)
               PROVE  PublishedKeyHeld /\ NoteNamesItsKey /\ DoneHasNote
    BY DEF KeysInv
  <1>1. PublishedKeyHeld
    <2> SUFFICES ASSUME NEW p \in Profiles, binding[p] # Nothing, binding[p].key # binding[p].wallet
                 PROVE  Held(binding[p].key)
      BY DEF PublishedKeyHeld, Derived
    <2>1. RowOK(own, rows, binding, binding[p])
      BY DEF Inv, BindingsOK
    <2>2. OldBound(binding, p)
      BY <2>1 DEF RowOK, Generation, OldBound
    <2>3. binding[p].wallet \in Wallets
      BY <2>1 DEF RowOK, Binding
    <2> QED
      BY <2>2, <2>3 DEF Inv, VaultsOK, Held, OldBound
  <1>2. NoteNamesItsKey
    <2> SUFFICES ASSUME NEW i \in Intents, NEW p \in Profiles, note[i] # Nothing,
                        binding[p] # Nothing, binding[p].row = note[i].row
                 PROVE  /\ note[i].version <= binding[p].version
                        /\ note[i].version = binding[p].version
                              <=> note[i].key = binding[p].key
      BY DEF NoteNamesItsKey
    <2>1. /\ Generation(own, rows, binding, note[i])
          /\ Generation(own, rows, binding, binding[p])
      BY DEF Inv, NotesOK, BindingsOK, RowOK
    <2>2. own[1] # OldKey
      <3>1. 1 \in 1..MaxRows
        BY InboxDeliveryAssumption
      <3> QED
        BY <3>1, OldKeyIsNoWallet DEF Owners
    <2>3. note[i].version <= binding[p].version
      BY <2>1 DEF Generation
    <2>4. note[i].version = binding[p].version <=> note[i].key = binding[p].key
      BY <2>1, <2>2 DEF Generation
    <2> QED
      BY <2>3, <2>4
  <1>3. DoneHasNote
    BY DEF Inv
  <1> QED
    BY <1>1, <1>2, <1>3

-----------------------------------------------------------------------------
(* What is said of a copy, a sender or a task stays true as long as rows   *)
(* only grow older: the row of a profile is withdrawn, upgraded, or new.   *)

Later(own, n, b, own2, n2, b2) ==
    /\ n \in 1..MaxRows /\ n2 \in 1..MaxRows /\ n <= n2
    /\ \A r \in 1..n : own2[r] = own[r]
    /\ \A q \in Profiles : b2[q] # Nothing /\ b2[q].row \in 1..n =>
          b[q] # Nothing /\ b[q].row = b2[q].row /\ b[q].version <= b2[q].version
    /\ \A q \in Profiles : OldBound(b2, q) => b2[q] = b[q]

NotesKept(nt, nt2) == \A i \in Intents : nt[i] # Nothing => nt2[i] # Nothing

LEMMA GenerationStays ==
    ASSUME NEW own, NEW n, NEW b, NEW own2, NEW n2, NEW b2, Later(own, n, b, own2, n2, b2),
           b \in Bindings, b2 \in Bindings,
           NEW x, Generation(own, n, b, x)
    PROVE  Generation(own2, n2, b2, x)
  <1>1. x.row \in 1..n2 /\ own2[x.row] = own[x.row]
    BY InboxDeliveryAssumption DEF Generation, Later
  <1>2. ASSUME NEW q \in Profiles, b2[q] # Nothing, b2[q].row = x.row
        PROVE  x.version <= b2[q].version
    <2>1. b[q] # Nothing /\ b[q].row = x.row /\ b[q].version <= b2[q].version
      BY <1>2 DEF Generation, Later
    <2>2. x.version <= b[q].version
      BY <2>1 DEF Generation
    <2>3. x.version \in Nat /\ b[q].version \in Nat /\ b2[q].version \in Nat
      BY <1>2, <2>1 DEF Bindings, Binding, Generation
    <2> QED
      BY <2>1, <2>2, <2>3
  <1> QED
    BY <1>1, <1>2 DEF Generation

LEMMA RowStays ==
    ASSUME NEW own, NEW n, NEW b, NEW own2, NEW n2, NEW b2, Later(own, n, b, own2, n2, b2),
           b \in Bindings, b2 \in Bindings,
           NEW r, RowOK(own, n, b, r)
    PROVE  RowOK(own2, n2, b2, r)
  <1>1. Generation(own2, n2, b2, r)
    BY GenerationStays DEF RowOK
  <1>2. own2[r.row] = own[r.row]
    BY DEF RowOK, Generation, Later
  <1> QED
    BY <1>1, <1>2 DEF RowOK

LEMMA TaskStays ==
    ASSUME NEW own, NEW n, NEW b, NEW own2, NEW n2, NEW b2, Later(own, n, b, own2, n2, b2),
           b \in Bindings, b2 \in Bindings,
           NEW nt, NEW nt2, NotesKept(nt, nt2),
           NEW task, TaskOK(own, n, b, nt, task)
    PROVE  TaskOK(own2, n2, b2, nt2, task)
  <1>1. task.row # Nothing => RowOK(own2, n2, b2, task.row)
    BY RowStays DEF TaskOK
  <1>2. KnowsKey(b2, task)
    <2> SUFFICES ASSUME NEW q \in Profiles, OldBound(b2, q), b2[q].wallet = task.w
                 PROVE  /\ task.pc \notin {"save", "clear"}
                        /\ task.pc \in {"relink", "unlinkCheck", "unlinkRevoke"} => q = task.p
                        /\ task.pc = "relink" => b2[q] = task.row
      BY DEF KnowsKey
    <2>1. b2[q] = b[q]
      BY DEF Later
    <2>2. OldBound(b, q)
      BY <2>1 DEF OldBound
    <2> QED
      BY <2>1, <2>2 DEF TaskOK, KnowsKey
  <1>3. task.pc = "finish" => task.at \in Intents /\ nt2[task.at] # Nothing
    BY DEF TaskOK, NotesKept
  <1> QED
    BY <1>1, <1>2, <1>3 DEF TaskOK

LEMMA IntentStays ==
    ASSUME NEW own, NEW n, NEW b, NEW own2, NEW n2, NEW b2, Later(own, n, b, own2, n2, b2),
           b \in Bindings, b2 \in Bindings,
           NEW s, IntentOK(own, n, b, s)
    PROVE  IntentOK(own2, n2, b2, s)
  BY RowStays DEF IntentOK

LEMMA VaultStays ==
    ASSUME NEW own, NEW n, NEW b, NEW own2, NEW n2, NEW b2, Later(own, n, b, own2, n2, b2),
           NEW v, VaultsOK(b, v)
    PROVE  VaultsOK(b2, v)
  BY DEF Later, VaultsOK, OldBound

\* Nothing happens to the rows.
LEMMA SameRows ==
    ASSUME NEW own, NEW n, NEW b, BindingsOK(own, n, b)
    PROVE  Later(own, n, b, own, n, b)
  <1>1. \A q \in Profiles : b[q] # Nothing => b[q].version \in Nat
    BY DEF BindingsOK, Bindings, Binding
  <1>2. n \in Nat
    BY DEF BindingsOK
  <1> QED
    BY <1>1, <1>2 DEF Later, BindingsOK

-----------------------------------------------------------------------------
(* The tasks that the steps of a tab are made of. *)

LEMMA IdleTask == IsTask(Idle) /\ Idle.pc = "idle" /\ Idle.row = Nothing /\ Idle.then = "idle"
                  /\ Idle.w = Nothing
  BY DEF Idle, IsTask, Fields

LEMMA GoTask ==
    ASSUME NEW task, IsTask(task), NEW pc
    PROVE  /\ IsTask([task EXCEPT !.pc = pc])
           /\ [task EXCEPT !.pc = pc].pc = pc
           /\ [task EXCEPT !.pc = pc].p = task.p
           /\ [task EXCEPT !.pc = pc].w = task.w
           /\ [task EXCEPT !.pc = pc].row = task.row
           /\ [task EXCEPT !.pc = pc].holder = task.holder
           /\ [task EXCEPT !.pc = pc].at = task.at
           /\ [task EXCEPT !.pc = pc].then = task.then
           /\ [task EXCEPT !.pc = pc].batch = task.batch
  BY DEF IsTask, Fields

LEMMA SyncTask ==
    ASSUME NEW task, IsTask(task), NEW then \in {"idle", "me", "load", "open"}
    PROVE  /\ IsTask(Sync(task, then))
           /\ Sync(task, then).pc \in {"wallet", "identity"}
           /\ Sync(task, then).p = task.p /\ Sync(task, then).row = Nothing
           /\ Sync(task, then).then = then
           /\ then = "me" => Sync(task, then).w = task.w
  <1> DEFINE pc == IF known[task.p] THEN "wallet" ELSE "identity"
             keys == IF then = "idle" THEN Empty ELSE task.keys
             w == IF then = "me" THEN task.w ELSE Nothing
             claims == then = "me" /\ task.claims
  <1>1. Sync(task, then) = [Idle EXCEPT !.pc = pc, !.then = then, !.p = task.p,
                                        !.keys = keys, !.w = w, !.claims = claims]
    BY DEF Sync
  <1>2. pc \in {"wallet", "identity"} /\ (then = "me" => w = task.w)
    OBVIOUS
  <1> HIDE DEF pc, keys, w, claims
  <1> QED
    BY <1>1, <1>2 DEF Idle, IsTask, Fields

LEMMA AskTask ==
    ASSUME NEW task, IsTask(task), NEW rotate, NEW save
    PROVE  /\ IsTask(Ask(task, rotate, save))
           /\ Ask(task, rotate, save).pc = "link"
           /\ Ask(task, rotate, save).p = task.p /\ Ask(task, rotate, save).row = task.row
           /\ Ask(task, rotate, save).w = task.w
  <1> DEFINE no == FALSE
             then == Last(task)
  <1>1. Ask(task, rotate, save) =
           [task EXCEPT !.pc = "link", !.rotate = rotate, !.save = save, !.then = then,
                        !.claims = no]
    BY DEF Ask
  <1>2. then \in {"idle", "me", "load", "open"}
    BY DEF Last
  <1> HIDE DEF no, then
  <1> QED
    BY <1>1, <1>2 DEF IsTask, Fields

LEMMA IdleOK == ASSUME NEW own, NEW n, NEW b, NEW nt
                PROVE  TaskOK(own, n, b, nt, Idle)
  BY IdleTask DEF TaskOK, KnowsKey, WithWallet, WithRow

LEMMA SyncOK ==
    ASSUME NEW own, NEW n, NEW b, NEW nt, NEW task, IsTask(task), task.p \in Profiles,
           NEW then \in {"idle", "me", "load", "open"}, then = "me" => task.w \in Wallets
    PROVE  TaskOK(own, n, b, nt, Sync(task, then))
  <1> DEFINE new == Sync(task, then)
  <1>1. /\ IsTask(new) /\ new.pc \in {"wallet", "identity"} /\ new.p = task.p
        /\ new.row = Nothing /\ new.then = then /\ (then = "me" => new.w = task.w)
    BY SyncTask
  <1> HIDE DEF new
  <1>2. TaskOK(own, n, b, nt, new)
    BY <1>1 DEF TaskOK, KnowsKey, WithWallet, WithRow
  <1> QED
    BY <1>2 DEF new

LEMMA SyncedOK ==
    ASSUME NEW own, NEW n, NEW b, NEW nt, NEW task, IsTask(task), task.p \in Profiles,
           task.then = "me" => task.w \in Wallets,
           task.row # Nothing => RowOK(own, n, b, task.row)
    PROVE  TaskOK(own, n, b, nt, Synced(task))
  <1>1. CASE task.then = "idle"
    BY <1>1, IdleOK DEF Synced
  <1>2. CASE task.then = "load"
    BY <1>2, SyncOK DEF Synced
  <1>3. CASE task.then \in {"me", "open"}
    <2> DEFINE new == [task EXCEPT !.pc = task.then, !.then = "idle"]
    <2>1. /\ IsTask(new) /\ new.pc = task.then /\ new.p = task.p /\ new.w = task.w
          /\ new.row = task.row /\ new.then = "idle"
      BY DEF IsTask, Fields
    <2>2. Synced(task) = new
      BY <1>3 DEF Synced
    <2> HIDE DEF new
    <2> QED
      BY <1>3, <2>1, <2>2 DEF TaskOK, KnowsKey, WithWallet, WithRow
  <1> QED
    BY <1>1, <1>2, <1>3 DEF IsTask, Fields

LEMMA OnwardOK ==
    ASSUME NEW own, NEW n, NEW b, NEW nt, NEW task, IsTask(task), task.p \in Profiles,
           task.then = "me" => task.w \in Wallets,
           task.row # Nothing, RowOK(own, n, b, task.row)
    PROVE  TaskOK(own, n, b, nt, Onward(task))
  <1>1. CASE task.batch = {}
    <2> DEFINE done == [task EXCEPT !.row = Nothing]
    <2>1. /\ IsTask(done) /\ done.p = task.p /\ done.then = task.then /\ done.w = task.w
          /\ done.row = Nothing
      BY DEF IsTask, Fields
    <2>2. Onward(task) = Synced(done)
      BY <1>1 DEF Onward
    <2> HIDE DEF done
    <2> QED
      BY <2>1, <2>2, SyncedOK
  <1>2. CASE task.batch # {}
    <2> DEFINE new == [task EXCEPT !.pc = "note"]
    <2>1. /\ IsTask(new) /\ new.pc = "note" /\ new.p = task.p /\ new.w = task.w
          /\ new.row = task.row /\ new.then = task.then
      BY DEF IsTask, Fields
    <2>2. Onward(task) = new
      BY <1>2 DEF Onward
    <2> HIDE DEF new
    <2> QED
      BY <2>1, <2>2 DEF TaskOK, KnowsKey, WithWallet, WithRow
  <1> QED
    BY <1>1, <1>2

LEMMA AskOK ==
    ASSUME NEW own, NEW n, NEW b, NEW nt, NEW task, IsTask(task), task.p \in Profiles,
           task.w \in Wallets, task.row # Nothing => RowOK(own, n, b, task.row),
           NEW rotate, NEW save
    PROVE  TaskOK(own, n, b, nt, Ask(task, rotate, save))
  <1> DEFINE new == Ask(task, rotate, save)
  <1>1. /\ IsTask(new) /\ new.pc = "link" /\ new.p = task.p /\ new.w = task.w
        /\ new.row = task.row
    BY AskTask
  <1> HIDE DEF new
  <1>2. TaskOK(own, n, b, nt, new)
    BY <1>1 DEF TaskOK, KnowsKey, WithWallet, WithRow
  <1> QED
    BY <1>2 DEF new

-----------------------------------------------------------------------------
(* What a step has to show. *)

LEMMA StepKeeps ==
    ASSUME NEW own \in Owners, NEW own2 \in Owners, Inv(own),
           Later(own, rows, binding, own2, rows', binding'),
           BindingsOK(own2, rows', binding'),
           NotesOK(own2, rows', binding', note'), NotesKept(note, note'),
           \A i \in Intents : intent'[i] = intent[i]
                              \/ IntentOK(own2, rows', binding', intent'[i]),
           \A t \in Tabs : tab'[t] = tab[t] \/ TaskOK(own2, rows', binding', note', tab'[t]),
           VaultsOK(binding', vault'), Shapes', DoneHasNote'
    PROVE  Inv(own2)'
  <1>1. binding \in Bindings /\ binding' \in Bindings
    BY DEF Inv, BindingsOK
  <1>2. ASSUME NEW i \in Intents PROVE IntentOK(own2, rows', binding', intent'[i])
    <2>1. IntentOK(own, rows, binding, intent[i])
      BY DEF Inv
    <2>2. IntentOK(own2, rows', binding', intent[i])
      BY <1>1, <2>1, IntentStays
    <2> QED
      BY <2>2
  <1>3. ASSUME NEW t \in Tabs PROVE TaskOK(own2, rows', binding', note', tab'[t])
    <2>1. TaskOK(own, rows, binding, note, tab[t])
      BY DEF Inv
    <2>2. TaskOK(own2, rows', binding', note', tab[t])
      BY <1>1, <2>1, TaskStays
    <2> QED
      BY <2>2
  <1> QED
    BY <1>2, <1>3 DEF Inv

LEMMA NotesStay ==
    ASSUME NEW own, NEW n, NEW b, NEW own2, NEW n2, NEW b2, Later(own, n, b, own2, n2, b2),
           b \in Bindings, b2 \in Bindings, NEW nt, NotesOK(own, n, b, nt)
    PROVE  NotesOK(own2, n2, b2, nt)
  BY GenerationStays DEF NotesOK

\* A step of a tab that changes the bindings, or nothing but the tab.
LEMMA BindingStep ==
    ASSUME NEW own \in Owners, NEW own2 \in Owners, Inv(own),
           Later(own, rows, binding, own2, rows', binding'),
           BindingsOK(own2, rows', binding'),
           NEW t \in Tabs, NEW new, TaskOK(own2, rows', binding', note, new),
           Become(t, new), UNCHANGED <<intent, note, pending, vault>>
    PROVE  Inv(own2)'
  <1>1. binding \in Bindings /\ binding' \in Bindings
    BY DEF Inv, BindingsOK
  <1>2. NotesOK(own2, rows', binding', note') /\ NotesKept(note, note')
    BY <1>1, NotesStay DEF Inv, NotesKept
  <1>3. VaultsOK(binding', vault')
    BY VaultStays DEF Inv
  <1>4. \A s \in Tabs : tab'[s] = IF s = t THEN new ELSE tab[s]
    BY DEF Become, Inv, Shapes
  <1>5. Shapes'
    BY DEF Become, Inv, Shapes
  <1>6. DoneHasNote'
    BY DEF Inv, DoneHasNote
  <1> QED
    BY <1>2, <1>3, <1>4, <1>5, <1>6, StepKeeps

LEMMA TabStep ==
    ASSUME NEW own \in Owners, Inv(own),
           NEW t \in Tabs, NEW new, TaskOK(own, rows, binding, note, new),
           Become(t, new), UNCHANGED <<binding, rows, intent, note, pending, vault>>
    PROVE  Inv(own)'
  <1>1. Later(own, rows, binding, own, rows', binding')
    BY SameRows DEF Inv
  <1> QED
    BY <1>1, BindingStep DEF Inv

-----------------------------------------------------------------------------
(* Steps that change nothing but the tab. *)

LEMMA EndKeeps ==
    ASSUME NEW own \in Owners, Inv(own), NEW t \in Tabs, End(t),
           UNCHANGED <<binding, rows, intent, note, pending, vault>>
    PROVE  Inv(own)'
  BY TabStep, IdleOK DEF End

LEMMA OneRowPerAccount ==
    ASSUME NEW own, NEW n, NEW b, BindingsOK(own, n, b), NEW p \in Profiles, NEW q \in Profiles,
           b[p] # Nothing, b[q] # Nothing, b[p].wallet = b[q].wallet
    PROVE  p = q
  BY DEF BindingsOK

LEMMA StartKeeps ==
    ASSUME NEW own \in Owners, Inv(own), NEW t \in Tabs, Start(t)
    PROVE  Inv(own)'
  <1>1. UNCHANGED <<binding, rows, intent, note, pending, vault>>
    BY DEF Start, server, sending
  <1> SUFFICES ASSUME NEW p \in Profiles, NEW w \in Wallets, NEW keys,
                      LET task == [Idle EXCEPT !.p = p, !.w = w, !.keys = keys]
                      IN  \/ Become(t, Sync(task, "me"))
                          \/ Become(t, [task EXCEPT !.claims = TRUE, !.pc = "ensure"])
                          \/ Become(t, Sync([Idle EXCEPT !.p = p], "idle"))
                          \/ /\ binding[p] # Nothing /\ binding[p].wallet = w
                             /\ Become(t, [Idle EXCEPT !.p = p, !.w = w, !.pc = "unlinkCheck",
                                                       !.row = binding[p]])
               PROVE  Inv(own)'
    BY DEF Start
  <1> DEFINE task == [Idle EXCEPT !.p = p, !.w = w, !.keys = keys]
             ensure == [task EXCEPT !.claims = TRUE, !.pc = "ensure"]
             plain == [Idle EXCEPT !.p = p]
             unlink == [Idle EXCEPT !.p = p, !.w = w, !.pc = "unlinkCheck", !.row = binding[p]]
  <1>2. IsTask(task) /\ task.p = p /\ task.w = w /\ task.row = Nothing /\ task.then = "idle"
    BY IdleTask DEF IsTask, Fields
  <1>3. IsTask(plain) /\ plain.p = p
    BY IdleTask DEF IsTask, Fields
  <1>4. CASE Become(t, Sync(task, "me"))
    <2>1. TaskOK(own, rows, binding, note, Sync(task, "me"))
      BY <1>2, SyncOK
    <2> QED
      BY <1>1, <1>4, <2>1, TabStep
  <1>5. CASE Become(t, ensure)
    <2>1. /\ IsTask(ensure) /\ ensure.p = p /\ ensure.w = w /\ ensure.row = Nothing
          /\ ensure.pc = "ensure"
      BY <1>2 DEF IsTask, Fields
    <2>2. TaskOK(own, rows, binding, note, ensure)
      BY <2>1 DEF TaskOK, KnowsKey, WithWallet, WithRow
    <2> QED
      BY <1>1, <1>5, <2>2, TabStep
  <1>6. CASE Become(t, Sync(plain, "idle"))
    <2>1. TaskOK(own, rows, binding, note, Sync(plain, "idle"))
      BY <1>3, SyncOK
    <2> QED
      BY <1>1, <1>6, <2>1, TabStep
  <1>7. CASE binding[p] # Nothing /\ binding[p].wallet = w /\ Become(t, unlink)
    <2>1. /\ IsTask(unlink) /\ unlink.p = p /\ unlink.w = w /\ unlink.row = binding[p]
          /\ unlink.pc = "unlinkCheck"
      BY IdleTask DEF IsTask, Fields
    <2>2. RowOK(own, rows, binding, binding[p])
      BY <1>7 DEF Inv, BindingsOK
    <2>3. ASSUME NEW q \in Profiles, OldBound(binding, q), binding[q].wallet = w PROVE q = p
      BY <1>7, <2>3, OneRowPerAccount DEF Inv, OldBound
    <2> HIDE DEF unlink
    <2>4. TaskOK(own, rows, binding, note, unlink)
      BY <2>1, <2>2, <2>3 DEF TaskOK, KnowsKey, WithWallet, WithRow
    <2> QED
      BY <1>1, <1>7, <2>4, TabStep
  <1> QED
    BY <1>4, <1>5, <1>6, <1>7

LEMMA SyncIdentityKeeps ==
    ASSUME NEW own \in Owners, Inv(own), NEW t \in Tabs, SyncIdentity(t)
    PROVE  Inv(own)'
  <1> DEFINE new == [tab[t] EXCEPT !.pc = "wallet"]
  <1>1. TaskOK(own, rows, binding, note, tab[t])
    BY DEF Inv
  <1>2. /\ IsTask(new) /\ new.pc = "wallet" /\ new.p = tab[t].p /\ new.w = tab[t].w
        /\ new.row = tab[t].row /\ new.then = tab[t].then
    BY <1>1, GoTask DEF TaskOK
  <1>3. Become(t, new) /\ tab[t].pc = "identity"
    BY DEF SyncIdentity, GoTo, At
  <1> HIDE DEF new
  <1>4. TaskOK(own, rows, binding, note, new)
    BY <1>1, <1>2, <1>3 DEF TaskOK, KnowsKey, WithWallet, WithRow
  <1> QED
    BY <1>3, <1>4, TabStep DEF SyncIdentity, sending

LEMMA ReadWalletKeeps ==
    ASSUME NEW own \in Owners, Inv(own), NEW t \in Tabs, ReadWallet(t)
    PROVE  Inv(own)'
  <1> DEFINE row == binding[tab[t].p]
             new == [tab[t] EXCEPT !.pc = "claims", !.row = row]
  <1>1. TaskOK(own, rows, binding, note, tab[t]) /\ tab[t].pc = "wallet"
    BY DEF Inv, ReadWallet, At
  <1>2. UNCHANGED <<binding, rows, intent, note, pending, vault>>
    BY DEF ReadWallet, server, sending
  <1>3. CASE row = Nothing
    <2>1. Become(t, Synced(tab[t]))
      BY <1>3 DEF ReadWallet
    <2>2. TaskOK(own, rows, binding, note, Synced(tab[t]))
      BY <1>1, SyncedOK DEF TaskOK
    <2> QED
      BY <1>2, <2>1, <2>2, TabStep
  <1>4. CASE row # Nothing
    <2>1. Become(t, new)
      BY <1>4 DEF ReadWallet
    <2>2. /\ IsTask(new) /\ new.pc = "claims" /\ new.p = tab[t].p /\ new.w = tab[t].w
          /\ new.row = row /\ new.then = tab[t].then
      BY <1>1 DEF TaskOK, IsTask, Fields
    <2>3. RowOK(own, rows, binding, row)
      BY <1>1, <1>4 DEF Inv, BindingsOK, TaskOK
    <2> HIDE DEF new
    <2>4. TaskOK(own, rows, binding, note, new)
      BY <1>1, <1>4, <2>2, <2>3 DEF TaskOK, KnowsKey, WithWallet, WithRow
    <2> QED
      BY <1>2, <2>1, <2>4, TabStep
  <1> QED
    BY <1>3, <1>4

LEMMA ReadMeKeeps ==
    ASSUME NEW own \in Owners, Inv(own), NEW t \in Tabs, ReadMe(t)
    PROVE  Inv(own)'
  <1>1. TaskOK(own, rows, binding, note, tab[t]) /\ tab[t].pc = "me"
    BY DEF Inv, ReadMe, At
  <1>2. UNCHANGED <<binding, rows, intent, note, pending, vault>>
    BY DEF ReadMe, server, sending
  <1>3. /\ IsTask(tab[t]) /\ tab[t].p \in Profiles /\ tab[t].w \in Wallets
        /\ tab[t].row # Nothing => RowOK(own, rows, binding, tab[t].row)
    BY <1>1 DEF TaskOK, WithWallet
  <1>4. Last(tab[t]) \in {"idle", "load"}
    BY DEF Last
  <1>5. ASSUME NEW rotate, NEW save, Become(t, Ask(tab[t], rotate, save)) PROVE Inv(own)'
    BY <1>2, <1>3, <1>5, AskOK, TabStep
  <1>6. CASE Become(t, Idle)
    BY <1>2, <1>6, IdleOK, TabStep
  <1>7. CASE Become(t, Sync(tab[t], Last(tab[t])))
    <2>1. TaskOK(own, rows, binding, note, Sync(tab[t], Last(tab[t])))
      BY <1>3, <1>4, SyncOK
    <2> QED
      BY <1>2, <1>7, <2>1, TabStep
  <1>8. \/ Become(t, Idle) \/ Become(t, Sync(tab[t], Last(tab[t])))
        \/ Become(t, Ask(tab[t], FALSE, "set")) \/ Become(t, Ask(tab[t], TRUE, "rotate"))
        \/ Become(t, Ask(tab[t], FALSE, "none"))
    BY DEF ReadMe, Bound
  <1> QED
    BY <1>5, <1>6, <1>7, <1>8

LEMMA EnsureKeyKeeps ==
    ASSUME NEW own \in Owners, Inv(own), NEW t \in Tabs, EnsureKey(t)
    PROVE  Inv(own)'
  <1> DEFINE row == binding[tab[t].p]
             new == [tab[t] EXCEPT !.pc = "save", !.save = "set", !.then = "open"]
  <1>1. TaskOK(own, rows, binding, note, tab[t]) /\ tab[t].pc = "ensure"
    BY DEF Inv, EnsureKey, At
  <1>2. UNCHANGED <<binding, rows, intent, note, pending, vault>>
    BY DEF EnsureKey, server, sending
  <1>3. /\ IsTask(tab[t]) /\ tab[t].p \in Profiles /\ tab[t].w \in Wallets
        /\ tab[t].row # Nothing => RowOK(own, rows, binding, tab[t].row)
    BY <1>1 DEF TaskOK, WithWallet
  <1>4. CASE Become(t, Idle)
    BY <1>2, <1>4, IdleOK, TabStep
  <1>5. ASSUME NEW then \in {"me", "open"}, Become(t, Sync(tab[t], then)) PROVE Inv(own)'
    <2>1. TaskOK(own, rows, binding, note, Sync(tab[t], then))
      BY <1>3, SyncOK
    <2> QED
      BY <1>2, <1>5, <2>1, TabStep
  <1>6. CASE row # Nothing /\ row.key = Derived(tab[t].w) /\ Become(t, new)
    <2>1. /\ IsTask(new) /\ new.pc = "save" /\ new.p = tab[t].p /\ new.w = tab[t].w
          /\ new.row = tab[t].row /\ new.then = "open"
      BY <1>3 DEF IsTask, Fields
    <2>2. RowOK(own, rows, binding, row)
      BY <1>3, <1>6 DEF Inv, BindingsOK
    <2>3. row.wallet = tab[t].w /\ row.key # OldKey
      BY <1>3, <1>6, <2>2, OldKeyIsNoWallet DEF RowOK, Generation, Derived
    <2>4. ASSUME NEW q \in Profiles, OldBound(binding, q), binding[q].wallet = tab[t].w
          PROVE  FALSE
      <3>1. q = tab[t].p
        BY <1>3, <1>6, <2>3, <2>4, OneRowPerAccount DEF Inv, OldBound
      <3> QED
        BY <2>3, <2>4, <3>1 DEF OldBound
    <2> HIDE DEF new
    <2>5. TaskOK(own, rows, binding, note, new)
      BY <1>3, <2>1, <2>4 DEF TaskOK, KnowsKey, WithWallet, WithRow
    <2> QED
      BY <1>2, <1>6, <2>5, TabStep
  <1>7. \/ Become(t, Sync(tab[t], "me")) \/ Become(t, Sync(tab[t], "open"))
        \/ row # Nothing /\ row.key = Derived(tab[t].w) /\ Become(t, new)
        \/ Become(t, Idle)
    BY DEF EnsureKey
  <1> QED
    BY <1>4, <1>5, <1>6, <1>7

LEMMA ReadExistingKeeps ==
    ASSUME NEW own \in Owners, Inv(own), NEW t \in Tabs, ReadExisting(t)
    PROVE  Inv(own)'
  <1> DEFINE row == binding[tab[t].p]
             reclaim == [tab[t] EXCEPT !.pc = "reclaim"]
             relink == [tab[t] EXCEPT !.pc = "relink", !.row = row]
  <1>1. TaskOK(own, rows, binding, note, tab[t]) /\ tab[t].pc = "link"
    BY DEF Inv, ReadExisting, At
  <1>2. UNCHANGED <<binding, rows, intent, note, pending, vault>>
    BY DEF ReadExisting, server, sending
  <1>3. /\ IsTask(tab[t]) /\ tab[t].p \in Profiles /\ tab[t].w \in Wallets
        /\ tab[t].row # Nothing => RowOK(own, rows, binding, tab[t].row)
    BY <1>1 DEF TaskOK, WithWallet
  <1>4. CASE Become(t, Idle)
    BY <1>2, <1>4, IdleOK, TabStep
  <1>5. CASE Become(t, reclaim)
    <2>1. /\ IsTask(reclaim) /\ reclaim.pc = "reclaim" /\ reclaim.p = tab[t].p
          /\ reclaim.w = tab[t].w /\ reclaim.row = tab[t].row
      BY <1>3, GoTask
    <2> HIDE DEF reclaim
    <2>2. TaskOK(own, rows, binding, note, reclaim)
      BY <1>3, <2>1 DEF TaskOK, KnowsKey, WithWallet, WithRow
    <2> QED
      BY <1>2, <1>5, <2>2, TabStep
  <1>6. CASE row # Nothing /\ row.wallet = tab[t].w /\ Become(t, relink)
    <2>1. /\ IsTask(relink) /\ relink.pc = "relink" /\ relink.p = tab[t].p
          /\ relink.w = tab[t].w /\ relink.row = row
      BY <1>3 DEF IsTask, Fields
    <2>2. RowOK(own, rows, binding, row)
      BY <1>3, <1>6 DEF Inv, BindingsOK
    <2>3. ASSUME NEW q \in Profiles, OldBound(binding, q), binding[q].wallet = tab[t].w
          PROVE  q = tab[t].p
      BY <1>3, <1>6, <2>3, OneRowPerAccount DEF Inv, OldBound
    <2> HIDE DEF relink
    <2>4. TaskOK(own, rows, binding, note, relink)
      BY <1>3, <1>6, <2>1, <2>2, <2>3 DEF TaskOK, KnowsKey, WithWallet, WithRow
    <2> QED
      BY <1>2, <1>6, <2>4, TabStep
  <1>7. \/ Become(t, reclaim) \/ Become(t, Idle)
        \/ row # Nothing /\ row.wallet = tab[t].w /\ Become(t, relink)
    BY DEF ReadExisting
  <1> QED
    BY <1>4, <1>5, <1>6, <1>7

LEMMA FindHolderKeeps ==
    ASSUME NEW own \in Owners, Inv(own), NEW t \in Tabs, FindHolder(t)
    PROVE  Inv(own)'
  <1>1. TaskOK(own, rows, binding, note, tab[t]) /\ tab[t].pc = "reclaim"
    BY DEF Inv, FindHolder, At
  <1>2. UNCHANGED <<binding, rows, intent, note, pending, vault>>
    BY DEF FindHolder, server, sending
  <1>3. /\ IsTask(tab[t]) /\ tab[t].p \in Profiles /\ tab[t].w \in Wallets
        /\ tab[t].row # Nothing => RowOK(own, rows, binding, tab[t].row)
    BY <1>1 DEF TaskOK, WithWallet
  <1>4. CASE GoTo(t, "revoke")
    <2> DEFINE new == [tab[t] EXCEPT !.pc = "revoke"]
    <2>1. /\ IsTask(new) /\ new.pc = "revoke" /\ new.p = tab[t].p
          /\ new.w = tab[t].w /\ new.row = tab[t].row
      BY <1>3, GoTask
    <2>2. Become(t, new)
      BY <1>4 DEF GoTo
    <2> HIDE DEF new
    <2>3. TaskOK(own, rows, binding, note, new)
      BY <1>3, <2>1 DEF TaskOK, KnowsKey, WithWallet, WithRow
    <2> QED
      BY <1>2, <2>2, <2>3, TabStep
  <1>5. ASSUME NEW q \in HolderOf(tab[t].w),
               Become(t, [tab[t] EXCEPT !.pc = "reclaimCheck", !.holder = q,
                                        !.row = binding[q]])
        PROVE  Inv(own)'
    <2> DEFINE new == [tab[t] EXCEPT !.pc = "reclaimCheck", !.holder = q, !.row = binding[q]]
    <2>1. /\ IsTask(new) /\ new.pc = "reclaimCheck" /\ new.p = tab[t].p
          /\ new.w = tab[t].w /\ new.row = binding[q] /\ new.holder = q
      BY <1>3 DEF IsTask, Fields
    <2>2. q \in Profiles /\ binding[q] # Nothing
      BY DEF HolderOf
    <2>3. RowOK(own, rows, binding, binding[q])
      BY <2>2 DEF Inv, BindingsOK
    <2>4. Become(t, new)
      BY <1>5
    <2> HIDE DEF new
    <2>5. TaskOK(own, rows, binding, note, new)
      BY <1>3, <2>1, <2>2, <2>3 DEF TaskOK, KnowsKey, WithWallet, WithRow
    <2> QED
      BY <1>2, <2>4, <2>5, TabStep
  <1> QED
    BY <1>4, <1>5 DEF FindHolder

LEMMA CheckHolderKeeps ==
    ASSUME NEW own \in Owners, Inv(own), NEW t \in Tabs, CheckHolder(t)
    PROVE  Inv(own)'
  <1>1. TaskOK(own, rows, binding, note, tab[t]) /\ tab[t].pc = "reclaimCheck"
    BY DEF Inv, CheckHolder, At
  <1>2. UNCHANGED <<binding, rows, intent, note, pending, vault>>
    BY DEF CheckHolder, server, sending
  <1>3. CASE End(t)
    BY <1>2, <1>3, EndKeeps
  <1>4. CASE GoTo(t, "reclaimRevoke")
    <2> DEFINE new == [tab[t] EXCEPT !.pc = "reclaimRevoke"]
    <2>1. /\ IsTask(new) /\ new.pc = "reclaimRevoke" /\ new.p = tab[t].p
          /\ new.w = tab[t].w /\ new.row = tab[t].row /\ new.holder = tab[t].holder
      BY <1>1, GoTask DEF TaskOK
    <2>2. Become(t, new)
      BY <1>4 DEF GoTo
    <2> HIDE DEF new
    <2>3. TaskOK(own, rows, binding, note, new)
      BY <1>1, <2>1 DEF TaskOK, KnowsKey, WithWallet, WithRow
    <2> QED
      BY <1>2, <2>2, <2>3, TabStep
  <1> QED
    BY <1>3, <1>4 DEF CheckHolder

LEMMA CheckOwnKeeps ==
    ASSUME NEW own \in Owners, Inv(own), NEW t \in Tabs, CheckOwn(t)
    PROVE  Inv(own)'
  <1> DEFINE new == [tab[t] EXCEPT !.pc = "unlinkRevoke", !.row = Nothing]
  <1>1. TaskOK(own, rows, binding, note, tab[t]) /\ tab[t].pc = "unlinkCheck"
    BY DEF Inv, CheckOwn, At
  <1>2. UNCHANGED <<binding, rows, intent, note, pending, vault>>
    BY DEF CheckOwn, server, sending
  <1>3. CASE End(t)
    BY <1>2, <1>3, EndKeeps
  <1>4. CASE Become(t, new)
    <2>1. /\ IsTask(new) /\ new.pc = "unlinkRevoke" /\ new.p = tab[t].p
          /\ new.w = tab[t].w /\ new.row = Nothing
      BY <1>1 DEF TaskOK, IsTask, Fields
    <2> HIDE DEF new
    <2>2. TaskOK(own, rows, binding, note, new)
      BY <1>1, <2>1 DEF TaskOK, KnowsKey, WithWallet, WithRow
    <2> QED
      BY <1>2, <1>4, <2>2, TabStep
  <1> QED
    BY <1>3, <1>4 DEF CheckOwn

-----------------------------------------------------------------------------
(* Steps that change the bindings. *)

LEMMA Revoked ==
    ASSUME NEW own, NEW n, NEW b, BindingsOK(own, n, b),
           NEW b2 \in Bindings, \A q \in Profiles : b2[q] # Nothing => b2[q] = b[q]
    PROVE  Later(own, n, b, own, n, b2) /\ BindingsOK(own, n, b2)
  <1>1. b \in Bindings
    BY DEF BindingsOK
  <1>2. Later(own, n, b, own, n, b2)
    <2>1. Later(own, n, b, own, n, b)
      BY SameRows
    <2> QED
      BY <2>1 DEF Later, OldBound
  <1>3. BindingsOK(own, n, b2)
    BY <1>1, <1>2, RowStays DEF BindingsOK
  <1> QED
    BY <1>2, <1>3

LEMMA RelinkedIsBinding ==
    ASSUME NEW r \in Binding, NEW key \in Secret
    PROVE  /\ Relinked(r, key) \in Binding /\ Relinked(r, key) # Nothing
           /\ Relinked(r, key).row = r.row /\ Relinked(r, key).wallet = r.wallet
           /\ Relinked(r, key).key = key
           /\ r.key # key => Relinked(r, key).version = r.version + 1
  <1> DEFINE new == [r EXCEPT !.key = key, !.version = r.version + 1]
  <1>1. r.version + 1 \in Nat \ {0}
    BY DEF Binding
  <1>2. /\ new \in Binding /\ new.row = r.row /\ new.wallet = r.wallet /\ new.key = key
        /\ new.version = r.version + 1
    BY <1>1 DEF Binding
  <1>3. Relinked(r, key) = IF r.key = key THEN r ELSE new
    BY DEF Relinked
  <1> HIDE DEF new
  <1> QED
    BY <1>2, <1>3, NothingIsNoRow

\* The old key of an account is replaced by the derived one.
LEMMA Upgraded ==
    ASSUME NEW own, NEW n, NEW b, BindingsOK(own, n, b), NEW p \in Profiles, b[p] # Nothing,
           NEW r, RowOK(own, n, b, r), r.row = b[p].row, r.key = OldKey, r.wallet \in Wallets,
           NEW b2 \in Bindings, b2[p] = Relinked(r, r.wallet),
           \A q \in Profiles \ {p} : b2[q] = b[q]
    PROVE  /\ Later(own, n, b, own, n, b2) /\ BindingsOK(own, n, b2)
           /\ b2[p].key = r.wallet
  <1> DEFINE new == Relinked(r, r.wallet)
  <1>1. r.row \in 1..MaxRows /\ r.version = 1 /\ r.row = 1 /\ r.wallet = own[1] /\ r \in Binding
    <2>1. r \in Binding /\ Generation(own, n, b, r) /\ r.wallet = own[r.row]
      BY DEF RowOK
    <2>2. own[r.row] # OldKey
      BY <2>1, OldKeyIsNoWallet
    <2>3. r.row = 1 /\ r.version = 1
      BY <2>1, <2>2 DEF Generation
    <2> QED
      BY <2>1, <2>3 DEF Binding
  <1>2. /\ new \in Binding /\ new.row = r.row /\ new.wallet = r.wallet /\ new.key = r.wallet
        /\ new.version = 2 /\ new # Nothing
    <2>1. r.wallet \in Secret /\ r.key # r.wallet
      BY OldKeyIsNoWallet DEF Secret
    <2> QED
      BY <1>1, <2>1, RelinkedIsBinding
  <1>3. b \in Bindings /\ n \in 1..MaxRows
    BY DEF BindingsOK
  <1>4. b2 \in Bindings /\ b2[p] = new /\ \A q \in Profiles : q # p => b2[q] = b[q]
    BY DEF Bindings
  <1> HIDE DEF new
  <1>5. \A q \in Profiles : b[q] # Nothing => b[q].version \in {1, 2}
    BY DEF BindingsOK, RowOK, Generation
  <1>6. Later(own, n, b, own, n, b2)
    <2>1. Later(own, n, b, own, n, b)
      BY SameRows
    <2>2. ASSUME NEW q \in Profiles, OldBound(b2, q) PROVE b2[q] = b[q]
      BY <1>2, <1>4, <2>2, OldKeyIsNoWallet DEF OldBound
    <2>3. ASSUME NEW q \in Profiles, b2[q] # Nothing
          PROVE  b[q] # Nothing /\ b[q].row = b2[q].row /\ b[q].version <= b2[q].version
      <3>1. CASE q = p
        BY <1>2, <1>4, <1>5, <3>1
      <3>2. CASE q # p
        <4>1. b2[q] = b[q]
          BY <1>4, <3>2
        <4>2. b[q].version <= b[q].version
          BY <1>5, <2>3, <4>1
        <4> QED
          BY <2>3, <4>1, <4>2
      <3> QED
        BY <3>1, <3>2
    <2> QED
      BY <2>1, <2>2, <2>3 DEF Later
  <1>7. b[p].wallet = r.wallet
    BY DEF BindingsOK, RowOK
  <1>8. BindingsOK(own, n, b2)
    <2>1. ASSUME NEW q \in Profiles, b2[q] # Nothing PROVE RowOK(own, n, b2, b2[q])
      <3>1. CASE q = p
        <4>1. ASSUME NEW u \in Profiles, b2[u] # Nothing, b2[u].row = r.row
              PROVE  u = p
          BY <1>4, <4>1 DEF BindingsOK
        <4>2. Generation(own, n, b2, new)
          <5>1. new.row \in 1..n
            BY <1>2 DEF RowOK, Generation
          <5>2. \A u \in Profiles : b2[u] # Nothing /\ b2[u].row = new.row
                                        => new.version <= b2[u].version
            BY <1>2, <1>4, <4>1
          <5> QED
            BY <1>1, <1>2, <5>1, <5>2 DEF Generation
        <4> QED
          BY <1>1, <1>2, <1>4, <3>1, <4>2 DEF RowOK
      <3>2. CASE q # p
        BY <1>3, <1>4, <1>6, <2>1, <3>2, RowStays DEF BindingsOK
      <3> QED
        BY <3>1, <3>2
    <2>2. ASSUME NEW q \in Profiles, b2[q] # Nothing
          PROVE  b[q] # Nothing /\ b2[q].row = b[q].row /\ b2[q].wallet = b[q].wallet
      BY <1>2, <1>4, <1>7, <2>2
    <2> QED
      BY <1>3, <1>4, <2>1, <2>2 DEF BindingsOK
  <1> QED
    BY <1>2, <1>4, <1>6, <1>8

LEMMA RelinkKeeps ==
    ASSUME NEW own \in Owners, Inv(own), NEW t \in Tabs, Relink(t)
    PROVE  Inv(own)'
  <1> DEFINE task == tab[t]
             new == [task EXCEPT !.pc = "save", !.row = Nothing, !.rotate = FALSE]
  <1>1. TaskOK(own, rows, binding, note, task) /\ task.pc = "relink"
    BY DEF Inv, Relink, At
  <1>2. UNCHANGED <<rows, intent, note, pending, vault>> /\ Become(t, new)
    BY DEF Relink, sending
  <1>3. /\ IsTask(task) /\ task.p \in Profiles /\ task.w \in Wallets /\ task.row # Nothing
        /\ RowOK(own, rows, binding, task.row) /\ task.row.wallet = task.w
        /\ KnowsKey(binding, task)
    BY <1>1 DEF TaskOK, WithWallet, WithRow
  <1>4. IsTask(new) /\ new.pc = "save" /\ new.p = task.p /\ new.w = task.w /\ new.row = Nothing
    BY <1>3 DEF IsTask, Fields
  <1>5. BindingsOK(own, rows, binding)
    BY DEF Inv
  <1>6. task.row.key = OldKey \/ task.row.key = task.w
    BY <1>3 DEF RowOK, Generation
  <1>7. ASSUME Later(own, rows, binding, own, rows', binding'),
               BindingsOK(own, rows', binding'),
               ~(OldBound(binding', task.p) /\ binding'[task.p].wallet = task.w)
        PROVE  Inv(own)'
    <2>1. ASSUME NEW q \in Profiles, OldBound(binding', q), binding'[q].wallet = task.w
          PROVE  FALSE
      <3>1. binding'[q] = binding[q] /\ OldBound(binding, q)
        BY <1>7, <2>1 DEF Later, OldBound
      <3>2. q = task.p
        BY <1>1, <1>3, <2>1, <3>1 DEF KnowsKey
      <3> QED
        BY <1>7, <2>1, <3>2
    <2> HIDE DEF new
    <2>2. TaskOK(own, rows', binding', note, new)
      BY <1>3, <1>4, <2>1 DEF TaskOK, KnowsKey, WithWallet, WithRow
    <2> QED
      BY <1>2, <1>7, <2>2, BindingStep
  <1>8. CASE StillActive(task.p, task.row) /\ task.row.key = OldKey
    <2> DEFINE p == task.p
               r == task.row
    <2>1. /\ p \in Profiles /\ binding[p] # Nothing /\ RowOK(own, rows, binding, r)
          /\ r.row = binding[p].row /\ r.key = OldKey /\ r.wallet \in Wallets
      BY <1>3, <1>8 DEF StillActive
    <2>2. binding' = [binding EXCEPT ![p] = Relinked(r, r.wallet)]
      BY <1>3, <1>8, OldKeyIsNoWallet DEF Relink, Derived
    <2>3. r \in Binding /\ r.version \in Nat
      BY <2>1 DEF RowOK, Binding
    <2>4. Relinked(r, r.wallet) \in Binding
      BY <2>1, <2>3, RelinkedIsBinding DEF Secret
    <2>5. /\ binding' \in Bindings /\ binding'[p] = Relinked(r, r.wallet)
          /\ \A q \in Profiles \ {p} : binding'[q] = binding[q]
      BY <1>5, <2>1, <2>2, <2>4 DEF BindingsOK, Bindings
    <2> HIDE DEF p, r
    <2>6. /\ Later(own, rows, binding, own, rows, binding') /\ BindingsOK(own, rows, binding')
          /\ binding'[p].key = r.wallet
      BY <1>5, <2>1, <2>5, Upgraded
    <2> QED
      BY <1>2, <1>3, <1>7, <2>1, <2>6, OldKeyIsNoWallet DEF OldBound, p, r
  <1>9. CASE ~(StillActive(task.p, task.row) /\ task.row.key = OldKey)
    <2>1. binding' = binding
      BY <1>6, <1>9 DEF Relink, Derived
    <2>2. Later(own, rows, binding, own, rows', binding')
      BY <1>2, <1>5, <2>1, SameRows
    <2>3. ~(OldBound(binding, task.p) /\ binding[task.p].wallet = task.w)
      BY <1>1, <1>3, <1>9 DEF KnowsKey, StillActive, OldBound
    <2> QED
      BY <1>2, <1>5, <1>7, <2>1, <2>2, <2>3
  <1> QED
    BY <1>8, <1>9

LEMMA RevokeHolderKeeps ==
    ASSUME NEW own \in Owners, Inv(own), NEW t \in Tabs, RevokeHolder(t)
    PROVE  Inv(own)'
  <1> DEFINE task == tab[t]
             new == [task EXCEPT !.pc = "revoke", !.row = Nothing, !.holder = Nothing]
  <1>1. TaskOK(own, rows, binding, note, task) /\ task.pc = "reclaimRevoke"
    BY DEF Inv, RevokeHolder, At
  <1>2. UNCHANGED <<rows, intent, note, pending, vault>> /\ Become(t, new)
    BY DEF RevokeHolder, sending
  <1>3. IsTask(new) /\ new.pc = "revoke" /\ new.p = task.p /\ new.w = task.w /\ new.row = Nothing
    BY <1>1 DEF TaskOK, IsTask, Fields
  <1>4. BindingsOK(own, rows, binding) /\ binding \in Bindings
    BY DEF Inv, BindingsOK
  <1>5. /\ binding' \in Bindings
        /\ \A q \in Profiles : binding'[q] # Nothing => binding'[q] = binding[q]
    BY <1>4 DEF RevokeHolder, Bindings
  <1>6. Later(own, rows, binding, own, rows', binding') /\ BindingsOK(own, rows', binding')
    BY <1>2, <1>4, <1>5, Revoked
  <1> HIDE DEF new
  <1>7. TaskOK(own, rows', binding', note, new)
    BY <1>1, <1>3 DEF TaskOK, KnowsKey, WithWallet, WithRow
  <1> QED
    BY <1>2, <1>6, <1>7, BindingStep

LEMMA RevokeOwnKeeps ==
    ASSUME NEW own \in Owners, Inv(own), NEW t \in Tabs, RevokeOwn(t)
    PROVE  Inv(own)'
  <1> DEFINE task == tab[t]
             new == [task EXCEPT !.pc = "insert"]
  <1>1. TaskOK(own, rows, binding, note, task) /\ task.pc = "revoke"
    BY DEF Inv, RevokeOwn, At
  <1>2. UNCHANGED <<rows, intent, note, pending, vault>> /\ Become(t, new)
    BY DEF RevokeOwn, sending, GoTo
  <1>3. IsTask(new) /\ new.pc = "insert" /\ new.p = task.p /\ new.w = task.w /\ new.row = task.row
    BY <1>1, GoTask DEF TaskOK
  <1>4. BindingsOK(own, rows, binding) /\ binding \in Bindings
    BY DEF Inv, BindingsOK
  <1>5. /\ binding' \in Bindings
        /\ \A q \in Profiles : binding'[q] # Nothing => binding'[q] = binding[q]
    BY <1>4 DEF RevokeOwn, Bindings
  <1>6. Later(own, rows, binding, own, rows', binding') /\ BindingsOK(own, rows', binding')
    BY <1>2, <1>4, <1>5, Revoked
  <1> HIDE DEF new
  <1>7. task.row # Nothing => RowOK(own, rows', binding', task.row)
    BY <1>1, <1>4, <1>5, <1>6, RowStays DEF TaskOK
  <1>8. TaskOK(own, rows', binding', note, new)
    BY <1>1, <1>3, <1>7 DEF TaskOK, KnowsKey, WithWallet, WithRow
  <1> QED
    BY <1>2, <1>6, <1>8, BindingStep

LEMMA UnlinkKeeps ==
    ASSUME NEW own \in Owners, Inv(own), NEW t \in Tabs, Unlink(t)
    PROVE  Inv(own)'
  <1> DEFINE task == tab[t]
             new == [task EXCEPT !.pc = "clear"]
  <1>1. TaskOK(own, rows, binding, note, task) /\ task.pc = "unlinkRevoke"
    BY DEF Inv, Unlink, At
  <1>2. UNCHANGED <<rows, intent, note, pending, vault>> /\ Become(t, new)
    BY DEF Unlink, sending, GoTo
  <1>3. IsTask(new) /\ new.pc = "clear" /\ new.p = task.p /\ new.w = task.w /\ new.row = task.row
    BY <1>1, GoTask DEF TaskOK
  <1>4. BindingsOK(own, rows, binding) /\ binding \in Bindings /\ task.p \in Profiles
    BY <1>1 DEF Inv, BindingsOK, TaskOK
  <1>5. /\ binding' \in Bindings
        /\ \A q \in Profiles : binding'[q] # Nothing => binding'[q] = binding[q]
        /\ binding'[task.p] = Nothing
    BY <1>4 DEF Unlink, Bindings
  <1>6. Later(own, rows, binding, own, rows', binding') /\ BindingsOK(own, rows', binding')
    BY <1>2, <1>4, <1>5, Revoked
  <1>7. task.row # Nothing => RowOK(own, rows', binding', task.row)
    BY <1>1, <1>4, <1>5, <1>6, RowStays DEF TaskOK
  <1>8. ASSUME NEW q \in Profiles, OldBound(binding', q), binding'[q].wallet = task.w
        PROVE  FALSE
    <2>1. OldBound(binding, q) /\ binding[q].wallet = task.w /\ q # task.p
      BY <1>5, <1>8 DEF OldBound
    <2> QED
      BY <1>1, <2>1 DEF TaskOK, KnowsKey
  <1> HIDE DEF new
  <1>9. TaskOK(own, rows', binding', note, new)
    BY <1>1, <1>3, <1>7, <1>8 DEF TaskOK, KnowsKey, WithWallet, WithRow
  <1> QED
    BY <1>2, <1>6, <1>9, BindingStep

\* Profile p has no row, and nobody has account w: p gets row m for it.
GetsRow(own, n, b, p, w, new, own2, m, b2) ==
    /\ own \in Owners /\ own2 \in Owners /\ m \in 1..MaxRows /\ m = n + 1
    /\ BindingsOK(own, n, b) /\ p \in Profiles /\ w \in Wallets
    /\ b[p] = Nothing /\ \A q \in Profiles : b[q] # Nothing => b[q].wallet # w
    /\ new \in Binding /\ new # Nothing
    /\ new.row = m /\ new.wallet = w /\ new.key = w /\ new.version = 1
    /\ own2[m] = w /\ \A r \in 1..n : own2[r] = own[r]
    /\ b2 \in Bindings /\ b2[p] = new /\ \A q \in Profiles \ {p} : b2[q] = b[q]

\* Whose the new row is, is settled with that.
LEMMA Added ==
    ASSUME NEW own, NEW n, NEW b, NEW p, NEW w, NEW new, NEW own2, NEW m, NEW b2,
           GetsRow(own, n, b, p, w, new, own2, m, b2)
    PROVE  Later(own, n, b, own2, m, b2) /\ BindingsOK(own2, m, b2)
  <1> USE DEF GetsRow
  <1>1. b \in Bindings /\ n \in 1..MaxRows /\ n \in Nat /\ MaxRows \in Nat
    BY InboxDeliveryAssumption DEF BindingsOK
  <1>2. ASSUME NEW q \in Profiles, b[q] # Nothing
        PROVE  b[q].version \in Nat /\ b[q].row \in 1..n
    BY <1>2 DEF BindingsOK, RowOK, Generation
  <1>3. Later(own, n, b, own2, m, b2)
    <2>1. ASSUME NEW q \in Profiles, b2[q] # Nothing, b2[q].row \in 1..n
          PROVE  b2[q] = b[q]
      BY <1>1, <2>1
    <2>2. ASSUME NEW q \in Profiles, OldBound(b2, q) PROVE b2[q] = b[q]
      BY <2>2, OldKeyIsNoWallet DEF OldBound
    <2>3. ASSUME NEW q \in Profiles, b2[q] # Nothing, b2[q].row \in 1..n
          PROVE  b[q] # Nothing /\ b[q].row = b2[q].row /\ b[q].version <= b2[q].version
      BY <1>2, <2>1, <2>3
    <2>4. n \in 1..MaxRows /\ m \in 1..MaxRows /\ n <= m
      BY <1>1
    <2> QED
      BY <2>2, <2>3, <2>4 DEF Later
  <1>4. ASSUME NEW q \in Profiles, b2[q] # Nothing PROVE RowOK(own2, m, b2, b2[q])
    <2>1. CASE q = p
      <3>1. ASSUME NEW u \in Profiles, b2[u] # Nothing, b2[u].row = m PROVE u = p
        BY <1>1, <1>2, <3>1
      <3>2. m \in 1..m /\ m # 1 /\ 1 <= 1
        BY <1>1
      <3>3. Generation(own2, m, b2, new)
        BY <3>1, <3>2 DEF Generation
      <3> QED
        BY <2>1, <3>3 DEF RowOK
    <2>2. CASE q # p
      <3>1. b2[q] = b[q] /\ RowOK(own, n, b, b[q])
        BY <1>4, <2>2 DEF BindingsOK
      <3> QED
        BY <1>1, <1>3, <3>1, RowStays
    <2> QED
      BY <2>1, <2>2
  <1>5. ASSUME NEW q \in Profiles, NEW u \in Profiles, b2[q] # Nothing, b2[u] # Nothing, q # u
        PROVE  b2[q].row # b2[u].row /\ b2[q].wallet # b2[u].wallet
    <2>1. \A x \in Profiles : x # p /\ b2[x] # Nothing => b2[x].row # m /\ b2[x].wallet # w
      BY <1>1, <1>2
    <2>2. CASE q # p /\ u # p
      BY <1>5, <2>2 DEF BindingsOK
    <2> QED
      BY <1>5, <2>1, <2>2
  <1> QED
    BY <1>3, <1>4, <1>5 DEF BindingsOK

LEMMA InsertKeeps ==
    ASSUME NEW own \in Owners, Inv(own), NEW t \in Tabs, Insert(t)
    PROVE  \E own2 \in Owners : Inv(own2)'
  <1> DEFINE task == tab[t]
             new == [task EXCEPT !.pc = "save", !.rotate = FALSE]
             row == [row |-> rows + 1, wallet |-> task.w, key |-> Derived(task.w), version |-> 1]
             own2 == [own EXCEPT ![rows + 1] = task.w]
  <1>1. TaskOK(own, rows, binding, note, task) /\ task.pc = "insert"
    BY DEF Inv, Insert, At
  <1>2. UNCHANGED <<intent, note, pending, vault>>
    BY DEF Insert, sending
  <1>3. CASE End(t) /\ UNCHANGED <<rows, binding>>
    BY <1>2, <1>3, EndKeeps
  <1>4. CASE /\ binding[task.p] = Nothing /\ HolderOf(task.w) = {} /\ rows < MaxRows
             /\ rows' = rows + 1 /\ binding' = [binding EXCEPT ![task.p] = row]
             /\ Become(t, new)
    <2>1. /\ BindingsOK(own, rows, binding) /\ binding \in Bindings
          /\ task.p \in Profiles /\ task.w \in Wallets
          /\ task.row # Nothing => RowOK(own, rows, binding, task.row)
      BY <1>1 DEF Inv, BindingsOK, TaskOK, WithWallet
    <2>2. rows + 1 \in 1..MaxRows /\ rows \in 1..MaxRows
      BY <1>4, <2>1, InboxDeliveryAssumption DEF BindingsOK
    <2>3. /\ row \in Binding /\ row.row = rows + 1 /\ row.wallet = task.w /\ row.key = task.w
          /\ row.version = 1
      BY <2>1, <2>2 DEF Binding, Secret, Derived
    <2>4. row # Nothing
      BY <2>3, NothingIsNoRow
    <2> HIDE DEF row
    <2>5. /\ binding' \in Bindings /\ binding'[task.p] = row
          /\ \A q \in Profiles \ {task.p} : binding'[q] = binding[q]
      BY <1>4, <2>1, <2>3 DEF Bindings
    <2>6. own2 \in Owners /\ own2[rows + 1] = task.w /\ \A r \in 1..rows : own2[r] = own[r]
      BY <2>1, <2>2, InboxDeliveryAssumption DEF Owners
    <2>7. \A q \in Profiles : binding[q] # Nothing => binding[q].wallet # task.w
      BY <1>4 DEF HolderOf
    <2> HIDE DEF own2
    <2>8. Later(own, rows, binding, own2, rows', binding') /\ BindingsOK(own2, rows', binding')
      <3>1. GetsRow(own, rows, binding, task.p, task.w, row, own2, rows + 1, binding')
        BY <1>4, <2>1, <2>2, <2>3, <2>4, <2>5, <2>6, <2>7 DEF GetsRow
      <3> QED
        BY <1>4, <3>1, Added
    <2>9. /\ IsTask(new) /\ new.pc = "save" /\ new.p = task.p /\ new.w = task.w
          /\ new.row = task.row
      BY <1>1 DEF TaskOK, IsTask, Fields
    <2>10. task.row # Nothing => RowOK(own2, rows', binding', task.row)
      BY <2>1, <2>5, <2>8, RowStays
    <2>11. ASSUME NEW q \in Profiles, OldBound(binding', q), binding'[q].wallet = task.w
           PROVE  FALSE
      BY <2>7, <2>8, <2>11 DEF Later, OldBound
    <2> HIDE DEF new
    <2>12. TaskOK(own2, rows', binding', note, new)
      BY <2>1, <2>9, <2>10, <2>11 DEF TaskOK, KnowsKey, WithWallet, WithRow
    <2> QED
      BY <1>2, <1>4, <2>6, <2>8, <2>12, BindingStep
  <1> QED
    BY <1>3, <1>4 DEF Insert

-----------------------------------------------------------------------------
(* Steps that change a vault: nobody publishes the old key of its account. *)

LEMMA VaultStep ==
    ASSUME NEW own \in Owners, Inv(own), NEW t \in Tabs, NEW new,
           TaskOK(own, rows, binding, note, new), Become(t, new),
           UNCHANGED <<binding, rows, intent, note, pending>>,
           NEW c \in Browsers, NEW w \in Wallets, NEW keys,
           vault' = [vault EXCEPT ![c][w] = keys],
           \A q \in Profiles : OldBound(binding, q) => binding[q].wallet # w
    PROVE  Inv(own)'
  <1>1. /\ binding \in Bindings /\ Later(own, rows, binding, own, rows', binding')
        /\ BindingsOK(own, rows', binding')
    BY SameRows DEF Inv, BindingsOK
  <1>2. NotesOK(own, rows', binding', note') /\ NotesKept(note, note')
    BY DEF Inv, NotesKept
  <1>3. /\ \A d \in Browsers, v \in Wallets :
              vault'[d][v] = IF d = c /\ v = w THEN keys ELSE vault[d][v]
        /\ vault' = [d \in Browsers |-> [v \in Wallets |-> vault'[d][v]]]
    <2>1. vault = [d \in Browsers |-> [v \in Wallets |-> vault[d][v]]]
      BY DEF Inv, Shapes
    <2>2. vault' = [d \in Browsers |-> [v \in Wallets |->
                       IF d = c /\ v = w THEN keys ELSE vault[d][v]]]
      BY <2>1
    <2>3. ASSUME NEW d \in Browsers, NEW v \in Wallets
          PROVE  vault'[d][v] = IF d = c /\ v = w THEN keys ELSE vault[d][v]
      BY <2>2
    <2>4. ASSUME NEW d \in Browsers
          PROVE  vault'[d] = [v \in Wallets |-> vault'[d][v]]
      BY <2>2
    <2>5. vault' = [d \in Browsers |-> vault'[d]]
      BY <2>2
    <2>6. vault' = [d \in Browsers |-> [v \in Wallets |-> vault'[d][v]]]
      BY <2>4, <2>5
    <2> QED
      BY <2>3, <2>6
  <1>4. VaultsOK(binding', vault')
    <2> SUFFICES ASSUME NEW q \in Profiles, OldBound(binding, q)
                 PROVE  \E d \in Browsers : OldKey \in Secrets(vault'[d][binding[q].wallet])
      BY DEF VaultsOK
    <2>1. PICK d \in Browsers : OldKey \in Secrets(vault[d][binding[q].wallet])
      BY DEF Inv, VaultsOK
    <2>2. binding[q].wallet \in Wallets /\ binding[q].wallet # w
      BY DEF Inv, BindingsOK, RowOK, Binding, OldBound
    <2>3. vault'[d][binding[q].wallet] = vault[d][binding[q].wallet]
      BY <1>3, <2>2
    <2> QED
      BY <2>1, <2>3
  <1>5. \A s \in Tabs : tab'[s] = IF s = t THEN new ELSE tab[s]
    BY DEF Become, Inv, Shapes
  <1>6. Shapes'
    <2>1. tab' = [s \in Tabs |-> tab'[s]]
      BY DEF Become, Inv, Shapes
    <2> QED
      BY <1>3, <2>1 DEF Inv, Shapes
  <1>7. DoneHasNote'
    BY DEF Inv, DoneHasNote
  <1> QED
    BY <1>1, <1>2, <1>4, <1>5, <1>6, <1>7, StepKeeps

LEMMA SaveKeeps ==
    ASSUME NEW own \in Owners, Inv(own), NEW t \in Tabs, Save(t)
    PROVE  Inv(own)'
  <1> DEFINE task == tab[t]
             keys == IF task.save = "none" THEN task.keys ELSE Kept(task.keys, task.save, task.w)
             saved == [task EXCEPT !.keys = keys, !.save = "none"]
             new == Sync(saved, task.then)
  <1>1. TaskOK(own, rows, binding, note, task) /\ task.pc = "save"
    BY DEF Inv, Save, At
  <1>2. UNCHANGED <<binding, rows, intent, note, pending>> /\ Become(t, new)
    BY DEF Save, server, sending
  <1>3. /\ IsTask(task) /\ task.p \in Profiles /\ task.w \in Wallets
        /\ \A q \in Profiles : OldBound(binding, q) => binding[q].wallet # task.w
    BY <1>1 DEF TaskOK, KnowsKey, WithWallet
  <1>4. vault' = vault \/ vault' = [vault EXCEPT ![BrowserOf[t]][task.w] = keys]
    BY DEF Save
  <1> HIDE DEF keys
  <1>5. IsTask(saved) /\ saved.p = task.p /\ saved.w = task.w
    BY <1>3 DEF IsTask, Fields
  <1> HIDE DEF saved
  <1>6. TaskOK(own, rows, binding, note, new)
    BY <1>3, <1>5, SyncOK DEF IsTask
  <1> HIDE DEF new
  <1>7. BrowserOf[t] \in Browsers
    BY InboxDeliveryAssumption
  <1>8. CASE vault' = vault
    BY <1>2, <1>6, <1>8, TabStep
  <1>9. CASE vault' = [vault EXCEPT ![BrowserOf[t]][task.w] = keys]
    BY <1>2, <1>3, <1>6, <1>7, <1>9, VaultStep
  <1> QED
    BY <1>4, <1>8, <1>9

LEMMA ClearVaultKeeps ==
    ASSUME NEW own \in Owners, Inv(own), NEW t \in Tabs, ClearVault(t)
    PROVE  Inv(own)'
  <1> DEFINE task == tab[t]
  <1>1. TaskOK(own, rows, binding, note, task) /\ task.pc = "clear"
    BY DEF Inv, ClearVault, At
  <1>2. /\ UNCHANGED <<binding, rows, intent, note, pending>> /\ Become(t, Idle)
        /\ vault' = [vault EXCEPT ![BrowserOf[t]][task.w] = Empty]
    BY DEF ClearVault, server, sending, End
  <1>3. /\ task.w \in Wallets
        /\ \A q \in Profiles : OldBound(binding, q) => binding[q].wallet # task.w
    BY <1>1 DEF TaskOK, KnowsKey, WithWallet
  <1>4. BrowserOf[t] \in Browsers
    BY InboxDeliveryAssumption
  <1>5. TaskOK(own, rows, binding, note, Idle)
    BY IdleOK
  <1> QED
    BY <1>2, <1>3, <1>4, <1>5, VaultStep

-----------------------------------------------------------------------------
(* Steps that change notes, waiting claims or payments, not the rows.      *)

LEMMA DeliveryStep ==
    ASSUME NEW own \in Owners, Inv(own), UNCHANGED <<binding, rows, vault>>,
           NotesOK(own, rows, binding, note'), NotesKept(note, note'),
           \A i \in Intents : intent'[i] = intent[i] \/ IntentOK(own, rows, binding, intent'[i]),
           \A t \in Tabs : tab'[t] = tab[t] \/ TaskOK(own, rows, binding, note', tab'[t]),
           \A i \in Intents : pending'[i].state = "done"
                                  => pending[i].state = "done" \/ note[i] # Nothing,
           Shapes'
    PROVE  Inv(own)'
  <1>1. Later(own, rows, binding, own, rows', binding') /\ BindingsOK(own, rows', binding')
    BY SameRows DEF Inv
  <1>2. DoneHasNote'
    BY DEF Inv, DoneHasNote, NotesKept
  <1>3. VaultsOK(binding', vault')
    BY DEF Inv
  <1> QED
    BY <1>1, <1>2, <1>3, StepKeeps

LEMMA ClaimPendingKeeps ==
    ASSUME NEW own \in Owners, Inv(own), NEW t \in Tabs, ClaimPending(t)
    PROVE  Inv(own)'
  <1> DEFINE task == tab[t]
             batch == {i \in Intents : /\ pending[i].state = "waiting"
                                       /\ intent[i].to = tab[t].p /\ intent[i].pc # "expired"
                                       /\ Takeable(i)}
             taken == [task EXCEPT !.batch = batch]
             new == Onward(taken)
  <1>1. TaskOK(own, rows, binding, note, task) /\ task.pc = "claims"
    BY DEF Inv, ClaimPending, At
  <1>2. UNCHANGED <<binding, rows, intent, note, vault>> /\ Become(t, new)
    BY DEF ClaimPending
  <1>3. pending' = [i \in Intents |->
              IF i \in batch THEN [pending[i] EXCEPT !.token = t, !.leased = TRUE]
                             ELSE pending[i]]
    BY DEF ClaimPending
  <1>4. batch \subseteq Intents
    OBVIOUS
  <1> HIDE DEF batch
  <1>5. IsTask(taken) /\ taken.p = task.p /\ taken.w = task.w /\ taken.row = task.row
        /\ taken.then = task.then
    BY <1>1, <1>4 DEF TaskOK, IsTask, Fields
  <1> HIDE DEF taken
  <1>6. TaskOK(own, rows, binding, note, new)
    BY <1>1, <1>5, OnwardOK DEF TaskOK, WithRow, WithWallet
  <1> HIDE DEF new
  <1>7. /\ \A i \in Intents : pending'[i].state = pending[i].state
        /\ pending' = [i \in Intents |-> [x \in {"state", "token", "leased"} |-> pending'[i][x]]]
    <2>1. ASSUME NEW i \in Intents
          PROVE  /\ pending'[i].state = pending[i].state
                 /\ pending'[i] = [x \in {"state", "token", "leased"} |-> pending'[i][x]]
      <3>1. pending[i] = [x \in {"state", "token", "leased"} |-> pending[i][x]]
        BY DEF Inv, Shapes
      <3>2. pending'[i] = pending[i]
            \/ pending'[i] = [pending[i] EXCEPT !.token = t, !.leased = TRUE]
        BY <1>3
      <3> QED
        BY <3>1, <3>2
    <2>2. pending' = [i \in Intents |-> pending'[i]]
      BY <1>3
    <2> QED
      BY <2>1, <2>2
  <1>8. /\ \A s \in Tabs : tab'[s] = IF s = t THEN new ELSE tab[s]
        /\ tab' = [s \in Tabs |-> tab'[s]]
    BY <1>2 DEF Become, Inv, Shapes
  <1>9. Shapes'
    BY <1>2, <1>7, <1>8 DEF Inv, Shapes
  <1>10. NotesOK(own, rows, binding, note') /\ NotesKept(note, note')
    BY <1>2 DEF Inv, NotesKept
  <1> QED
    BY <1>2, <1>6, <1>7, <1>8, <1>9, <1>10, DeliveryStep

LEMMA FinishKeeps ==
    ASSUME NEW own \in Owners, Inv(own), NEW t \in Tabs, Finish(t)
    PROVE  Inv(own)'
  <1> DEFINE task == tab[t]
             j == task.at
             rest == task.batch \ {j}
             left == [task EXCEPT !.batch = rest, !.at = Nothing]
             new == Onward(left)
  <1>1. TaskOK(own, rows, binding, note, task) /\ task.pc = "finish"
    BY DEF Inv, Finish, At
  <1>2. UNCHANGED <<binding, rows, intent, note, vault>> /\ Become(t, new)
    BY DEF Finish
  <1>3. \/ pending' = pending
        \/ pending' = [pending EXCEPT ![j] = [state |-> "done", token |-> Nothing,
                                              leased |-> FALSE]]
    BY DEF Finish
  <1>4. j \in Intents /\ note[j] # Nothing
    BY <1>1 DEF TaskOK
  <1>5. rest \subseteq Intents
    BY <1>1 DEF TaskOK, IsTask
  <1> HIDE DEF rest, j
  <1>6. IsTask(left) /\ left.p = task.p /\ left.w = task.w /\ left.row = task.row
        /\ left.then = task.then
    BY <1>1, <1>5 DEF TaskOK, IsTask, Fields
  <1> HIDE DEF left
  <1>7. TaskOK(own, rows, binding, note, new)
    BY <1>1, <1>6, OnwardOK DEF TaskOK, WithRow, WithWallet
  <1> HIDE DEF new
  <1>8. ASSUME NEW i \in Intents
        PROVE  /\ pending'[i].state = "done" => pending[i].state = "done" \/ note[i] # Nothing
               /\ pending'[i] = [x \in {"state", "token", "leased"} |-> pending'[i][x]]
    <2>1. pending[i] = [x \in {"state", "token", "leased"} |-> pending[i][x]]
      BY DEF Inv, Shapes
    <2>2. DOMAIN pending = Intents
      BY DEF Inv, Shapes
    <2>3. \/ pending'[i] = pending[i]
          \/ i = j /\ pending'[i] = [state |-> "done", token |-> Nothing, leased |-> FALSE]
      BY <1>3, <1>4, <2>2
    <2> QED
      BY <1>4, <2>1, <2>3
  <1>9. pending' = [i \in Intents |-> pending'[i]]
    BY <1>3 DEF Inv, Shapes
  <1>10. /\ \A s \in Tabs : tab'[s] = IF s = t THEN new ELSE tab[s]
         /\ tab' = [s \in Tabs |-> tab'[s]]
    BY <1>2 DEF Become, Inv, Shapes
  <1>11. Shapes'
    BY <1>2, <1>8, <1>9, <1>10 DEF Inv, Shapes
  <1>12. NotesOK(own, rows, binding, note') /\ NotesKept(note, note')
    BY <1>2 DEF Inv, NotesKept
  <1> QED
    BY <1>2, <1>7, <1>8, <1>10, <1>11, <1>12, DeliveryStep

\* A note is sealed for a copy of a row, however old.
LEMMA SealedOK ==
    ASSUME NEW own, BindingsOK(own, rows, binding), NotesOK(own, rows, binding, note),
           NEW r, RowOK(own, rows, binding, r), NEW i \in Intents,
           note' = [note EXCEPT ![i] = Sealed(r)]
    PROVE  NotesOK(own, rows, binding, note') /\ NotesKept(note, note') /\ note'[i] # Nothing
  <1>1. Sealed(r) \in Note /\ Generation(own, rows, binding, Sealed(r))
    BY DEF RowOK, Generation, Sealed, Note, Binding
  <1>2. Sealed(r) # Nothing
    BY <1>1, NothingIsNoRow
  <1>3. \A k \in Intents : note'[k] = IF k = i THEN Sealed(r) ELSE note[k]
    BY DEF NotesOK
  <1>4. note' \in [Intents -> Note \cup {Nothing}]
    BY <1>1 DEF NotesOK
  <1> QED
    BY <1>1, <1>2, <1>3, <1>4 DEF NotesOK, NotesKept

LEMMA ResealKeeps ==
    ASSUME NEW own \in Owners, Inv(own), NEW t \in Tabs, Reseal(t)
    PROVE  Inv(own)'
  <1>1. TaskOK(own, rows, binding, note, tab[t]) /\ tab[t].pc = "note"
    BY DEF Inv, Reseal, At
  <1>2. PICK i \in tab[t].batch :
            /\ note' = [note EXCEPT ![i] = Sealed(tab[t].row)]
            /\ Become(t, [tab[t] EXCEPT !.pc = "finish", !.at = i])
    BY DEF Reseal
  <1>3. UNCHANGED <<binding, rows, intent, pending, vault>>
    BY DEF Reseal
  <1> DEFINE new == [tab[t] EXCEPT !.pc = "finish", !.at = i]
  <1>4. i \in Intents /\ RowOK(own, rows, binding, tab[t].row)
    BY <1>1 DEF TaskOK, IsTask, WithRow
  <1>5. NotesOK(own, rows, binding, note') /\ NotesKept(note, note') /\ note'[i] # Nothing
    BY <1>2, <1>4, SealedOK DEF Inv
  <1>6. /\ IsTask(new) /\ new.pc = "finish" /\ new.p = tab[t].p /\ new.w = tab[t].w
        /\ new.row = tab[t].row /\ new.then = tab[t].then /\ new.at = i
    BY <1>1 DEF TaskOK, IsTask, Fields
  <1>7. Become(t, new)
    BY <1>2
  <1> HIDE DEF new
  <1>8. TaskOK(own, rows, binding, note', new)
    BY <1>1, <1>4, <1>5, <1>6 DEF TaskOK, KnowsKey, WithWallet, WithRow
  <1>9. /\ \A s \in Tabs : tab'[s] = IF s = t THEN new ELSE tab[s]
        /\ tab' = [s \in Tabs |-> tab'[s]]
    BY <1>7 DEF Become, Inv, Shapes
  <1>10. Shapes'
    BY <1>3, <1>9 DEF Inv, Shapes
  <1> QED
    BY <1>3, <1>5, <1>8, <1>9, <1>10, DeliveryStep

LEMMA ExpireLeaseKeeps ==
    ASSUME NEW own \in Owners, Inv(own), NEW i \in Intents, ExpireLease(i)
    PROVE  Inv(own)'
  <1>1. /\ UNCHANGED <<binding, rows, intent, note, vault, tab>>
        /\ pending' = [pending EXCEPT ![i].leased = FALSE]
    BY DEF ExpireLease
  <1>2. ASSUME NEW k \in Intents
        PROVE  /\ pending'[k].state = pending[k].state
               /\ pending'[k] = [x \in {"state", "token", "leased"} |-> pending'[k][x]]
    <2>1. pending[k] = [x \in {"state", "token", "leased"} |-> pending[k][x]]
      BY DEF Inv, Shapes
    <2>2. DOMAIN pending = Intents
      BY DEF Inv, Shapes
    <2>3. pending'[k] = pending[k] \/ pending'[k] = [pending[k] EXCEPT !.leased = FALSE]
      BY <1>1, <2>2
    <2> QED
      BY <2>1, <2>3
  <1>3. pending' = [k \in Intents |-> pending'[k]]
    BY <1>1 DEF Inv, Shapes
  <1>4. Shapes'
    <2>1. pending' = [k \in Intents |-> [x \in {"state", "token", "leased"} |-> pending'[k][x]]]
      BY <1>2, <1>3
    <2>2. Shapes
      BY DEF Inv
    <2> QED
      BY <1>1, <2>1, <2>2 DEF Shapes
  <1>5. NotesOK(own, rows, binding, note') /\ NotesKept(note, note')
    BY <1>1 DEF Inv, NotesKept
  <1> QED
    BY <1>1, <1>2, <1>4, <1>5, DeliveryStep

\* A payment takes a step; a tab may have taken it, and comes to its end.
LEMMA SenderStep ==
    ASSUME NEW own \in Owners, Inv(own), UNCHANGED <<binding, rows, vault>>,
           NotesOK(own, rows, binding, note'), NotesKept(note, note'),
           NEW i \in Intents, NEW s, IntentOK(own, rows, binding, s),
           s = [x \in {"pc", "to", "seen", "row"} |-> s[x]],
           intent' = [intent EXCEPT ![i] = s],
           pending' = pending \/ pending' = [pending EXCEPT ![i].state = "waiting"],
           tab' = tab \/ \E t \in Tabs : End(t)
    PROVE  Inv(own)'
  <1>1. \A k \in Intents : intent'[k] = IF k = i THEN s ELSE intent[k]
    BY DEF Inv, Shapes
  <1>2. intent' = [k \in Intents |-> [x \in {"pc", "to", "seen", "row"} |-> intent'[k][x]]]
    <2>1. intent' = [k \in Intents |-> intent'[k]]
      BY DEF Inv, Shapes
    <2>2. \A k \in Intents : intent[k] = [x \in {"pc", "to", "seen", "row"} |-> intent[k][x]]
      BY DEF Inv, Shapes
    <2> QED
      BY <1>1, <2>1, <2>2
  <1>3. ASSUME NEW k \in Intents
        PROVE  /\ pending'[k].state = "done" => pending[k].state = "done"
               /\ pending'[k] = [x \in {"state", "token", "leased"} |-> pending'[k][x]]
    <2>1. pending[k] = [x \in {"state", "token", "leased"} |-> pending[k][x]]
      BY DEF Inv, Shapes
    <2>2. DOMAIN pending = Intents
      BY DEF Inv, Shapes
    <2>3. pending'[k] = pending[k] \/ pending'[k] = [pending[k] EXCEPT !.state = "waiting"]
      BY <2>2
    <2> QED
      BY <2>1, <2>3
  <1>4. pending' = [k \in Intents |-> pending'[k]]
    BY DEF Inv, Shapes
  <1>5. pending' = [k \in Intents |-> [x \in {"state", "token", "leased"} |-> pending'[k][x]]]
    BY <1>3, <1>4
  <1>6. /\ tab' = [t \in Tabs |-> tab'[t]]
        /\ \A t \in Tabs : tab'[t] = tab[t] \/ tab'[t] = Idle
    BY DEF Inv, Shapes, End, Become
  <1>7. vault' = [c \in Browsers |-> [w \in Wallets |-> vault'[c][w]]]
    BY DEF Inv, Shapes
  <1>8. Shapes'
    BY <1>2, <1>5, <1>6, <1>7 DEF Shapes
  <1>9. \A t \in Tabs : tab'[t] = tab[t] \/ TaskOK(own, rows, binding, note', tab'[t])
    BY <1>6, IdleOK
  <1> QED
    BY <1>1, <1>3, <1>8, <1>9, DeliveryStep

LEMMA SameNotes ==
    ASSUME NEW own, Inv(own), UNCHANGED note
    PROVE  NotesOK(own, rows, binding, note') /\ NotesKept(note, note')
  BY DEF Inv, NotesKept

LEMMA IntentShape ==
    ASSUME NEW own, Inv(own), NEW i \in Intents
    PROVE  /\ intent[i] = [x \in {"pc", "to", "seen", "row"} |-> intent[i][x]]
           /\ DOMAIN intent = Intents
           /\ IntentOK(own, rows, binding, intent[i])
  BY DEF Inv, Shapes

LEMMA ExpireKeeps ==
    ASSUME NEW own \in Owners, Inv(own), NEW i \in Intents, Expire(i)
    PROVE  Inv(own)'
  <1> DEFINE s == [intent[i] EXCEPT !.pc = "expired"]
  <1>1. s = [x \in {"pc", "to", "seen", "row"} |-> s[x]] /\ s.pc = "expired"
        /\ s.row = intent[i].row
    BY IntentShape
  <1>2. intent' = [intent EXCEPT ![i] = s] /\ UNCHANGED <<binding, rows, note, pending, vault, tab>>
    BY DEF Expire, Sender
  <1> HIDE DEF s
  <1>3. IntentOK(own, rows, binding, s)
    BY <1>1, IntentShape DEF IntentOK
  <1> QED
    BY <1>1, <1>2, <1>3, SameNotes, SenderStep

LEMMA StorePendingKeeps ==
    ASSUME NEW own \in Owners, Inv(own), NEW i \in Intents, StorePending(i)
    PROVE  Inv(own)'
  <1> DEFINE s == [intent[i] EXCEPT !.pc = "live"]
  <1>1. s = [x \in {"pc", "to", "seen", "row"} |-> s[x]] /\ s.pc = "live"
        /\ s.row = intent[i].row
    BY IntentShape
  <1>2. /\ intent' = [intent EXCEPT ![i] = s] /\ UNCHANGED <<binding, rows, note, vault, tab>>
        /\ pending' = [pending EXCEPT ![i].state = "waiting"]
    BY DEF StorePending, Sender
  <1> HIDE DEF s
  <1>3. IntentOK(own, rows, binding, s)
    BY <1>1, IntentShape DEF IntentOK
  <1> QED
    BY <1>1, <1>2, <1>3, SameNotes, SenderStep

LEMMA StoreNoteKeeps ==
    ASSUME NEW own \in Owners, Inv(own), NEW i \in Intents, StoreNote(i)
    PROVE  Inv(own)'
  <1> DEFINE s == [intent[i] EXCEPT !.pc = "live", !.row = Nothing]
  <1>1. s = [x \in {"pc", "to", "seen", "row"} |-> s[x]] /\ s.pc = "live" /\ s.row = Nothing
    BY IntentShape
  <1>2. /\ intent' = [intent EXCEPT ![i] = s] /\ UNCHANGED <<binding, rows, pending, vault, tab>>
        /\ note' = [note EXCEPT ![i] = Sealed(intent[i].row)] /\ intent[i].pc = "sealed"
    BY DEF StoreNote, Sender
  <1> HIDE DEF s
  <1>3. IntentOK(own, rows, binding, s)
    BY <1>1 DEF IntentOK
  <1>4. RowOK(own, rows, binding, intent[i].row)
    BY <1>2, IntentShape DEF IntentOK
  <1>5. NotesOK(own, rows, binding, note') /\ NotesKept(note, note')
    BY <1>2, <1>4, SealedOK DEF Inv
  <1> QED
    BY <1>1, <1>2, <1>3, <1>5, SenderStep

LEMMA ResolveKeeps ==
    ASSUME NEW own \in Owners, Inv(own), NEW i \in Intents, Resolve(i)
    PROVE  Inv(own)'
  <1>1. PICK p \in Profiles : intent' = [intent EXCEPT ![i] =
            [intent[i] EXCEPT !.pc = "resolved", !.to = p, !.seen =
                IF known[p] /\ binding[p] # Nothing THEN binding[p].key ELSE ServerKey]]
    BY DEF Resolve, Sender
  <1> DEFINE seen == IF known[p] /\ binding[p] # Nothing THEN binding[p].key ELSE ServerKey
             s == [intent[i] EXCEPT !.pc = "resolved", !.to = p, !.seen = seen]
  <1>2. UNCHANGED <<binding, rows, note, pending, vault, tab>>
    BY DEF Resolve
  <1>3. seen # Nothing
    <2>1. ServerKey # Nothing
      BY InboxDeliveryAssumption
    <2>2. binding[p] # Nothing => binding[p].key \in Secret
      BY DEF Inv, BindingsOK, RowOK, Binding
    <2> QED
      BY <2>1, <2>2, OldKeyIsNoWallet DEF Secret
  <1>4. intent' = [intent EXCEPT ![i] = s]
    BY <1>1
  <1> HIDE DEF seen
  <1>5. s = [x \in {"pc", "to", "seen", "row"} |-> s[x]] /\ s.pc = "resolved"
        /\ s.row = intent[i].row /\ s.to = p /\ s.seen = seen
    BY IntentShape
  <1> HIDE DEF s
  <1>6. IntentOK(own, rows, binding, s)
    BY <1>3, <1>5, IntentShape DEF IntentOK
  <1> QED
    BY <1>2, <1>4, <1>5, <1>6, SameNotes, SenderStep

LEMMA CheckRecipientKeeps ==
    ASSUME NEW own \in Owners, Inv(own), NEW i \in Intents, CheckRecipient(i)
    PROVE  Inv(own)'
  <1> DEFINE to == intent[i].to
             row == binding[to]
             read == [intent[i] EXCEPT !.seen = Nothing]
             sealed == [read EXCEPT !.pc = "sealed", !.row = row]
             held == [read EXCEPT !.pc = "held"]
             failed == [read EXCEPT !.pc = "failed"]
  <1>1. UNCHANGED <<binding, rows, note, pending, vault, tab>> /\ intent[i].pc = "resolved"
    BY DEF CheckRecipient
  <1>2. to \in Profiles /\ intent[i].seen # Nothing
    BY <1>1, IntentShape DEF IntentOK
  <1>3. \/ intent' = [intent EXCEPT ![i] = sealed] /\ row # Nothing
        \/ intent' = [intent EXCEPT ![i] = held]
        \/ intent' = [intent EXCEPT ![i] = failed]
    BY <1>2 DEF CheckRecipient, Sender
  <1>4. /\ read = [x \in {"pc", "to", "seen", "row"} |-> read[x]] /\ read.row = intent[i].row
    BY IntentShape
  <1> HIDE DEF read
  <1>5. CASE intent' = [intent EXCEPT ![i] = sealed] /\ row # Nothing
    <2>1. RowOK(own, rows, binding, row)
      BY <1>2, <1>5 DEF Inv, BindingsOK
    <2>2. sealed = [x \in {"pc", "to", "seen", "row"} |-> sealed[x]] /\ sealed.pc = "sealed"
          /\ sealed.row = row
      BY <1>4
    <2> HIDE DEF sealed
    <2>3. IntentOK(own, rows, binding, sealed)
      BY <1>5, <2>1, <2>2 DEF IntentOK
    <2> QED
      BY <1>1, <1>5, <2>2, <2>3, SameNotes, SenderStep
  <1>6. ASSUME NEW pc \in {"held", "failed"},
               intent' = [intent EXCEPT ![i] = [read EXCEPT !.pc = pc]]
        PROVE  Inv(own)'
    <2> DEFINE s == [read EXCEPT !.pc = pc]
    <2>1. s = [x \in {"pc", "to", "seen", "row"} |-> s[x]] /\ s.pc = pc
          /\ s.row = intent[i].row
      BY <1>4
    <2>2. intent' = [intent EXCEPT ![i] = s]
      BY <1>6
    <2> HIDE DEF s
    <2>3. IntentOK(own, rows, binding, s)
      BY <2>1, IntentShape DEF IntentOK
    <2> QED
      BY <1>1, <2>1, <2>2, <2>3, SameNotes, SenderStep
  <1> QED
    BY <1>3, <1>5, <1>6

LEMMA OpenNoteKeeps ==
    ASSUME NEW own \in Owners, Inv(own), NEW t \in Tabs, OpenNote(t)
    PROVE  Inv(own)'
  <1>1. UNCHANGED <<binding, rows, note, pending, vault>> /\ End(t)
    BY DEF OpenNote
  <1>2. CASE UNCHANGED intent
    BY <1>1, <1>2, EndKeeps
  <1>3. ASSUME NEW i \in Intents, intent' = [intent EXCEPT ![i].pc = "claimed"]
        PROVE  Inv(own)'
    <2> DEFINE s == [intent[i] EXCEPT !.pc = "claimed"]
    <2>1. s = [x \in {"pc", "to", "seen", "row"} |-> s[x]] /\ s.pc = "claimed"
          /\ s.row = intent[i].row
      BY IntentShape
    <2>2. intent' = [intent EXCEPT ![i] = s]
      BY <1>3
    <2> HIDE DEF s
    <2>3. IntentOK(own, rows, binding, s)
      BY <2>1, IntentShape DEF IntentOK
    <2> QED
      BY <1>1, <2>1, <2>2, <2>3, SameNotes, SenderStep
  <1> QED
    BY <1>2, <1>3 DEF OpenNote

LEMMA DieKeeps ==
    ASSUME NEW own \in Owners, Inv(own), NEW t \in Tabs, Die(t)
    PROVE  Inv(own)'
  BY EndKeeps DEF Die, server, sending

-----------------------------------------------------------------------------
(* All together. *)

LEMMA StutterKeeps ==
    ASSUME NEW own \in Owners, Inv(own), UNCHANGED vars
    PROVE  Inv(own)'
  BY DEF vars, Inv, Shapes, DoneHasNote

LEMMA InitKeysInv == Init => KeysInv
  <1> SUFFICES ASSUME Init PROVE KeysInv
    OBVIOUS
  <1>1. PICK owner \in Profiles \cup {Nothing}, account \in Wallets, home \in Browsers,
             early \in SUBSET Intents :
          /\ owner = Nothing => early = {}
          /\ known = [p \in Profiles |-> p = owner]
          /\ binding = [p \in Profiles |->
                IF p = owner THEN [row |-> 1, wallet |-> account, key |-> OldKey,
                                   version |-> 1]
                             ELSE Nothing]
          /\ vault = [b \in Browsers |-> [w \in Wallets |->
                [Empty EXCEPT !.current =
                    IF owner # Nothing /\ b = home /\ w = account THEN OldKey ELSE @]]]
          /\ intent = [i \in Intents |->
                [pc |-> IF i \in early THEN "live" ELSE "new", seen |-> Nothing,
                 to |-> IF i \in early THEN owner ELSE Nothing, row |-> Nothing]]
          /\ pending = [i \in Intents |->
                [state |-> IF i \in early THEN "waiting" ELSE "none",
                 token |-> Nothing, leased |-> FALSE]]
    BY DEF Init
  <1>2. note = [i \in Intents |-> Nothing] /\ tab = [t \in Tabs |-> Idle] /\ rows = 1
    BY DEF Init
  <1> DEFINE own == [r \in 1..MaxRows |-> account]
             first == [row |-> 1, wallet |-> account, key |-> OldKey, version |-> 1]
  <1>3. own \in Owners /\ own[1] = account /\ 1 \in 1..MaxRows
    BY InboxDeliveryAssumption DEF Owners
  <1>4. /\ first \in Binding /\ first.row = 1 /\ first.wallet = account /\ first.key = OldKey
        /\ first.version = 1
    BY <1>3 DEF Binding, Secret
  <1>5. first # Nothing
    BY <1>4, NothingIsNoRow
  <1>6. \A p \in Profiles : binding[p] = IF p = owner THEN first ELSE Nothing
    BY <1>1
  <1>7. binding \in Bindings
    BY <1>1, <1>4 DEF Bindings
  <1> HIDE DEF own, first
  <1>8. Generation(own, rows, binding, first)
    BY <1>2, <1>3, <1>4, <1>5, <1>6 DEF Generation
  <1>9. BindingsOK(own, rows, binding)
    BY <1>2, <1>3, <1>4, <1>5, <1>6, <1>7, <1>8 DEF BindingsOK, RowOK
  <1>10. NotesOK(own, rows, binding, note)
    BY <1>2 DEF NotesOK
  <1>11. \A i \in Intents : IntentOK(own, rows, binding, intent[i])
    BY <1>1 DEF IntentOK
  <1>12. \A t \in Tabs : TaskOK(own, rows, binding, note, tab[t])
    BY <1>2, IdleOK
  <1>13. VaultsOK(binding, vault)
    <2> SUFFICES ASSUME NEW p \in Profiles, OldBound(binding, p)
                 PROVE  OldKey \in Secrets(vault[home][binding[p].wallet])
      BY DEF VaultsOK
    <2>1. p = owner /\ binding[p].wallet = account /\ owner # Nothing
      BY <1>4, <1>6, InboxDeliveryAssumption DEF OldBound
    <2>2. vault[home][account].current = OldKey
      BY <1>1, <2>1 DEF Empty
    <2> QED
      BY <2>1, <2>2, OldKeyIsNoWallet DEF Secrets
  <1>14. Shapes
    BY <1>1, <1>2 DEF Shapes
  <1>15. DoneHasNote
    BY <1>1 DEF DoneHasNote
  <1> QED
    BY <1>3, <1>9, <1>10, <1>11, <1>12, <1>13, <1>14, <1>15 DEF KeysInv, Inv

LEMMA NextKeysInv == KeysInv /\ [Next]_vars => KeysInv'
  <1> SUFFICES ASSUME NEW own \in Owners, Inv(own), [Next]_vars
               PROVE  \E own2 \in Owners : Inv(own2)'
    BY DEF KeysInv
  <1>1. CASE UNCHANGED vars
    BY <1>1, StutterKeeps
  <1>2. ASSUME NEW t \in Tabs, Start(t) \/ Continue(t) \/ Die(t)
        PROVE  \E own2 \in Owners : Inv(own2)'
    <2>1. CASE Insert(t)
      BY <2>1, InsertKeeps
    <2>2. CASE SyncIdentity(t) \/ ReadWallet(t) \/ ClaimPending(t) \/ Reseal(t) \/ Finish(t)
      BY <2>2, SyncIdentityKeeps, ReadWalletKeeps, ClaimPendingKeeps, ResealKeeps, FinishKeeps
    <2>3. CASE ReadMe(t) \/ EnsureKey(t) \/ Save(t) \/ OpenNote(t)
      BY <2>3, ReadMeKeeps, EnsureKeyKeeps, SaveKeeps, OpenNoteKeeps
    <2>4. CASE ReadExisting(t) \/ Relink(t) \/ FindHolder(t) \/ CheckHolder(t)
      BY <2>4, ReadExistingKeeps, RelinkKeeps, FindHolderKeeps, CheckHolderKeeps
    <2>5. CASE RevokeHolder(t) \/ RevokeOwn(t)
      BY <2>5, RevokeHolderKeeps, RevokeOwnKeeps
    <2>6. CASE CheckOwn(t) \/ Unlink(t) \/ ClearVault(t)
      BY <2>6, CheckOwnKeeps, UnlinkKeeps, ClearVaultKeeps
    <2>7. CASE Start(t) \/ Die(t)
      BY <2>7, StartKeeps, DieKeeps
    <2> QED
      BY <1>2, <2>1, <2>2, <2>3, <2>4, <2>5, <2>6, <2>7 DEF Continue
  <1>3. ASSUME NEW i \in Intents, Send(i) \/ Expire(i) \/ ExpireLease(i)
        PROVE  Inv(own)'
    BY <1>3, ResolveKeeps, CheckRecipientKeeps, StoreNoteKeeps, StorePendingKeeps, ExpireKeeps,
       ExpireLeaseKeeps DEF Send
  <1> QED
    BY <1>1, <1>2, <1>3 DEF Next

LEMMA KeysInvHolds == Spec => []KeysInv
  BY InitKeysInv, NextKeysInv, PTL DEF Spec

\* wallet-bindings.ts, privacy-state.ts, ensure-inbox-key.ts: whatever tabs and
\* browsers link, reconnect, upgrade, claim and unlink with copies however
\* stale, the secret of a published key can be had again, or some browser has it.
THEOREM PublishedKeyHeldHolds == Spec => []PublishedKeyHeld
  BY KeysInvHolds, InvSuffices, PTL

\* descriptors.ts, pending.ts: a note names the generation of the key it was
\* sealed for, also when it was sealed for a copy of a row that has changed since.
THEOREM NoteNamesItsKeyHolds == Spec => []NoteNamesItsKey
  BY KeysInvHolds, InvSuffices, PTL

\* pending.ts: however leases run out and tabs die, a claim that is done has a note.
THEOREM DoneHasNoteHolds == Spec => []DoneHasNote
  BY KeysInvHolds, InvSuffices, PTL

-----------------------------------------------------------------------------
(* Who is found by an address or a handle, for any number of profiles,       *)
(* logins and requests.  What a request knows of the rows of its own profile *)
(* stays true because a row never changes its profile; what it knows of the  *)
(* profile as a whole because nobody else writes these rows; and whoever is  *)
(* past the trigger with a name is the only one to be.                       *)

UniqueKeys(set) == \A new, other \in set : new.key = other.key => new = other

OneLinkEach(logins) == \A link, other \in logins : link.login = other.login => link = other

AccountsInv ==
    /\ accounts \in [Persons -> User]
    /\ \A p \in Persons : OneLinkEach(accounts[p].logins)

RowsInv == identities \in [Keys -> Row \cup {Unknown}]

OwnedBy(k, p) == identities[k] # Unknown /\ identities[k].owner = p

\* What a request knows is the truth about the profile, whatever the others do.
Informed(task) ==
    /\ task \in Request
    /\ task.pc = "idle" <=> task.owner = Unknown
    /\ task.todo \subseteq task.wanted /\ UniqueKeys(task.wanted)
    /\ task.pc \in {"name", "trigger", "write"} =>
          /\ task.at \in task.todo
          /\ task.found = "row" => OwnedBy(task.at.key, task.owner)
    /\ task.pc \in {"active", "revoke"} => task.todo = {}
    /\ task.pc = "revoke" => \A k \in task.stale : OwnedBy(k, task.owner)

TasksInv == syncing \in [Syncs -> Request] /\ \A s \in Syncs : Informed(syncing[s])

Shows(p, new) == /\ IsActive(new.key) /\ identities[new.key].owner = p
                 /\ identities[new.key].name = new.name

\* A request that has the profile to itself: the rows are as it has left them.
InCharge(s) ==
    LET task == syncing[s]
    IN  /\ task.pc # "idle"
        /\ \A u \in Syncs : u # s => syncing[u].owner # task.owner
        /\ task.wanted = Collected(accounts[task.owner])
        /\ \A new \in task.wanted \ task.todo : Shows(task.owner, new)
        /\ task.pc = "revoke" => task.stale = {k \in Keys : Stale(task, k)}

AloneInv == alone \subseteq Syncs /\ \A s \in alone : InCharge(s)

SettledInv ==
    /\ settled \subseteq Persons
    /\ \A p \in settled :
          /\ ActiveOf(p) = Collected(accounts[p])
          /\ \A s \in Syncs : syncing[s].owner # p

\* Whoever is past the trigger with a name has it alone.
NameInv ==
    /\ OneProfile
    /\ \A s \in Syncs : Doing(s, "write") => ~Taken(s) /\ ~Racing(s)

BaseInv == AccountsInv /\ RowsInv /\ TasksInv
IdentitiesInv == BaseInv /\ AloneInv /\ SettledInv /\ (raced \/ NameInv)

-----------------------------------------------------------------------------
LEMMA FromLoginFacts ==
    ASSUME NEW user \in User, NEW link \in user.logins, NEW new \in FromLogin(user, link)
    PROVE  /\ new \in Verified
           /\ new.key[2] = link.login
           /\ \A other \in FromLogin(user, link) : other.key = new.key => other = new
  <1>1. /\ link.login \in Logins /\ link.email \in Addresses \cup {Unknown}
        /\ link.handle \in Handles \cup {Unknown} /\ user.email \in Addresses \cup {Unknown}
    BY DEF User, Linked
  <1>2. EmailOfX(user, link) \in Addresses \cup {Unknown}
    BY <1>1 DEF EmailOfX
  <1>3. ASSUME NEW provider \in {"google", "x", "email"}, NEW name \in Names \cup {Unknown},
               NEW row \in Named(provider, link.login, name)
        PROVE  row \in Verified /\ row.key = <<provider, link.login>> /\ row.name = name
    BY <1>1, <1>3 DEF Named, Verified, Keys
  <1>4. CASE KindOf[link.login] = "google"
    <2>1. FromLogin(user, link) = Named("google", link.login, link.email)
      BY <1>4 DEF FromLogin
    <2>2. link.email \in Names \cup {Unknown}
      BY <1>1 DEF Names
    <2>3. \A other \in FromLogin(user, link) :
             other \in Verified /\ other.key = <<"google", link.login>> /\ other.name = link.email
      BY <1>3, <2>1, <2>2
    <2>4. QED
      BY <2>3 DEF Verified
  <1>5. CASE KindOf[link.login] = "x"
    <2> DEFINE email == EmailOfX(user, link)
    <2>1. FromLogin(user, link) = Named("x", link.login, link.handle)
                                  \cup Named("email", link.login, email)
      BY <1>5 DEF FromLogin
    <2>2. link.handle \in Names \cup {Unknown} /\ email \in Names \cup {Unknown}
      BY <1>1, <1>2 DEF Names
    <2> HIDE DEF email
    <2>3. \A other \in FromLogin(user, link) :
             /\ other \in Verified
             /\ \/ other.key = <<"x", link.login>> /\ other.name = link.handle
                \/ other.key = <<"email", link.login>> /\ other.name = email
      BY <1>3, <2>1, <2>2
    <2>4. QED
      BY <2>3 DEF Verified
  <1>6. CASE KindOf[link.login] = "email"
    BY <1>6 DEF FromLogin
  <1>7. QED
    BY <1>1, <1>4, <1>5, <1>6, IdentitiesAssumption

LEMMA CollectedFacts ==
    ASSUME NEW user \in User, OneLinkEach(user.logins)
    PROVE  Collected(user) \subseteq Verified /\ UniqueKeys(Collected(user))
  <1>1. Collected(user) \subseteq Verified
    BY FromLoginFacts DEF Collected
  <1>2. ASSUME NEW new \in Collected(user), NEW other \in Collected(user), new.key = other.key
        PROVE  new = other
    <2>1. PICK link \in user.logins : new \in FromLogin(user, link)
      BY DEF Collected
    <2>2. PICK link2 \in user.logins : other \in FromLogin(user, link2)
      BY DEF Collected
    <2>3. link = link2
      BY <1>2, <2>1, <2>2, FromLoginFacts DEF OneLinkEach
    <2>4. QED
      BY <1>2, <2>1, <2>2, <2>3, FromLoginFacts
  <1>3. QED
    BY <1>1, <1>2 DEF UniqueKeys

-----------------------------------------------------------------------------
(* What the steps do to the rows, seen from one profile.                    *)

Untouched(p) == \A k \in Keys : \/ identities'[k] = identities[k]
                                \/ ~OwnedBy(k, p) /\ ~OwnedBy(k, p)'

RowsStay == \A k \in Keys : identities[k] # Unknown =>
            identities'[k] # Unknown /\ identities'[k].owner = identities[k].owner

LEMMA UntouchedFacts ==
    ASSUME NEW p \in Persons, Untouched(p)
    PROVE  /\ ActiveOf(p)' = ActiveOf(p)
           /\ \A new \in Verified : Shows(p, new)' <=> Shows(p, new)
           /\ \A task \in Request, k \in Keys :
                 task.owner = p => (Stale(task, k)' <=> Stale(task, k))
  <1>1. ASSUME NEW k \in Keys
        PROVE  /\ IsActive(k)' /\ identities'[k].owner = p <=>
                     IsActive(k) /\ identities[k].owner = p
               /\ IsActive(k) /\ identities[k].owner = p => identities'[k] = identities[k]
    BY DEF Untouched, OwnedBy, IsActive
  <1>2. ActiveOf(p)' = ActiveOf(p)
    BY <1>1 DEF ActiveOf
  <1>3. \A new \in Verified : Shows(p, new)' <=> Shows(p, new)
    BY <1>1 DEF Shows, Verified
  <1>4. QED
    BY <1>1, <1>2, <1>3 DEF Stale

LEMMA RowFacts ==
    ASSUME NEW row \in Row, NEW name \in Names
    PROVE  /\ Ended(row) \in Row
           /\ Ended(row).owner = row.owner
           /\ Ended(row).status = "revoked"
           /\ Renewed(row, name) = New(row.owner, name)
  <1> DEFINE named == [row EXCEPT !.name = name]
  <1>1. named = [owner |-> row.owner, name |-> name, status |-> row.status]
    BY DEF Row
  <1> HIDE DEF named
  <1>2. [named EXCEPT !.status = "active"]
           = [owner |-> row.owner, name |-> name, status |-> "active"]
    BY <1>1
  <1>3. Ended(row) = [owner |-> row.owner, name |-> row.name, status |-> "revoked"]
    BY DEF Row, Ended
  <1>4. QED
    BY <1>2, <1>3 DEF Row, named, Renewed, New

LEMMA WriteFacts ==
    ASSUME BaseInv, NEW s \in Syncs, Write(s), ~Clashes(s)
    PROVE  LET new == syncing[s].at
               p == syncing[s].owner
           IN  /\ new \in Verified /\ new.key \in Keys /\ p \in Persons
               /\ new \in syncing[s].todo
               /\ identities' = [identities EXCEPT ![new.key] =
                     New(p, new.name)]
               /\ RowsStay /\ \A q \in Persons : q # p => Untouched(q)
  <1> DEFINE new == syncing[s].at
             p == syncing[s].owner
             row == New(p, new.name)
  <1>1. /\ syncing[s] \in Request /\ syncing[s].pc = "write" /\ Informed(syncing[s])
    BY DEF BaseInv, TasksInv, Write, Doing
  <1>2. new \in syncing[s].todo /\ new \in Verified /\ p # Unknown /\ p \in Persons
    BY <1>1 DEF Informed, Request
  <1>3. new.key \in Keys /\ new.name \in Names
    BY <1>2 DEF Verified
  <1>4. identities[new.key] \in Row \cup {Unknown} /\ identities \in [Keys -> Row \cup {Unknown}]
    BY <1>3 DEF BaseInv, RowsInv
  <1>5. identities' = [identities EXCEPT ![new.key] =
            IF syncing[s].found = "row" THEN Renewed(@, new.name) ELSE row]
    BY DEF Write
  <1>6. /\ identities[new.key] = Unknown \/ identities[new.key].owner = p
        /\ identities' = [identities EXCEPT ![new.key] = row]
    <2>1. CASE syncing[s].found = "row"
      <3>1. identities[new.key] \in Row /\ identities[new.key].owner = p
        BY <1>1, <1>4, <2>1 DEF Informed, OwnedBy
      <3>2. Renewed(identities[new.key], new.name) = row
        BY <1>3, <3>1, RowFacts
      <3>3. QED
        BY <1>5, <2>1, <3>1, <3>2
    <2>2. CASE syncing[s].found = "no row"
      BY <1>5, <2>2 DEF Clashes
    <2>3. QED
      BY <1>1, <2>1, <2>2 DEF Request
  <1>7. row \in Row /\ row # Unknown /\ row.owner = p
    BY <1>2, <1>3, UnknownIsNoRow DEF Row, New
  <1> HIDE DEF row
  <1>8. /\ \A k \in Keys : k # new.key => identities'[k] = identities[k]
        /\ identities'[new.key] = row
    BY <1>3, <1>4, <1>6
  <1>9. RowsStay
    BY <1>6, <1>7, <1>8 DEF RowsStay
  <1>10. \A q \in Persons : q # p => Untouched(q)
    BY <1>6, <1>7, <1>8 DEF Untouched, OwnedBy
  <1>11. QED
    BY <1>2, <1>3, <1>6, <1>9, <1>10 DEF row

LEMMA RevokeFacts ==
    ASSUME BaseInv, NEW s \in Syncs, Revoke(s)
    PROVE  /\ RowsStay /\ \A q \in Persons : q # syncing[s].owner => Untouched(q)
           /\ identities' \in [Keys -> Row \cup {Unknown}]
           /\ syncing[s].owner \in Persons
           /\ \A k \in Keys : /\ IsActive(k)' <=> IsActive(k) /\ k \notin syncing[s].stale
                              /\ IsActive(k)' => identities'[k] = identities[k]
  <1>1. Informed(syncing[s]) /\ syncing[s].pc = "revoke"
    BY DEF BaseInv, TasksInv, Revoke, Doing
  <1>2. syncing[s].owner \in Persons /\ syncing[s].stale \subseteq Keys
    BY <1>1 DEF Informed, Request
  <1>3. ASSUME NEW k \in syncing[s].stale
        PROVE  /\ identities[k] \in Row /\ identities[k].owner = syncing[s].owner
               /\ identities'[k] = Ended(identities[k])
    <2>1. k \in Keys /\ OwnedBy(k, syncing[s].owner)
      BY <1>1, <1>2 DEF Informed
    <2>2. QED
      BY <2>1 DEF OwnedBy, Revoke, BaseInv, RowsInv
  <1>4. ASSUME NEW k \in syncing[s].stale
        PROVE  /\ identities'[k] \in Row /\ identities'[k].owner = syncing[s].owner
               /\ identities'[k].status = "revoked"
    <2>1. PICK name : name \in Names
      BY <1>3 DEF Row
    <2>2. QED
      BY <1>3, <2>1, RowFacts
  <1>5. ASSUME NEW k \in Keys, k \notin syncing[s].stale PROVE identities'[k] = identities[k]
    BY <1>5 DEF Revoke
  <1>6. identities' \in [Keys -> Row \cup {Unknown}]
    <2>1. \A k \in Keys : identities'[k] \in Row \cup {Unknown}
      BY <1>4, <1>5 DEF BaseInv, RowsInv
    <2>2. QED
      BY <2>1 DEF Revoke
  <1>7. RowsStay
    BY <1>3, <1>4, <1>5, UnknownIsNoRow DEF RowsStay
  <1>8. \A q \in Persons : q # syncing[s].owner => Untouched(q)
    BY <1>3, <1>4, <1>5 DEF Untouched, OwnedBy
  <1>9. \A k \in Keys : /\ IsActive(k)' <=> IsActive(k) /\ k \notin syncing[s].stale
                        /\ IsActive(k)' => identities'[k] = identities[k]
    <2> SUFFICES ASSUME NEW k \in Keys
                 PROVE  /\ IsActive(k)' <=> IsActive(k) /\ k \notin syncing[s].stale
                        /\ IsActive(k)' => identities'[k] = identities[k]
      OBVIOUS
    <2>1. CASE k \in syncing[s].stale
      <3>1. ~IsActive(k)'
        BY <1>4, <2>1, Zenon DEF IsActive
      <3>2. QED
        BY <2>1, <3>1
    <2>2. CASE k \notin syncing[s].stale
      BY <1>5, <2>2 DEF IsActive
    <2>3. QED
      BY <2>1, <2>2
  <1>10. QED
    BY <1>2, <1>6, <1>7, <1>8, <1>9

-----------------------------------------------------------------------------
(* What the steps do to the requests.                                       *)

LEMMA NoSyncIsTask == NoSync \in Request /\ Informed(NoSync) /\ Informed(NoSync)'
  <1>1. NoSync \in Request
    BY DEF NoSync, Request
  <1>2. QED
    BY <1>1 DEF Informed, NoSync, UniqueKeys

LEMMA UpsertingFacts ==
    ASSUME NEW task \in Request
    PROVE  LET next == Upserting(task)
           IN  /\ next \in Request
               /\ next.owner = task.owner /\ next.todo = task.todo
               /\ next.wanted = task.wanted
               /\ next.pc = IF task.todo = {} THEN "active" ELSE "subject"
  BY DEF Upserting, Request

LEMMA GoesFacts ==
    ASSUME TasksInv, NEW s \in Syncs, NEW new, Goes(s, new)
    PROVE  syncing'[s] = new /\ \A u \in Syncs : u # s => syncing'[u] = syncing[u]
  BY DEF TasksInv, Goes

LEMMA OwnedStays ==
    ASSUME RowsStay, NEW k \in Keys, NEW p, OwnedBy(k, p)
    PROVE  OwnedBy(k, p)'
  BY DEF RowsStay, OwnedBy

LEMMA InformedStays ==
    ASSUME RowsStay, NEW task, Informed(task)
    PROVE  Informed(task)'
  <1>1. task \in Request
    BY DEF Informed
  <1>2. ASSUME task.pc \in {"name", "trigger", "write"}
        PROVE  /\ task.at \in task.todo
               /\ task.found = "row" => OwnedBy(task.at.key, task.owner)'
    <2>1. task.at \in task.todo /\ task.todo \subseteq Verified
      BY <1>1, <1>2 DEF Informed, Request
    <2>2. task.at.key \in Keys
      BY <2>1 DEF Verified
    <2>3. QED
      BY <1>2, <2>1, <2>2, OwnedStays DEF Informed
  <1>3. ASSUME task.pc = "revoke", NEW k \in task.stale
        PROVE  OwnedBy(k, task.owner)'
    <2>1. k \in Keys
      BY <1>1, <1>3 DEF Request
    <2>2. QED
      BY <1>3, <2>1, OwnedStays DEF Informed
  <1>4. QED
    BY <1>2, <1>3 DEF Informed

LEMMA TasksStay ==
    ASSUME TasksInv, RowsStay, NEW s \in Syncs, NEW new, Goes(s, new), Informed(new)'
    PROVE  TasksInv'
  <1>1. new \in Request
    BY DEF Informed
  <1>2. syncing' \in [Syncs -> Request]
    BY <1>1 DEF TasksInv, Goes
  <1>3. ASSUME NEW u \in Syncs PROVE Informed(syncing[u])'
    <2>1. CASE u = s
      BY <2>1, GoesFacts
    <2>2. CASE u # s
      BY <2>2, GoesFacts, InformedStays DEF TasksInv
    <2>3. QED
      BY <2>1, <2>2
  <1>4. QED
    BY <1>2, <1>3 DEF TasksInv

LEMMA SameRowsAreKept == ASSUME UNCHANGED identities PROVE RowsStay
  BY DEF RowsStay

LEMMA StopsKeepsTasks ==
    ASSUME TasksInv, RowsStay, NEW s \in Syncs, Stops(s)
    PROVE  TasksInv'
  BY NoSyncIsTask, TasksStay DEF Stops

\* A request that goes on upserting, whatever it has seen.
LEMMA UpsertingIsInformed ==
    ASSUME NEW task \in Request, task.owner # Unknown, task.todo \subseteq task.wanted,
           UniqueKeys(task.wanted), NEW next, next = Upserting(task)
    PROVE  Informed(next)'
  <1>1. /\ next \in Request /\ next.owner = task.owner /\ next.todo = task.todo
        /\ next.wanted = task.wanted
        /\ next.pc = IF task.todo = {} THEN "active" ELSE "subject"
    BY UpsertingFacts
  <1>2. QED
    BY <1>1 DEF Informed

LEMMA BeginSyncFacts ==
    ASSUME BaseInv, NEW p \in Persons, NEW task,
           task = [NoSync EXCEPT !.owner = p, !.todo = Collected(accounts[p]),
                                 !.wanted = Collected(accounts[p])]
    PROVE  /\ task \in Request /\ task.owner = p /\ UniqueKeys(task.wanted)
           /\ task.todo = Collected(accounts[p]) /\ task.wanted = Collected(accounts[p])
           /\ Collected(accounts[p]) \subseteq Verified
  <1>1. Collected(accounts[p]) \subseteq Verified /\ UniqueKeys(Collected(accounts[p]))
    BY CollectedFacts DEF BaseInv, AccountsInv
  <1>2. QED
    BY <1>1, NoSyncIsTask DEF NoSync, Request

LEMMA TaskFacts ==
    ASSUME BaseInv, NEW s \in Syncs, ~Doing(s, "idle")
    PROVE  /\ syncing[s] \in Request /\ syncing[s].owner \in Persons
           /\ syncing[s].owner # Unknown
           /\ syncing[s].todo \subseteq syncing[s].wanted /\ UniqueKeys(syncing[s].wanted)
           /\ syncing[s].todo \subseteq Verified /\ syncing[s].wanted \subseteq Verified
           /\ \A new \in syncing[s].wanted : new.key \in Keys /\ new.name \in Names
  <1>1. Informed(syncing[s])
    BY DEF BaseInv, TasksInv
  <1>2. /\ syncing[s] \in Request /\ syncing[s].owner \in Persons
        /\ syncing[s].owner # Unknown
        /\ syncing[s].todo \subseteq syncing[s].wanted /\ UniqueKeys(syncing[s].wanted)
    BY <1>1 DEF Informed, Request, Doing
  <1>3. syncing[s].wanted \subseteq Verified
    BY <1>2 DEF Request
  <1>4. QED
    BY <1>2, <1>3 DEF Verified

LEMMA TasksKept ==
    ASSUME BaseInv, NEW s \in Syncs, SyncStep(s)
    PROVE  TasksInv'
  <1>1. TasksInv
    BY DEF BaseInv
  <1>2. CASE BeginSync(s)
    <2>1. PICK p \in Persons :
             Goes(s, Upserting([NoSync EXCEPT !.owner = p, !.todo = Collected(accounts[p]),
                                              !.wanted = Collected(accounts[p])]))
      BY <1>2 DEF BeginSync
    <2>2. PICK task : task = [NoSync EXCEPT !.owner = p, !.todo = Collected(accounts[p]),
                                            !.wanted = Collected(accounts[p])]
      OBVIOUS
    <2>3. PICK next : next = Upserting(task)
      OBVIOUS
    <2>4. Informed(next)'
      BY <2>2, <2>3, BeginSyncFacts, UpsertingIsInformed, IdentitiesAssumption
    <2>5. Goes(s, next)
      BY <2>1, <2>2, <2>3
    <2>6. QED
      BY <1>1, <1>2, <2>4, <2>5, TasksStay, SameRowsAreKept DEF BeginSync
  <1>3. CASE CheckSubject(s)
    <2>1. CASE Stops(s)
      BY <1>1, <1>3, <2>1, StopsKeepsTasks, SameRowsAreKept DEF CheckSubject
    <2>2. CASE ~Stops(s)
      <3>1. PICK new \in syncing[s].todo :
               /\ identities[new.key] = Unknown \/ identities[new.key].owner = syncing[s].owner
               /\ Goes(s, [syncing[s] EXCEPT !.pc = "name", !.at = new, !.found =
                     IF identities[new.key] = Unknown THEN "no row" ELSE "row"])
        BY <1>3, <2>2 DEF CheckSubject
      <3>2. PICK next : next = [syncing[s] EXCEPT !.pc = "name", !.at = new, !.found =
                     IF identities[new.key] = Unknown THEN "no row" ELSE "row"]
        OBVIOUS
      <3>3. /\ syncing[s] \in Request /\ Informed(syncing[s]) /\ new \in Verified
            /\ syncing[s].pc = "subject"
        BY <1>1, <1>3, <3>1 DEF TasksInv, Informed, Request, CheckSubject, Doing
      <3>4. /\ next \in Request /\ next.pc = "name" /\ next.at = new
            /\ next.owner = syncing[s].owner /\ next.todo = syncing[s].todo
            /\ next.wanted = syncing[s].wanted
            /\ next.found = "row" => identities[new.key] # Unknown
        BY <3>2, <3>3 DEF Request
      <3>5. Informed(next)'
        BY <1>3, <3>1, <3>3, <3>4 DEF Informed, OwnedBy, CheckSubject
      <3>6. QED
        BY <1>1, <1>3, <3>1, <3>2, <3>5, TasksStay, SameRowsAreKept DEF CheckSubject
    <2>3. QED
      BY <2>1, <2>2
  <1>4. CASE CheckName(s) \/ Enforce(s)
    <2>1. UNCHANGED identities
      BY <1>4 DEF CheckName, Enforce
    <2>2. CASE Stops(s)
      BY <1>1, <2>1, <2>2, StopsKeepsTasks, SameRowsAreKept
    <2>3. CASE ~Stops(s)
      <3>1. PICK pc \in {"trigger", "write"} : Goes(s, [syncing[s] EXCEPT !.pc = pc])
        BY <1>4, <2>3 DEF CheckName, Enforce
      <3>2. PICK next : next = [syncing[s] EXCEPT !.pc = pc]
        OBVIOUS
      <3>3. /\ syncing[s] \in Request /\ Informed(syncing[s])
            /\ syncing[s].pc \in {"name", "trigger"}
        BY <1>1, <1>4 DEF TasksInv, CheckName, Enforce, Doing
      <3>4. /\ next \in Request /\ next.pc \in {"trigger", "write"} /\ next.at = syncing[s].at
            /\ next.owner = syncing[s].owner /\ next.todo = syncing[s].todo
            /\ next.wanted = syncing[s].wanted /\ next.found = syncing[s].found
        BY <3>1, <3>2, <3>3 DEF Request
      <3>5. Informed(next)'
        BY <2>1, <3>3, <3>4 DEF Informed, OwnedBy
      <3>6. QED
        BY <1>1, <2>1, <3>1, <3>2, <3>5, TasksStay, SameRowsAreKept
    <2>4. QED
      BY <2>2, <2>3
  <1>5. CASE Write(s)
    <2>1. CASE Clashes(s)
      BY <1>1, <1>5, <2>1, StopsKeepsTasks, SameRowsAreKept DEF Write
    <2>2. CASE ~Clashes(s)
      <3>1. PICK task : task = [syncing[s] EXCEPT !.todo = @ \ {syncing[s].at}]
        OBVIOUS
      <3>2. PICK next : next = Upserting(task)
        OBVIOUS
      <3>3. Goes(s, next) /\ ~Doing(s, "idle")
        BY <1>5, <2>2, <3>1, <3>2 DEF Write, Doing
      <3>4. /\ task \in Request /\ task.owner = syncing[s].owner
            /\ task.todo \subseteq syncing[s].todo /\ task.wanted = syncing[s].wanted
        BY <3>1, <3>3, TaskFacts DEF Request
      <3>5. Informed(next)'
        BY <3>2, <3>3, <3>4, TaskFacts, UpsertingIsInformed
      <3>6. RowsStay
        BY <1>5, <2>2, WriteFacts
      <3>7. QED
        BY <1>1, <3>3, <3>5, <3>6, TasksStay
    <2>3. QED
      BY <2>1, <2>2
  <1>6. CASE ReadActive(s)
    <2> DEFINE stale == {k \in Keys : Stale(syncing[s], k)}
    <2>1. CASE stale = {}
      BY <1>1, <1>6, <2>1, StopsKeepsTasks, SameRowsAreKept DEF ReadActive, Returns
    <2>2. CASE stale # {}
      <3>1. PICK p : p = syncing[s].owner
        OBVIOUS
      <3>2. stale \subseteq Keys /\ \A k \in stale : OwnedBy(k, p)
        BY <3>1 DEF OwnedBy, Stale, IsActive
      <3>3. PICK next : next = [syncing[s] EXCEPT !.pc = "revoke", !.stale = stale]
        OBVIOUS
      <3>4. Goes(s, next) /\ UNCHANGED identities
        BY <1>6, <2>2, <3>3 DEF ReadActive
      <3> HIDE DEF stale
      <3>5. syncing[s] \in Request /\ Informed(syncing[s]) /\ syncing[s].pc = "active"
        BY <1>1, <1>6 DEF TasksInv, ReadActive, Doing
      <3>6. /\ next \in Request /\ next.pc = "revoke" /\ next.stale = stale
            /\ next.owner = syncing[s].owner /\ next.todo = syncing[s].todo
            /\ next.wanted = syncing[s].wanted
        BY <3>3, <3>5, <3>2 DEF Request
      <3>7. Informed(next)'
        BY <3>1, <3>4, <3>5, <3>6, <3>2 DEF Informed, OwnedBy
      <3>8. QED
        BY <1>1, <3>4, <3>7, TasksStay, SameRowsAreKept
    <2>3. QED
      BY <2>1, <2>2
  <1>7. CASE Revoke(s)
    BY <1>1, <1>7, RevokeFacts, StopsKeepsTasks DEF Revoke, Returns
  <1>8. CASE Fails(s)
    BY <1>1, <1>8, StopsKeepsTasks, SameRowsAreKept DEF Fails
  <1>9. QED
    BY <1>2, <1>3, <1>4, <1>5, <1>6, <1>7, <1>8 DEF SyncStep

-----------------------------------------------------------------------------
(* What a step means to the others.                                         *)

LEMMA OwnersStay ==
    ASSUME BaseInv, NEW s \in Syncs, ~Doing(s, "idle"), SyncStep(s)
    PROVE  /\ syncing'[s].owner \in {syncing[s].owner, Unknown}
           /\ \A u \in Syncs : u # s => syncing'[u] = syncing[u]
           /\ alone' \subseteq alone
  <1>1. TasksInv /\ syncing[s] \in Request
    BY DEF BaseInv, TasksInv
  <1>2. NoSync.owner = Unknown
    BY DEF NoSync
  <1>3. CASE Stops(s)
    BY <1>1, <1>2, <1>3, GoesFacts DEF Stops
  <1>4. CASE ~Stops(s)
    <2>1. PICK next : /\ Goes(s, next) /\ next.owner = syncing[s].owner
                      /\ alone' \subseteq alone
      <3>1. CASE CheckSubject(s)
        <4>1. PICK new \in syncing[s].todo :
                 Goes(s, [syncing[s] EXCEPT !.pc = "name", !.at = new, !.found =
                     IF identities[new.key] = Unknown THEN "no row" ELSE "row"])
          BY <1>4, <3>1 DEF CheckSubject
        <4>2. [syncing[s] EXCEPT !.pc = "name", !.at = new, !.found =
                     IF identities[new.key] = Unknown THEN "no row" ELSE "row"].owner
              = syncing[s].owner
          BY <1>1 DEF Request
        <4>3. QED
          BY <1>4, <3>1, <4>1, <4>2 DEF CheckSubject
      <3>2. CASE CheckName(s) \/ Enforce(s)
        <4>1. PICK pc \in {"trigger", "write"} : Goes(s, [syncing[s] EXCEPT !.pc = pc])
          BY <1>4, <3>2 DEF CheckName, Enforce
        <4>2. [syncing[s] EXCEPT !.pc = pc].owner = syncing[s].owner
          BY <1>1 DEF Request
        <4>3. QED
          BY <1>4, <3>2, <4>1, <4>2 DEF CheckName, Enforce
      <3>3. CASE Write(s)
        <4>1. PICK task : task = [syncing[s] EXCEPT !.todo = @ \ {syncing[s].at}]
          OBVIOUS
        <4>2. Goes(s, Upserting(task)) /\ UNCHANGED alone
          BY <1>4, <3>3, <4>1 DEF Write
        <4>3. task \in Request /\ task.owner = syncing[s].owner
          BY <1>1, <4>1 DEF Request
        <4>4. QED
          BY <4>2, <4>3, UpsertingFacts
      <3>4. CASE ReadActive(s)
        <4> DEFINE stale == {k \in Keys : Stale(syncing[s], k)}
        <4>1. Goes(s, [syncing[s] EXCEPT !.pc = "revoke", !.stale = stale]) /\ UNCHANGED alone
          BY <1>4, <3>4 DEF ReadActive, Returns
        <4> HIDE DEF stale
        <4>2. [syncing[s] EXCEPT !.pc = "revoke", !.stale = stale].owner = syncing[s].owner
          BY <1>1 DEF Request
        <4>3. QED
          BY <4>1, <4>2
      <3>5. QED
        BY <1>4, <3>1, <3>2, <3>3, <3>4 DEF SyncStep, BeginSync, Revoke, Returns, Fails
    <2>2. QED
      BY <1>1, <2>1, GoesFacts
  <1>5. QED
    BY <1>3, <1>4

LEMMA OthersUntouched ==
    ASSUME BaseInv, NEW s \in Syncs, SyncStep(s)
    PROVE  /\ \A q \in Persons : q # syncing[s].owner => Untouched(q)
           /\ UNCHANGED accounts
           /\ identities' # identities => (Write(s) /\ ~Clashes(s)) \/ Revoke(s)
  <1>1. /\ UNCHANGED accounts
        /\ UNCHANGED identities \/ (Write(s) /\ ~Clashes(s)) \/ Revoke(s)
    <2>1. BeginSync(s) => UNCHANGED <<accounts, identities>>
      BY Zenon DEF BeginSync
    <2>2. CheckSubject(s) => UNCHANGED <<accounts, identities>>
      BY Zenon DEF CheckSubject
    <2>3. Write(s) => UNCHANGED accounts /\ (UNCHANGED identities \/ ~Clashes(s))
      BY Zenon DEF Write
    <2>4. CheckName(s) \/ Enforce(s) => UNCHANGED <<accounts, identities>>
      BY Zenon DEF CheckName, Enforce
    <2>5. ReadActive(s) \/ Fails(s) => UNCHANGED <<accounts, identities>>
      BY Zenon DEF ReadActive, Fails
    <2>6. Revoke(s) => UNCHANGED accounts
      BY Zenon DEF Revoke
    <2>7. QED
      BY <2>1, <2>2, <2>3, <2>4, <2>5, <2>6 DEF SyncStep
  <1>2. CASE UNCHANGED identities
    BY <1>1, <1>2 DEF Untouched
  <1>3. CASE Write(s) /\ ~Clashes(s)
    BY <1>1, <1>3, WriteFacts
  <1>4. CASE Revoke(s)
    BY <1>1, <1>4, RevokeFacts
  <1>5. QED
    BY <1>1, <1>2, <1>3, <1>4

LEMMA InChargeStays ==
    ASSUME BaseInv, NEW u \in Syncs, NEW p \in Persons, syncing[u].owner = p, InCharge(u),
           syncing'[u] = syncing[u], accounts'[p] = accounts[p], Untouched(p),
           \A v \in Syncs : v # u => syncing'[v].owner # p
    PROVE  InCharge(u)'
  <1>1. syncing[u].pc # "idle" /\ ~Doing(u, "idle")
    BY DEF InCharge, Doing
  <1>2. syncing[u] \in Request /\ syncing[u].wanted \subseteq Verified
    BY <1>1, TaskFacts
  <1>3. \A new \in syncing[u].wanted \ syncing[u].todo : Shows(p, new)'
    BY <1>2, UntouchedFacts DEF InCharge
  <1>4. PICK task : task = syncing[u]
    OBVIOUS
  <1>5. {k \in Keys : Stale(task, k)'} = {k \in Keys : Stale(task, k)}
    BY <1>2, <1>4, UntouchedFacts
  <1>6. syncing[u].pc = "revoke" => syncing[u].stale = {k \in Keys : Stale(task, k)'}
    BY <1>4, <1>5 DEF InCharge
  <1>7. QED
    BY <1>1, <1>3, <1>4, <1>6 DEF InCharge, Stale

-----------------------------------------------------------------------------
(* Every step keeps every part of the invariant.                            *)

LEMMA AlterFacts ==
    ASSUME BaseInv, NEW p \in Persons, LinkLogin(p) \/ UnlinkLogin(p)
    PROVE  /\ \E user \in User : /\ OneLinkEach(user.logins)
                                 /\ accounts' = [accounts EXCEPT ![p] = user]
           /\ \A q \in Persons : q # p => accounts'[q] = accounts[q]
           /\ settled' = settled \ {p} /\ alone' = alone \ Busy(p)
           /\ UNCHANGED <<identities, syncing, raced>>
  <1>1. accounts \in [Persons -> User] /\ OneLinkEach(accounts[p].logins)
    BY DEF BaseInv, AccountsInv
  <1>2. accounts[p].logins \in SUBSET Linked /\ accounts[p].email \in Addresses \cup {Unknown}
    BY <1>1 DEF User
  <1>3. PICK user \in User : OneLinkEach(user.logins) /\ Alter(p, user)
    <2>1. CASE LinkLogin(p)
      <3>1. PICK link \in Linked : \E email \in {accounts[p].email, link.email} :
               /\ \A q \in Persons : \A other \in accounts[q].logins : other.login # link.login
               /\ Alter(p, [logins |-> accounts[p].logins \cup {link}, email |-> email])
        BY <2>1 DEF LinkLogin
      <3>2. PICK email \in {accounts[p].email, link.email} :
               Alter(p, [logins |-> accounts[p].logins \cup {link}, email |-> email])
        BY <3>1
      <3>3. link.email \in Addresses \cup {Unknown}
        BY DEF Linked
      <3>4. PICK user : user = [logins |-> accounts[p].logins \cup {link}, email |-> email]
        OBVIOUS
      <3>5. user \in User /\ user.logins = accounts[p].logins \cup {link}
        BY <1>2, <3>3, <3>4 DEF User
      <3>6. OneLinkEach(user.logins)
        BY <1>1, <3>1, <3>5 DEF OneLinkEach
      <3>7. QED
        BY <3>2, <3>4, <3>5, <3>6
    <2>2. CASE UnlinkLogin(p)
      <3>1. PICK link \in accounts[p].logins :
               Alter(p, [accounts[p] EXCEPT !.logins = @ \ {link}])
        BY <2>2 DEF UnlinkLogin
      <3>2. PICK user : user = [accounts[p] EXCEPT !.logins = @ \ {link}]
        OBVIOUS
      <3>3. user \in User /\ user.logins = accounts[p].logins \ {link}
        BY <1>1, <3>2 DEF User
      <3>4. QED
        BY <1>1, <3>1, <3>2, <3>3 DEF OneLinkEach
    <2>3. QED
      BY <2>1, <2>2
  <1>4. QED
    BY <1>1, <1>3 DEF Alter

LEMMA BaseKept ==
    ASSUME BaseInv, IdentitiesNext
    PROVE  BaseInv'
  <1>1. ASSUME NEW p \in Persons, LinkLogin(p) \/ UnlinkLogin(p) PROVE BaseInv'
    <2>1. PICK user \in User : /\ OneLinkEach(user.logins)
                               /\ accounts' = [accounts EXCEPT ![p] = user]
      BY <1>1, AlterFacts
    <2>2. UNCHANGED <<identities, syncing>>
      BY <1>1, AlterFacts
    <2>3. AccountsInv'
      BY <2>1 DEF BaseInv, AccountsInv
    <2>4. QED
      BY <2>2, <2>3 DEF BaseInv, RowsInv, TasksInv, Informed, OwnedBy
  <1>2. ASSUME NEW s \in Syncs, SyncStep(s) PROVE BaseInv'
    <2>1. TasksInv' /\ UNCHANGED accounts
      BY <1>2, TasksKept, OthersUntouched
    <2>2. RowsInv'
      <3>1. CASE Write(s) /\ ~Clashes(s)
        <4>1. syncing[s].owner \in Persons /\ syncing[s].at.name \in Names
          BY <3>1, WriteFacts DEF Verified
        <4>2. New(syncing[s].owner, syncing[s].at.name) \in Row
          BY <4>1 DEF New, Row
        <4>3. QED
          BY <3>1, <4>2, WriteFacts DEF BaseInv, RowsInv
      <3>2. CASE Revoke(s)
        BY <3>2, RevokeFacts DEF RowsInv
      <3>3. QED
        BY <1>2, <3>1, <3>2, OthersUntouched DEF BaseInv, RowsInv
    <2>3. QED
      BY <2>1, <2>2 DEF BaseInv, AccountsInv
  <1>3. QED
    BY <1>1, <1>2 DEF IdentitiesNext

LEMMA SelfStays ==
    ASSUME NEW s \in Syncs, NEW p \in Persons, syncing[s].owner = p, InCharge(s), TasksInv,
           UNCHANGED accounts, \A u \in Syncs : u # s => syncing'[u] = syncing[u],
           NEW next, Goes(s, next), next.pc # "idle", next.owner = p,
           next.wanted = syncing[s].wanted,
           \A new \in next.wanted \ next.todo : Shows(p, new)',
           next.pc = "revoke" => next.stale = {k \in Keys : Stale(next, k)'}
    PROVE  InCharge(s)'
  <1>1. syncing'[s] = next
    BY GoesFacts
  <1>2. QED
    BY <1>1 DEF InCharge, Stale

\* The request itself, when it has its profile to itself.
LEMMA SelfInCharge ==
    ASSUME BaseInv, NEW s \in Syncs, SyncStep(s), ~Doing(s, "idle"), ~Stops(s), InCharge(s)
    PROVE  InCharge(s)'
  <1>1. PICK p : p = syncing[s].owner
    OBVIOUS
  <1>2. /\ syncing[s] \in Request /\ p \in Persons /\ p # Unknown
        /\ syncing[s].wanted \subseteq Verified /\ syncing[s].todo \subseteq syncing[s].wanted
        /\ UniqueKeys(syncing[s].wanted)
        /\ \A new \in syncing[s].wanted : new.key \in Keys /\ new.name \in Names
    BY <1>1, TaskFacts
  <1>3. \A u \in Syncs : u # s => syncing'[u] = syncing[u] /\ syncing[u].owner # p
    BY <1>1, OwnersStay DEF InCharge
  <1>4. UNCHANGED accounts /\ TasksInv
    BY OthersUntouched DEF BaseInv
  <1>5. \A new \in syncing[s].wanted \ syncing[s].todo : Shows(p, new)
    BY <1>1 DEF InCharge
  <1>6. ASSUME UNCHANGED identities, NEW new, Shows(p, new) PROVE Shows(p, new)'
    BY <1>6 DEF Shows, IsActive
  <1>7. CASE CheckSubject(s)
    <2>1. PICK new \in syncing[s].todo :
             Goes(s, [syncing[s] EXCEPT !.pc = "name", !.at = new, !.found =
                 IF identities[new.key] = Unknown THEN "no row" ELSE "row"])
      BY <1>7 DEF CheckSubject
    <2>2. PICK next : next = [syncing[s] EXCEPT !.pc = "name", !.at = new, !.found =
                 IF identities[new.key] = Unknown THEN "no row" ELSE "row"]
      OBVIOUS
    <2>3. /\ next.pc = "name" /\ next.owner = p /\ next.todo = syncing[s].todo
          /\ next.wanted = syncing[s].wanted
      BY <1>1, <1>2, <2>2 DEF Request
    <2>4. UNCHANGED identities
      BY <1>7 DEF CheckSubject
    <2>5. QED
      BY <1>1, <1>2, <1>3, <1>4, <1>5, <1>6, <2>1, <2>2, <2>3, <2>4, SelfStays
  <1>8. CASE CheckName(s) \/ Enforce(s)
    <2>1. PICK pc \in {"trigger", "write"} : Goes(s, [syncing[s] EXCEPT !.pc = pc])
      BY <1>8 DEF CheckName, Enforce
    <2>2. PICK next : next = [syncing[s] EXCEPT !.pc = pc]
      OBVIOUS
    <2>3. /\ next.pc = pc /\ next.owner = p /\ next.todo = syncing[s].todo
          /\ next.wanted = syncing[s].wanted
      BY <1>1, <1>2, <2>2 DEF Request
    <2>4. UNCHANGED identities
      BY <1>8 DEF CheckName, Enforce
    <2>5. QED
      BY <1>1, <1>2, <1>3, <1>4, <1>5, <1>6, <2>1, <2>2, <2>3, <2>4, SelfStays
  <1>9. CASE Write(s)
    <2>1. PICK at : at = syncing[s].at
      OBVIOUS
    <2>2. ~Clashes(s)
      BY <1>9 DEF Write
    <2>3. /\ at \in syncing[s].todo /\ at.key \in Keys
          /\ identities' = [identities EXCEPT ![at.key] = New(p, at.name)]
      BY <1>1, <1>9, <2>1, <2>2, WriteFacts
    <2>4. PICK task : task = [syncing[s] EXCEPT !.todo = @ \ {at}]
      OBVIOUS
    <2>5. PICK next : next = Upserting(task)
      OBVIOUS
    <2>6. Goes(s, next)
      BY <1>9, <2>1, <2>2, <2>4, <2>5 DEF Write
    <2>7. /\ task \in Request /\ task.owner = p /\ task.todo = syncing[s].todo \ {at}
          /\ task.wanted = syncing[s].wanted
      BY <1>1, <1>2, <2>4 DEF Request
    <2>8. /\ next.pc \in {"active", "subject"} /\ next.owner = p
          /\ next.todo = syncing[s].todo \ {at} /\ next.wanted = syncing[s].wanted
      BY <2>5, <2>7, UpsertingFacts
    <2>9. ASSUME NEW new \in next.wanted \ next.todo PROVE Shows(p, new)'
      <3>1. identities \in [Keys -> Row \cup {Unknown}]
        BY DEF BaseInv, RowsInv
      <3>2. CASE new = at
        <4>1. New(p, at.name) = identities'[at.key]
          BY <2>3, <3>1
        <4>2. New(p, at.name) # Unknown
          BY <1>2, <2>3, <2>8, UnknownIsNoRow DEF New, Row
        <4>3. QED
          BY <3>2, <4>1, <4>2 DEF Shows, IsActive, New
      <3>3. CASE new # at
        <4>1. new \in syncing[s].wanted \ syncing[s].todo /\ new.key \in Keys
          BY <1>2, <2>8, <2>9, <3>3
        <4>2. new.key # at.key
          BY <1>2, <2>3, <3>3, <4>1 DEF UniqueKeys
        <4>3. identities'[new.key] = identities[new.key]
          BY <2>3, <3>1, <4>1, <4>2
        <4>4. QED
          BY <1>5, <4>1, <4>3 DEF Shows, IsActive
      <3>4. QED
        BY <3>2, <3>3
    <2>10. QED
      BY <1>1, <1>2, <1>3, <1>4, <2>6, <2>8, <2>9, SelfStays
  <1>10. CASE ReadActive(s)
    <2>1. PICK stale : stale = {k \in Keys : Stale(syncing[s], k)}
      OBVIOUS
    <2>2. PICK next : next = [syncing[s] EXCEPT !.pc = "revoke", !.stale = stale]
      OBVIOUS
    <2>3. Goes(s, next) /\ UNCHANGED identities
      BY <1>10, <2>1, <2>2 DEF ReadActive, Returns
    <2>4. /\ next.pc = "revoke" /\ next.owner = p /\ next.todo = syncing[s].todo
          /\ next.wanted = syncing[s].wanted /\ next.stale = stale
      BY <1>1, <1>2, <2>2 DEF Request
    <2>5. next.stale = {k \in Keys : Stale(next, k)'}
      BY <1>1, <2>1, <2>3, <2>4 DEF Stale, IsActive
    <2>6. QED
      BY <1>1, <1>2, <1>3, <1>4, <1>5, <1>6, <2>3, <2>4, <2>5, SelfStays
  <1>11. QED
    BY <1>7, <1>8, <1>9, <1>10 DEF SyncStep, BeginSync, Revoke, Returns, Fails

LEMMA AloneKept ==
    ASSUME BaseInv, AloneInv, IdentitiesNext
    PROVE  AloneInv'
  <1>1. ASSUME NEW p \in Persons, LinkLogin(p) \/ UnlinkLogin(p) PROVE AloneInv'
    <2>1. ASSUME NEW u \in alone' PROVE u \in Syncs /\ InCharge(u)'
      <3>1. u \in Syncs /\ InCharge(u) /\ syncing[u].owner # p /\ ~Doing(u, "idle")
        BY <1>1, <2>1, AlterFacts DEF AloneInv, Busy, InCharge, Doing
      <3>2. UNCHANGED <<identities, syncing>> /\ syncing[u].owner \in Persons
        BY <1>1, <3>1, AlterFacts, TaskFacts
      <3>3. accounts'[syncing[u].owner] = accounts[syncing[u].owner]
        BY <1>1, <3>1, <3>2, AlterFacts
      <3>4. QED
        BY <3>1, <3>2, <3>3, InChargeStays DEF InCharge, Untouched
    <2>2. QED
      BY <2>1 DEF AloneInv
  <1>2. ASSUME NEW s \in Syncs, BeginSync(s) PROVE AloneInv'
    <2>1. PICK p \in Persons :
             /\ Goes(s, Upserting([NoSync EXCEPT !.owner = p, !.todo = Collected(accounts[p]),
                                                 !.wanted = Collected(accounts[p])]))
             /\ alone' = (alone \ Busy(p)) \cup (IF Busy(p) = {} THEN {s} ELSE {})
      BY <1>2 DEF BeginSync
    <2>2. PICK task : task = [NoSync EXCEPT !.owner = p, !.todo = Collected(accounts[p]),
                                            !.wanted = Collected(accounts[p])]
      OBVIOUS
    <2>3. PICK next : next = Upserting(task)
      OBVIOUS
    <2>4. Goes(s, next)
      BY <2>1, <2>2, <2>3
    <2>5. /\ next.owner = p /\ next.todo = next.wanted /\ next.wanted = Collected(accounts[p])
          /\ next.pc \in {"active", "subject"}
      <3>1. /\ task \in Request /\ task.owner = p
            /\ task.todo = Collected(accounts[p]) /\ task.wanted = Collected(accounts[p])
        BY <2>2, BeginSyncFacts
      <3>2. QED
        BY <2>3, <3>1, UpsertingFacts
    <2>6. /\ syncing'[s] = next /\ \A u \in Syncs : u # s => syncing'[u] = syncing[u]
          /\ UNCHANGED <<accounts, identities>>
      BY <1>2, <2>4, GoesFacts DEF BaseInv, BeginSync
    <2>7. ASSUME NEW u \in alone', u # s PROVE u \in Syncs /\ InCharge(u)'
      <3>1. u \in Syncs /\ InCharge(u) /\ syncing[u].owner # p /\ ~Doing(u, "idle")
        BY <2>1, <2>7 DEF AloneInv, Busy, InCharge, Doing
      <3>2. syncing[u].owner \in Persons
        BY <3>1, TaskFacts
      <3>3. QED
        BY <2>5, <2>6, <2>7, <3>1, <3>2, InChargeStays DEF InCharge, Untouched
    <2>8. ASSUME s \in alone' PROVE InCharge(s)'
      <3>1. syncing[s].owner = Unknown /\ s \notin alone
        BY <1>2 DEF BaseInv, TasksInv, Informed, BeginSync, Doing, AloneInv, InCharge
      <3>2. Busy(p) = {}
        BY <2>1, <2>8, <3>1
      <3>3. QED
        BY <2>5, <2>6, <3>2 DEF InCharge, Busy
    <2>9. QED
      BY <2>7, <2>8 DEF AloneInv
  <1>3. ASSUME NEW s \in Syncs, SyncStep(s), ~Doing(s, "idle") PROVE AloneInv'
    <2>1. /\ syncing'[s].owner \in {syncing[s].owner, Unknown}
          /\ \A u \in Syncs : u # s => syncing'[u] = syncing[u]
          /\ alone' \subseteq alone
      BY <1>3, OwnersStay
    <2>2. ASSUME NEW u \in alone', u # s PROVE u \in Syncs /\ InCharge(u)'
      <3>1. u \in Syncs /\ InCharge(u) /\ ~Doing(u, "idle")
        BY <2>1, <2>2 DEF AloneInv, InCharge, Doing
      <3>2. syncing[u].owner \in Persons /\ syncing[u].owner # Unknown
        BY <3>1, TaskFacts
      <3>3. syncing[s].owner # syncing[u].owner
        BY <2>2, <3>1 DEF InCharge
      <3>4. Untouched(syncing[u].owner) /\ UNCHANGED accounts
        BY <1>3, <3>2, <3>3, OthersUntouched
      <3>5. QED
        BY <2>1, <2>2, <3>1, <3>2, <3>3, <3>4, InChargeStays DEF InCharge
    <2>3. ASSUME s \in alone' PROVE InCharge(s)'
      <3>1. InCharge(s) /\ ~Stops(s)
        BY <2>1, <2>3 DEF AloneInv, Stops
      <3>2. QED
        BY <1>3, <3>1, SelfInCharge
    <2>4. QED
      BY <2>1, <2>2, <2>3 DEF AloneInv
  <1>4. QED
    BY <1>1, <1>2, <1>3
       DEF IdentitiesNext, SyncStep, BeginSync, CheckSubject, CheckName, Enforce, Write,
           ReadActive, Revoke, Fails, Doing

\* A request that returns, and had its profile to itself, has settled it.
LEMMA ReturnsSettles ==
    ASSUME BaseInv, NEW s \in Syncs, InCharge(s), ReadActive(s) \/ Revoke(s), Returns(s),
           NEW p, syncing[s].owner = p
    PROVE  /\ ActiveOf(p)' = Collected(accounts[p])'
           /\ \A u \in Syncs : syncing'[u].owner # p
  <1>1. p = syncing[s].owner
    OBVIOUS
  <1>2. /\ syncing[s] \in Request /\ p \in Persons /\ p # Unknown
        /\ syncing[s].wanted \subseteq Verified /\ ~Doing(s, "idle")
    BY <1>1, TaskFacts DEF InCharge, Doing
  <1>3. PICK wanted : wanted = syncing[s].wanted
    OBVIOUS
  <1>4. syncing[s].todo = {} /\ TasksInv
    BY DEF BaseInv, TasksInv, Informed, ReadActive, Revoke, Doing
  <1>5. wanted = Collected(accounts[p]) /\ \A new \in wanted : Shows(p, new)
    BY <1>1, <1>3, <1>4 DEF InCharge
  <1>6. PICK stale : stale = {k \in Keys : Stale(syncing[s], k)}
    OBVIOUS
  <1>7. \A k \in Keys : /\ IsActive(k)' <=> IsActive(k) /\ k \notin stale
                        /\ IsActive(k)' => identities'[k] = identities[k]
    <2>1. CASE ReadActive(s)
      <3>1. UNCHANGED identities
        BY <2>1 DEF ReadActive
      <3>2. stale = {}
        <4>1. CASE stale # {}
          <5>1. PICK next : next = [syncing[s] EXCEPT !.pc = "revoke", !.stale = stale]
            OBVIOUS
          <5>2. Goes(s, next)
            BY <1>6, <2>1, <4>1, <5>1 DEF ReadActive
          <5>3. Goes(s, NoSync)
            BY DEF Returns, Stops
          <5>4. next.owner = p /\ NoSync.owner = Unknown
            BY <1>1, <1>2, <5>1 DEF Request, NoSync
          <5>5. QED
            BY <1>2, <1>4, <5>2, <5>3, <5>4, GoesFacts
        <4>2. QED
          BY <4>1
      <3>3. QED
        BY <3>1, <3>2 DEF IsActive
    <2>2. CASE Revoke(s)
      <3>1. syncing[s].stale = stale
        BY <1>6, <2>2 DEF InCharge, Revoke, Doing
      <3>2. QED
        BY <2>2, <3>1, RevokeFacts
    <2>3. QED
      BY <2>1, <2>2
  <1>8. ASSUME NEW k \in Keys
        PROVE  (IsActive(k)' /\ identities'[k].owner = p) <=> \E new \in wanted : new.key = k
    <2>1. ASSUME NEW new \in wanted, new.key = k
          PROVE  IsActive(k)' /\ identities'[k].owner = p
      <3>1. IsActive(k) /\ identities[k].owner = p
        BY <1>5, <2>1 DEF Shows
      <3>2. k \notin stale
        BY <1>3, <1>6, <2>1 DEF Stale
      <3>3. QED
        BY <1>7, <3>1, <3>2
    <2>2. ASSUME IsActive(k)', identities'[k].owner = p
          PROVE  \E new \in wanted : new.key = k
      BY <1>1, <1>3, <1>6, <1>7, <2>2 DEF Stale
    <2>3. QED
      BY <2>1, <2>2
  <1>9. \A new \in wanted : /\ new.key \in Keys /\ new = [key |-> new.key, name |-> new.name]
                            /\ identities'[new.key].name = new.name
    <2>1. ASSUME NEW new \in wanted
          PROVE  new.key \in Keys /\ new = [key |-> new.key, name |-> new.name]
      BY <1>2, <1>3 DEF Verified
    <2>2. QED
      BY <1>5, <1>7, <1>8, <2>1 DEF Shows
  <1>10. ActiveOf(p)' = wanted
    <2>1. ActiveOf(p)' = {[key |-> k, name |-> identities'[k].name] :
                             k \in {l \in Keys : \E new \in wanted : new.key = l}}
      BY <1>8 DEF ActiveOf
    <2>2. QED
      BY <1>9, <2>1
  <1>11. UNCHANGED accounts
    BY DEF ReadActive, Revoke
  <1>12. \A u \in Syncs : syncing'[u].owner # p
    <2>1. syncing'[s] = NoSync /\ \A u \in Syncs : u # s => syncing'[u] = syncing[u]
      BY <1>4, GoesFacts DEF Returns, Stops
    <2>2. NoSync.owner = Unknown
      BY DEF NoSync
    <2>3. QED
      BY <1>1, <1>2, <2>1, <2>2 DEF InCharge
  <1>13. QED
    BY <1>1, <1>5, <1>10, <1>11, <1>12

LEMMA SettledKept ==
    ASSUME BaseInv, AloneInv, SettledInv, IdentitiesNext
    PROVE  SettledInv'
  <1> DEFINE Rests(p) == /\ ActiveOf(p) = Collected(accounts[p])
                         /\ \A s \in Syncs : syncing[s].owner # p
  <1>1. ASSUME NEW p \in Persons, LinkLogin(p) \/ UnlinkLogin(p) PROVE SettledInv'
    <2>1. /\ settled' = settled \ {p} /\ UNCHANGED <<identities, syncing>>
          /\ \A q \in Persons : q # p => accounts'[q] = accounts[q]
      BY <1>1, AlterFacts
    <2>2. QED
      BY <2>1 DEF SettledInv, ActiveOf, IsActive
  <1>2. ASSUME NEW s \in Syncs, BeginSync(s) PROVE SettledInv'
    <2>1. PICK p \in Persons :
             /\ Goes(s, Upserting([NoSync EXCEPT !.owner = p, !.todo = Collected(accounts[p]),
                                                 !.wanted = Collected(accounts[p])]))
             /\ settled' = settled \ {p}
      BY <1>2 DEF BeginSync
    <2>2. PICK task : task = [NoSync EXCEPT !.owner = p, !.todo = Collected(accounts[p]),
                                            !.wanted = Collected(accounts[p])]
      OBVIOUS
    <2>3. task \in Request /\ task.owner = p
      BY <2>2, BeginSyncFacts
    <2>4. Goes(s, Upserting(task)) /\ UNCHANGED <<accounts, identities>>
      BY <1>2, <2>1, <2>2 DEF BeginSync
    <2>5. /\ syncing'[s].owner = p /\ \A u \in Syncs : u # s => syncing'[u] = syncing[u]
      BY <2>3, <2>4, UpsertingFacts, GoesFacts DEF BaseInv
    <2>6. QED
      BY <2>1, <2>4, <2>5 DEF SettledInv, ActiveOf, IsActive
  <1>3. ASSUME NEW s \in Syncs, SyncStep(s), ~Doing(s, "idle") PROVE SettledInv'
    <2>1. /\ syncing'[s].owner \in {syncing[s].owner, Unknown}
          /\ \A u \in Syncs : u # s => syncing'[u] = syncing[u]
          /\ UNCHANGED accounts
          /\ \A q \in Persons : q # syncing[s].owner => Untouched(q)
      BY <1>3, OwnersStay, OthersUntouched
    <2>2. ASSUME NEW q \in settled PROVE q \in Persons /\ Rests(q)'
      <3>1. q \in Persons /\ Rests(q)
        BY <2>2 DEF SettledInv
      <3>2. ActiveOf(q)' = ActiveOf(q)
        BY <2>1, <3>1, UntouchedFacts
      <3>3. q # Unknown
        BY <3>1, IdentitiesAssumption
      <3>4. QED
        BY <2>1, <3>1, <3>2, <3>3
    <2>3. CASE UNCHANGED settled
      BY <2>2, <2>3 DEF SettledInv
    <2>4. CASE settled' # settled
      <3>1. (ReadActive(s) \/ Revoke(s)) /\ Returns(s)
        BY <1>3, <2>4 DEF SyncStep, BeginSync, CheckSubject, CheckName, Enforce, Write,
                          ReadActive, Revoke, Fails, Doing
      <3>2. s \in alone /\ settled' = settled \cup {syncing[s].owner}
        BY <2>4, <3>1 DEF Returns
      <3>3. PICK p : p = syncing[s].owner
        OBVIOUS
      <3>4. p \in Persons /\ Rests(p)'
        BY <1>3, <3>1, <3>2, <3>3, ReturnsSettles, TaskFacts DEF AloneInv
      <3>5. QED
        BY <2>2, <3>2, <3>3, <3>4 DEF SettledInv
    <2>5. QED
      BY <2>3, <2>4
  <1>4. QED
    BY <1>1, <1>2, <1>3
       DEF IdentitiesNext, SyncStep, BeginSync, CheckSubject, CheckName, Enforce, Write,
           ReadActive, Revoke, Fails, Doing

\* Only the trigger lets a request write, and only when nobody has the name.
LEMMA WritesNext ==
    ASSUME BaseInv, NEW s \in Syncs, SyncStep(s), Doing(s, "write")', ~raced'
    PROVE  /\ Doing(s, "trigger") /\ ~Taken(s) /\ ~Racing(s) /\ UNCHANGED identities
           /\ syncing'[s].owner = syncing[s].owner /\ syncing'[s].at = syncing[s].at
  <1>1. TasksInv /\ syncing[s] \in Request
    BY DEF BaseInv, TasksInv
  <1>2. ~Stops(s)
    <2>1. NoSync.pc = "idle"
      BY DEF NoSync
    <2>2. Stops(s) => syncing'[s] = NoSync
      BY <1>1, GoesFacts DEF Stops
    <2>3. QED
      BY <2>1, <2>2 DEF Doing
  <1>3. ASSUME NEW task \in Request PROVE ~Goes(s, Upserting(task))
    <2>1. Upserting(task).pc \in {"active", "subject"}
      BY UpsertingFacts
    <2>2. QED
      BY <1>1, <2>1, GoesFacts DEF Doing
  <1>4. ~BeginSync(s)
    <2>1. ASSUME NEW p \in Persons,
                 Goes(s, Upserting([NoSync EXCEPT !.owner = p, !.todo = Collected(accounts[p]),
                                                  !.wanted = Collected(accounts[p])]))
          PROVE  FALSE
      <3>1. PICK task : task = [NoSync EXCEPT !.owner = p, !.todo = Collected(accounts[p]),
                                              !.wanted = Collected(accounts[p])]
        OBVIOUS
      <3>2. task \in Request
        BY <3>1, BeginSyncFacts
      <3>3. QED
        BY <1>3, <2>1, <3>1, <3>2
    <2>2. QED
      BY <2>1 DEF BeginSync
  <1>5. ~CheckSubject(s)
    <2>1. ASSUME NEW new, NEW next,
                 Goes(s, next),
                 next = [syncing[s] EXCEPT !.pc = "name", !.at = new, !.found =
                     IF identities[new.key] = Unknown THEN "no row" ELSE "row"]
          PROVE  FALSE
      <3>1. next.pc = "name"
        BY <1>1, <2>1 DEF Request
      <3>2. QED
        BY <1>1, <2>1, <3>1, GoesFacts DEF Doing
    <2>2. QED
      BY <1>2, <2>1 DEF CheckSubject
  <1>6. ~CheckName(s)
    <2>1. ASSUME NEW next, Goes(s, next), next = [syncing[s] EXCEPT !.pc = "trigger"]
          PROVE  FALSE
      <3>1. next.pc = "trigger"
        BY <1>1, <2>1 DEF Request
      <3>2. QED
        BY <1>1, <2>1, <3>1, GoesFacts DEF Doing
    <2>2. QED
      BY <1>2, <2>1 DEF CheckName
  <1>7. ~Write(s)
    <2>1. PICK task : task = [syncing[s] EXCEPT !.todo = @ \ {syncing[s].at}]
      OBVIOUS
    <2>2. task \in Request
      BY <1>1, <2>1 DEF Request
    <2>3. Write(s) => Goes(s, Upserting(task))
      BY <1>2, <2>1 DEF Write
    <2>4. QED
      BY <1>3, <2>2, <2>3
  <1>8. ~ReadActive(s)
    <2>1. PICK next : next = [syncing[s] EXCEPT !.pc = "revoke",
                                 !.stale = {k \in Keys : Stale(syncing[s], k)}]
      OBVIOUS
    <2>2. next.pc = "revoke"
      BY <1>1, <2>1 DEF Request
    <2>3. ReadActive(s) => Goes(s, next)
      BY <1>2, <2>1 DEF ReadActive, Returns
    <2>4. QED
      BY <1>1, <2>2, <2>3, GoesFacts DEF Doing
  <1>9. Enforce(s)
    BY <1>2, <1>4, <1>5, <1>6, <1>7, <1>8 DEF SyncStep, Revoke, Returns, Fails
  <1>10. PICK next : next = [syncing[s] EXCEPT !.pc = "write"]
    OBVIOUS
  <1>11. next.owner = syncing[s].owner /\ next.at = syncing[s].at
    BY <1>1, <1>10 DEF Request
  <1>12. Doing(s, "trigger") /\ Goes(s, next) /\ ~Taken(s) /\ ~Racing(s) /\ UNCHANGED identities
    BY <1>2, <1>9, <1>10 DEF Enforce
  <1>13. QED
    BY <1>1, <1>11, <1>12, GoesFacts

LEMMA NameKept ==
    ASSUME BaseInv, raced \/ NameInv, IdentitiesNext
    PROVE  (raced \/ NameInv)'
  <1>1. raced => raced'
    BY DEF IdentitiesNext, LinkLogin, UnlinkLogin, Alter, SyncStep, BeginSync, CheckSubject,
           CheckName, Enforce, Write, ReadActive, Revoke, Fails
  <1>2. SUFFICES ASSUME ~raced, ~raced', NameInv PROVE NameInv'
    BY <1>1
  <1>3. ASSUME NEW p \in Persons, LinkLogin(p) \/ UnlinkLogin(p) PROVE NameInv'
    <2>1. UNCHANGED <<identities, syncing>>
      BY <1>3, AlterFacts
    <2>2. QED
      BY <1>2, <2>1
         DEF NameInv, OneProfile, Doing, Taken, ActiveAs, IsActive, Racing
  <1>4. ASSUME NEW s \in Syncs, SyncStep(s) PROVE NameInv'
    <2>1. PICK next : Goes(s, next)
      BY <1>4 DEF SyncStep, BeginSync, CheckSubject, CheckName, Enforce, Write, ReadActive,
                  Revoke, Returns, Fails, Stops
    <2>2. \A u \in Syncs : u # s => syncing'[u] = syncing[u]
      BY <2>1, GoesFacts DEF BaseInv
    <2>3. Doing(s, "write")' => /\ ~Taken(s) /\ ~Racing(s) /\ UNCHANGED identities
                                /\ syncing'[s].owner = syncing[s].owner
                                /\ syncing'[s].at = syncing[s].at
      BY <1>2, <1>4, WritesNext
    <2>4. ASSUME NEW u \in Syncs, Doing(u, "write")'
          PROVE  /\ ~Taken(u) /\ ~Racing(u) /\ ~Racing(u)'
                 /\ syncing'[u].owner = syncing[u].owner /\ syncing'[u].at = syncing[u].at
      <3>1. /\ ~Taken(u) /\ ~Racing(u)
            /\ syncing'[u].owner = syncing[u].owner /\ syncing'[u].at = syncing[u].at
        BY <1>2, <2>2, <2>3, <2>4 DEF NameInv, Doing
      <3>2. ASSUME NEW v \in Syncs, Doing(v, "write")',
                   syncing'[v].owner # syncing'[u].owner, syncing'[v].at.name = syncing'[u].at.name
            PROVE  FALSE
        <4>1. syncing'[v].owner = syncing[v].owner /\ syncing'[v].at = syncing[v].at
          BY <2>2, <2>3, <3>2
        <4>2. CASE v # s
          BY <2>2, <3>1, <3>2, <4>1, <4>2 DEF Racing, Doing
        <4>3. CASE v = s
          BY <2>2, <2>3, <2>4, <3>1, <3>2, <4>1, <4>3 DEF Racing, Doing
        <4>4. QED
          BY <4>2, <4>3
      <3>3. QED
        BY <3>1, <3>2 DEF Racing
    <2>5. CASE \A k \in Keys : IsActive(k)' => IsActive(k) /\ identities'[k] = identities[k]
      <3>1. OneProfile'
        BY <1>2, <2>5 DEF NameInv, OneProfile
      <3>2. ASSUME NEW u \in Syncs, Doing(u, "write")' PROVE ~Taken(u)'
        BY <2>4, <2>5, <3>2 DEF Taken, ActiveAs
      <3>3. QED
        BY <2>4, <3>1, <3>2 DEF NameInv
    <2>6. CASE Write(s) /\ ~Clashes(s)
      <3>1. PICK at, p : at = syncing[s].at /\ p = syncing[s].owner
        OBVIOUS
      <3>2. /\ at.key \in Keys /\ identities' = [identities EXCEPT ![at.key] = New(p, at.name)]
            /\ identities \in [Keys -> Row \cup {Unknown}]
        BY <2>6, <3>1, WriteFacts DEF BaseInv, RowsInv
      <3>3. /\ identities'[at.key].owner = p /\ identities'[at.key].name = at.name
            /\ \A k \in Keys : k # at.key => identities'[k] = identities[k]
        BY <3>2 DEF New
      <3>4. ~Taken(s) /\ Doing(s, "write") /\ OneProfile
        BY <1>2, <2>6 DEF NameInv, Write
      <3>5. \A k \in Keys : IsActive(k) /\ identities[k].name = at.name
                               => identities[k].owner = p
        BY <3>1, <3>4 DEF Taken, ActiveAs
      <3>6. \A k \in Keys : k # at.key => (IsActive(k)' <=> IsActive(k))
        BY <3>3 DEF IsActive
      <3>7. OneProfile'
        BY <3>3, <3>4, <3>5, <3>6 DEF OneProfile
      <3>8. ASSUME NEW u \in Syncs, Doing(u, "write")' PROVE ~Taken(u)'
        <4>1. u # s
          BY <1>2, <1>4, <2>6, <3>8, WritesNext DEF Write, Doing
        <4>2. Doing(u, "write") /\ syncing'[u] = syncing[u] /\ ~Taken(u) /\ ~Racing(u)
          BY <2>2, <2>4, <3>8, <4>1 DEF Doing
        <4>3. p = syncing[u].owner \/ at.name # syncing[u].at.name
          BY <3>1, <3>4, <4>2 DEF Racing
        <4>4. QED
          BY <3>3, <3>6, <4>2, <4>3 DEF Taken, ActiveAs
      <3>9. QED
        BY <2>4, <3>7, <3>8 DEF NameInv
    <2>7. QED
      <3>1. CASE UNCHANGED identities
        BY <2>5, <3>1 DEF IsActive
      <3>2. CASE Revoke(s)
        BY <2>5, <3>2, RevokeFacts
      <3>3. QED
        BY <1>4, <2>6, <3>1, <3>2, OthersUntouched
  <1>5. QED
    BY <1>3, <1>4 DEF IdentitiesNext

-----------------------------------------------------------------------------
LEMMA IdentitiesInitially == IdentitiesInit => IdentitiesInv
  <1> SUFFICES ASSUME IdentitiesInit PROVE IdentitiesInv
    OBVIOUS
  <1>1. AccountsInv
    BY DEF IdentitiesInit, AccountsInv, User, OneLinkEach
  <1>2. RowsInv /\ TasksInv
    BY NoSyncIsTask DEF IdentitiesInit, RowsInv, TasksInv
  <1>3. AloneInv /\ SettledInv
    BY DEF IdentitiesInit, AloneInv, SettledInv
  <1>4. NameInv
    BY DEF IdentitiesInit, NameInv, OneProfile, IsActive, Doing, NoSync
  <1>5. QED
    BY <1>1, <1>2, <1>3, <1>4 DEF IdentitiesInv, BaseInv

LEMMA IdentitiesInductive == IdentitiesInv /\ [IdentitiesNext]_identitiesVars => IdentitiesInv'
  <1> SUFFICES ASSUME IdentitiesInv, [IdentitiesNext]_identitiesVars PROVE IdentitiesInv'
    OBVIOUS
  <1>1. CASE IdentitiesNext
    BY <1>1, BaseKept, AloneKept, SettledKept, NameKept DEF IdentitiesInv
  <1>2. CASE UNCHANGED identitiesVars
    BY <1>2 DEF IdentitiesInv, identitiesVars, ghosts, BaseInv, AccountsInv, RowsInv,
                TasksInv, Informed, OwnedBy, AloneInv, InCharge, Shows, Stale, SettledInv,
                ActiveOf, IsActive, NameInv, OneProfile, Doing, Taken, ActiveAs, Racing
  <1>3. QED
    BY <1>1, <1>2

LEMMA IdentitiesInvHolds == IdentitiesSpec => []IdentitiesInv
  BY IdentitiesInitially, IdentitiesInductive, PTL DEF IdentitiesSpec

\* However many requests of however many profiles are interleaved, and wherever
\* they break off, an address or a handle has one profile, unless two requests
\* are past enforce_identity_owner with it at the same time.
THEOREM NameHasOneProfileHolds == IdentitiesSpec => []NameHasOneProfile
  <1>1. IdentitiesInv => NameHasOneProfile
    BY DEF IdentitiesInv, NameInv, OneProfile, NameHasOneProfile
  <1>2. QED
    BY <1>1, IdentitiesInvHolds, PTL

\* A sync that had its profile to itself leaves the rows of the profile as its
\* account has them, until the account changes or the next sync begins.
THEOREM SettledIsTrueHolds == IdentitiesSpec => []SettledIsTrue
  <1>1. IdentitiesInv => SettledIsTrue
    BY DEF IdentitiesInv, SettledInv, SettledIsTrue
  <1>2. QED
    BY <1>1, IdentitiesInvHolds, PTL
=============================================================================
