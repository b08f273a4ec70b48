------------------------------ MODULE EarnProofs ------------------------------
(***************************************************************************)
(* Theorems about Earn for any number of panels and tabs, amounts,         *)
(* transactions, reloads and failures: one prompt in a tab, nothing sent   *)
(* again within the replay window, a cost basis that deposits back and     *)
(* that follows the shares held.                                           *)
(*                                                                         *)
(* A step changes one tab, so the invariant is stated tab by tab and press *)
(* by press, with operators that take what they speak of as parameters:    *)
(* views is the value of panel, r that of rt[t], s that of txs.            *)
(***************************************************************************)
EXTENDS Earn, FiniteSetTheorems, TLAPS

-----------------------------------------------------------------------------
(* The shape of a state. *)

View == [pc : PCs, key : Keys, before : Nat, hash : Nat,
         usdc : Nat \cup {Masked}, shares : Nat \cup {Masked}]
Tab == [gate : BOOLEAN, handled : SUBSET Nat, completed : SUBSET Nat,
        inFlight : Panels \cup {Nobody}]
Tx == [key : Keys, tab : Tabs, status : {"sent", "ok", "reverted"},
       age : {"unseen", "recent", "old"}]

Purse == /\ tabOf \in [Panels -> Tabs \cup {Nobody}]
         /\ held \in [usdc : Nat, shares : Nat]
         /\ claimed \in BOOLEAN /\ astray \in BOOLEAN /\ ledger \in Nat
Types == Purse /\ txs \in Seq(Tx) /\ rt \in [Tabs -> Tab] /\ panel \in [Panels -> View]

Submitting == {"checking", "prompt", "sent"}
Active == Submitting \cup {"verifying"}

\* What a press of p in tab t knows of itself and of its transaction, and that
\* none like it is remembered while it is being submitted.
PressFits(p, view, t, s) ==
    /\ view.pc # "idle" => t \in Tabs
    /\ view.pc \notin {"idle", "revealing"} =>
          (p \in EarnPanels <=> view.key.kind # "claim")
    /\ view.pc = "revealing" => p \in EarnPanels
    /\ view.pc = "following" => p \in ClaimViews
    /\ view.pc = "connecting" /\ view.key.kind = "redeem" => view.key.amount \in {50, 100}
    /\ view.pc \in Active /\ view.key.kind = "redeem" =>
          view.key.amount # 0 /\ view.key.amount <= view.before
    /\ view.pc \in {"sent", "verifying"} =>
          /\ view.hash \in 1..Len(s) /\ s[view.hash].key = view.key
          /\ s[view.hash].tab = t
    /\ view.pc = "sent" => s[view.hash].age = "unseen"
    /\ view.pc = "verifying" => s[view.hash].status = "ok" /\ s[view.hash].age # "unseen"
    /\ view.pc \in Submitting => \A j \in 1..Len(s) :
          ~ (s[j].tab = t /\ s[j].key = view.key /\ s[j].age = "recent")

\* The gate of a tab is held by one panel of it alone.
GateFits(t, r, views, tabs) ==
    \A p \in EarnPanels : tabs[p] = t /\ views[p].pc # "idle" =>
        /\ r.gate
        /\ \A q \in EarnPanels : tabs[q] = t /\ views[q].pc # "idle" => p = q

\* Its submission in flight is that of the panel at it, and of who follows that.
FlightFits(t, r, views, tabs) ==
    /\ r.inFlight # Nobody =>
          tabs[r.inFlight] = t /\ views[r.inFlight].pc \in Submitting
    /\ \A p \in Panels : tabs[p] = t /\ views[p].pc \in Submitting => r.inFlight = p
    /\ \A p \in Panels : tabs[p] = t /\ views[p].pc = "following" =>
          r.inFlight # Nobody /\ views[r.inFlight].key = views[p].key

\* What it remembers has succeeded, and it remembers what is recent.
MemoryFits(t, r, s) ==
    /\ \A h \in r.completed \cup r.handled :
          /\ h \in 1..Len(s) /\ s[h].tab = t
          /\ s[h].status = "ok" /\ s[h].age # "unseen"
    /\ \A h \in 1..Len(s) : s[h].tab = t /\ s[h].age = "recent" => h \in r.completed

PressesFit == \A p \in Panels : PressFits(p, panel[p], tabOf[p], txs)
TabsFit == \A t \in Tabs : /\ GateFits(t, rt[t], panel, tabOf)
                           /\ FlightFits(t, rt[t], panel, tabOf)
                           /\ MemoryFits(t, rt[t], txs)
Structure == Types /\ PressesFit /\ TabsFit

\* Transactions only advance, and for tab t none becomes recent.
GoesOn(t, s, z) ==
    /\ Len(s) <= Len(z)
    /\ \A h \in 1..Len(s) :
          /\ z[h].key = s[h].key /\ z[h].tab = s[h].tab
          /\ s[h].status = "ok" => z[h].status = "ok"
          /\ s[h].tab = t => /\ z[h].age = "unseen" <=> s[h].age = "unseen"
                             /\ z[h].age = "recent" => s[h].age = "recent"
    /\ \A h \in 1..Len(z) : h \in 1..Len(s) \/ z[h].age = "unseen"

LEMMA TxsStay == ASSUME NEW t, NEW s \in Seq(Tx) PROVE GoesOn(t, s, s)
  BY DEF GoesOn

LEMMA PressGoesOn ==
    ASSUME NEW p, NEW t, NEW view, NEW s \in Seq(Tx), NEW z \in Seq(Tx), GoesOn(t, s, z),
           PressFits(p, view, t, s)
    PROVE  PressFits(p, view, t, z)
  <1>1. \A h \in 1..Len(s) : h \in 1..Len(z)
    BY DEF GoesOn
  <1>2. view.pc \in Submitting => \A j \in 1..Len(z) :
            ~ (z[j].tab = t /\ z[j].key = view.key /\ z[j].age = "recent")
    BY DEF GoesOn, PressFits
  <1> QED BY <1>1, <1>2 DEF GoesOn, PressFits, Submitting, Active

LEMMA MemoryGoesOn ==
    ASSUME NEW t, NEW r, NEW s \in Seq(Tx), NEW z \in Seq(Tx), GoesOn(t, s, z),
           MemoryFits(t, r, s)
    PROVE  MemoryFits(t, r, z)
  BY DEF GoesOn, MemoryFits

LEMMA OtherTab ==
    ASSUME NEW t, NEW r \in Tab, NEW views, NEW moved, NEW tabs,
           \A p \in Panels : tabs[p] = t => moved[p] = views[p]
    PROVE  /\ GateFits(t, r, views, tabs) => GateFits(t, r, moved, tabs)
           /\ FlightFits(t, r, views, tabs) => FlightFits(t, r, moved, tabs)
  <1>1. EarnPanels \subseteq Panels BY DEF Panels
  <1>2. GateFits(t, r, views, tabs) => GateFits(t, r, moved, tabs)
    BY <1>1 DEF GateFits
  <1>3. r.inFlight \in Panels \cup {Nobody} BY DEF Tab
  <1>4. FlightFits(t, r, views, tabs) => FlightFits(t, r, moved, tabs)
    BY <1>3 DEF FlightFits
  <1> QED BY <1>2, <1>4

\* A step that leaves all tabs but one as they were.
StaysTyped == /\ Purse' /\ txs' \in Seq(Tx)
              /\ rt' \in [Tabs -> Tab] /\ panel' \in [Panels -> View]
OnlyIn(t) == /\ tabOf' = tabOf
             /\ \A u \in Tabs \ {t} : rt'[u] = rt[u]
             /\ \A p \in Panels : tabOf[p] # t => panel'[p] = panel[p]
             /\ \A u \in (Tabs \cup {Nobody}) \ {t} : GoesOn(u, txs, txs')

LEMMA TabStep ==
    ASSUME Structure, NEW t \in Tabs, StaysTyped, OnlyIn(t),
           \A p \in Panels : tabOf[p] = t => PressFits(p, panel'[p], t, txs'),
           GateFits(t, rt'[t], panel', tabOf), FlightFits(t, rt'[t], panel', tabOf),
           MemoryFits(t, rt'[t], txs')
    PROVE  Structure'
  <1>1. Types' BY DEF StaysTyped, Types
  <1>2. ASSUME NEW p \in Panels PROVE PressFits(p, panel'[p], tabOf[p], txs')
    <2>1. CASE tabOf[p] = t BY <2>1
    <2>2. CASE tabOf[p] # t
      <3>1. tabOf[p] \in (Tabs \cup {Nobody}) \ {t} BY <2>2 DEF Structure, Types, Purse
      <3>2. GoesOn(tabOf[p], txs, txs') /\ panel'[p] = panel[p] BY <3>1, <2>2 DEF OnlyIn
      <3>3. PressFits(p, panel[p], tabOf[p], txs) BY DEF Structure, PressesFit
      <3> QED BY <3>2, <3>3, PressGoesOn DEF Structure, Types, StaysTyped
    <2> QED BY <2>1, <2>2
  <1>3. ASSUME NEW u \in Tabs, u # t
        PROVE  /\ GateFits(u, rt'[u], panel', tabOf) /\ FlightFits(u, rt'[u], panel', tabOf)
               /\ MemoryFits(u, rt'[u], txs')
    <2>1. rt'[u] = rt[u] /\ GoesOn(u, txs, txs') /\ rt[u] \in Tab
      BY <1>3 DEF OnlyIn, Structure, Types
    <2>2. \A p \in Panels : tabOf[p] = u => panel'[p] = panel[p] BY <1>3 DEF OnlyIn
    <2>3. /\ GateFits(u, rt[u], panel, tabOf) /\ FlightFits(u, rt[u], panel, tabOf)
          /\ MemoryFits(u, rt[u], txs)
      BY DEF Structure, TabsFit
    <2>4. GateFits(u, rt[u], panel', tabOf) /\ FlightFits(u, rt[u], panel', tabOf)
      BY <2>1, <2>2, <2>3, OtherTab
    <2>5. MemoryFits(u, rt[u], txs')
      BY <2>1, <2>3, MemoryGoesOn DEF Structure, Types, StaysTyped
    <2> QED BY <2>1, <2>4, <2>5
  <1>4. tabOf' = tabOf BY DEF OnlyIn
  <1>5. PressesFit' BY <1>2, <1>4 DEF PressesFit
  <1>6. TabsFit' BY <1>3, <1>4 DEF TabsFit
  <1> QED BY <1>1, <1>5, <1>6 DEF Structure

\* A step of tab t in which the presses of S end.
LEMMA TabEnds ==
    ASSUME Structure, NEW t \in Tabs, StaysTyped, OnlyIn(t), GoesOn(t, txs, txs'),
           NEW S \in SUBSET Panels,
           \A p \in S : panel'[p].pc = "idle",
           \A p \in Panels \ S : panel'[p] = panel[p],
           \A p \in EarnPanels \ S :
               tabOf[p] = t /\ panel[p].pc # "idle" => rt'[t].gate,
           \/ /\ rt'[t].inFlight = Nobody
              /\ \A p \in Panels \ S :
                    tabOf[p] = t => panel[p].pc \notin Submitting \cup {"following"}
           \/ /\ rt'[t].inFlight = rt[t].inFlight
              /\ \A p \in S : panel[p].pc \notin Submitting,
           MemoryFits(t, rt'[t], txs')
    PROVE  Structure'
  <1>0. EarnPanels \subseteq Panels BY DEF Panels
  <1>1. ASSUME NEW p \in Panels, tabOf[p] = t PROVE PressFits(p, panel'[p], t, txs')
    <2>1. CASE p \in S BY <2>1 DEF PressFits, Submitting, Active
    <2>2. CASE p \notin S
      <3>1. panel'[p] = panel[p] BY <2>2
      <3>2. PressFits(p, panel[p], t, txs) BY <1>1 DEF Structure, PressesFit
      <3> QED BY <3>1, <3>2, PressGoesOn DEF Structure, Types, StaysTyped
    <2> QED BY <2>1, <2>2
  <1>2. GateFits(t, rt[t], panel, tabOf) /\ FlightFits(t, rt[t], panel, tabOf)
    BY DEF Structure, TabsFit
  <1>3. GateFits(t, rt'[t], panel', tabOf)
    BY <1>0, <1>2 DEF GateFits
  <1>4. rt[t].inFlight \in Panels \cup {Nobody} BY DEF Structure, Types, Tab
  <1>5. FlightFits(t, rt'[t], panel', tabOf)
    BY <1>2, <1>4 DEF FlightFits, Submitting
  <1> QED BY <1>1, <1>3, <1>5, TabStep

-----------------------------------------------------------------------------
(* Every step keeps the structure.                                          *)

LEMMA HashesStay ==
    ASSUME Types, UNCHANGED txs
    PROVE  /\ txs' \in Seq(Tx) /\ \A u : GoesOn(u, txs, txs')
  BY TxsStay DEF Types

LEMMA PanelsAre ==
    ASSUME Structure, NEW p \in Panels
    PROVE  /\ panel[p] \in View /\ PressFits(p, panel[p], tabOf[p], txs)
           /\ panel[p].pc # "idle" => tabOf[p] \in Tabs
           /\ tabOf[p] \in Tabs \cup {Nobody}
  BY DEF Structure, Types, Purse, PressesFit, PressFits

LEMMA TabsAre ==
    ASSUME Structure, NEW t \in Tabs
    PROVE  /\ rt[t] \in Tab /\ GateFits(t, rt[t], panel, tabOf)
           /\ FlightFits(t, rt[t], panel, tabOf) /\ MemoryFits(t, rt[t], txs)
  BY DEF Structure, Types, TabsFit

LEMMA EndedFits ==
    ASSUME NEW view \in View
    PROVE  Ended(view) \in View /\ Ended(view).pc = "idle"
  <1>1. NoKey \in Keys BY DEF NoKey, Keys
  <1> QED BY <1>1 DEF Ended, View, PCs

LEMMA ReleaseFits ==
    ASSUME Types, NEW t \in Tabs, NEW S
    PROVE  /\ Release(t, S) \in Tab
           /\ Release(t, S).gate <=> rt[t].gate /\ S \cap EarnPanels = {}
           /\ Release(t, S).handled = rt[t].handled
           /\ Release(t, S).completed = rt[t].completed
           /\ Release(t, S).inFlight = rt[t].inFlight
  <1>1. rt[t] \in Tab BY DEF Types
  <1> DEFINE g == rt[t].gate /\ S \cap EarnPanels = {}
  <1>2. Release(t, S) = [rt[t] EXCEPT !.gate = g] BY DEF Release
  <1>3. g \in BOOLEAN OBVIOUS
  <1> HIDE DEF g
  <1>4. [rt[t] EXCEPT !.gate = g] \in Tab BY <1>1, <1>3 DEF Tab
  <1>5. /\ [rt[t] EXCEPT !.gate = g].gate = g
        /\ [rt[t] EXCEPT !.gate = g].handled = rt[t].handled
        /\ [rt[t] EXCEPT !.gate = g].completed = rt[t].completed
        /\ [rt[t] EXCEPT !.gate = g].inFlight = rt[t].inFlight
    BY <1>1 DEF Tab
  <1> QED BY <1>2, <1>4, <1>5 DEF g

\* The gate stays with who has it when no panel of the tab ends, and is free
\* when the one that had it does.
LEMMA GateGoesOn ==
    ASSUME Structure, NEW t \in Tabs, NEW S \in SUBSET Panels,
           \A p \in S : panel[p].pc # "idle" /\ tabOf[p] = t,
           NEW p \in EarnPanels \ S, tabOf[p] = t, panel[p].pc # "idle"
    PROVE  Release(t, S).gate
  <1>1. GateFits(t, rt[t], panel, tabOf) BY TabsAre
  <1>2. rt[t].gate /\ S \cap EarnPanels = {} BY <1>1 DEF GateFits
  <1> QED BY <1>2, ReleaseFits DEF Structure

\* A press of p ends that is not at a submission.
LEMMA PressEnds ==
    ASSUME Structure, NEW p \in Panels, panel[p].pc \notin Submitting \cup {"idle"},
           NEW view \in View, panel' = [panel EXCEPT ![p] = Ended(view)],
           NEW r \in Tab, rt' = [rt EXCEPT ![tabOf[p]] = r],
           r.gate = Release(tabOf[p], {p}).gate, r.inFlight = rt[tabOf[p]].inFlight,
           MemoryFits(tabOf[p], r, txs),
           UNCHANGED Wallet, ledger' \in Nat, astray' \in BOOLEAN
    PROVE  Structure'
  <1> DEFINE t == tabOf[p]
  <1>1. t \in Tabs BY PanelsAre
  <1>2. rt'[t] = r /\ \A u \in Tabs \ {t} : rt'[u] = rt[u]
    BY <1>1 DEF Structure, Types
  <1>4. StaysTyped
    BY <1>1, EndedFits, HashesStay DEF Structure, Types, Purse, Wallet, StaysTyped
  <1>5. \A u : GoesOn(u, txs, txs') BY HashesStay DEF Structure, Wallet
  <1>6. OnlyIn(t)
    BY <1>1, <1>2, <1>5 DEF OnlyIn, Structure, Types, Wallet
  <1> DEFINE S == {p}
  <1>8. \A q \in EarnPanels \ S : tabOf[q] = t /\ panel[q].pc # "idle" => rt'[t].gate
    BY <1>1, <1>2, GateGoesOn
  <1>9. rt'[t].inFlight = rt[t].inFlight BY <1>2
  <1>10. MemoryFits(t, rt'[t], txs') BY <1>2 DEF Wallet
  <1>11. /\ S \in SUBSET Panels /\ \A q \in S : panel[q].pc \notin Submitting
         /\ \A q \in S : panel'[q].pc = "idle"
         /\ \A q \in Panels \ S : panel'[q] = panel[q]
    BY <1>1, EndedFits DEF Structure, Types
  <1> HIDE DEF t, S
  <1> QED BY <1>1, <1>4, <1>5, <1>6, <1>8, <1>9, <1>10, <1>11, TabEnds

LEMMA EndStructure ==
    ASSUME Structure, NEW p \in Panels, End(p), panel[p].pc \notin Submitting \cup {"idle"},
           UNCHANGED Wallet, ledger' = ledger, astray' \in BOOLEAN
    PROVE  Structure'
  <1>1. tabOf[p] \in Tabs /\ panel[p] \in View BY PanelsAre
  <1> DEFINE r == Release(tabOf[p], {p})
  <1>2. panel' = [panel EXCEPT ![p] = Ended(panel[p])] /\ rt' = [rt EXCEPT ![tabOf[p]] = r]
    BY DEF End
  <1>3. /\ r \in Tab /\ r.inFlight = rt[tabOf[p]].inFlight
        /\ r.completed = rt[tabOf[p]].completed /\ r.handled = rt[tabOf[p]].handled
    BY <1>1, ReleaseFits DEF Structure
  <1>4. MemoryFits(tabOf[p], r, txs) BY <1>1, <1>3, TabsAre DEF MemoryFits
  <1>5. r.gate = Release(tabOf[p], {p}).gate /\ ledger' \in Nat BY DEF Structure, Types, Purse
  <1> HIDE DEF r
  <1> QED BY <1>1, <1>2, <1>3, <1>4, <1>5, PressEnds

\* The presses that end with the one at the submission are those that follow.
LEMMA WaitingAre ==
    ASSUME Structure, NEW p \in Panels, panel[p].pc \in Submitting
    PROVE  /\ tabOf[p] \in Tabs /\ rt[tabOf[p]].inFlight = p /\ p \in Waiting(p)
           /\ Waiting(p) \in SUBSET Panels
           /\ \A q \in Waiting(p) : /\ tabOf[q] = tabOf[p] /\ panel[q].pc # "idle"
                                    /\ panel[q].key = panel[p].key
                                    /\ q # p => q \in ClaimViews /\ panel[q].pc = "following"
           /\ \A q \in Panels \ Waiting(p) : tabOf[q] = tabOf[p] =>
                  panel[q].pc \notin Submitting \cup {"following"}
  <1>1. tabOf[p] \in Tabs BY PanelsAre DEF Submitting
  <1>2. FlightFits(tabOf[p], rt[tabOf[p]], panel, tabOf) BY <1>1, TabsAre
  <1>3. rt[tabOf[p]].inFlight = p BY <1>2 DEF FlightFits
  <1>4. \A q \in Panels : tabOf[q] = tabOf[p] /\ panel[q].pc = "following" =>
            panel[q].key = panel[p].key
    BY <1>2, <1>3 DEF FlightFits
  <1>5. \A q \in Panels : tabOf[q] = tabOf[p] /\ panel[q].pc \in Submitting => q = p
    BY <1>2, <1>3 DEF FlightFits
  <1>6. \A q \in Panels : panel[q].pc = "following" => q \in ClaimViews
    BY PanelsAre DEF PressFits
  <1> QED BY <1>1, <1>3, <1>4, <1>5, <1>6 DEF Waiting, At, Submitting

LEMMA RejectStructure ==
    ASSUME Structure, NEW p \in Panels, panel[p].pc \in Submitting, Reject(p),
           UNCHANGED Wallet, ledger' = ledger, astray' \in BOOLEAN
    PROVE  Structure'
  <1> DEFINE t == tabOf[p]
  <1>1. /\ t \in Tabs /\ Waiting(p) \in SUBSET Panels
        /\ \A q \in Waiting(p) : tabOf[q] = t /\ panel[q].pc # "idle"
        /\ \A q \in Panels \ Waiting(p) : tabOf[q] = t =>
                  panel[q].pc \notin Submitting \cup {"following"}
    BY WaitingAre
  <1> DEFINE r == [Release(t, Waiting(p)) EXCEPT !.inFlight = Nobody]
  <1>2. /\ panel' = [q \in Panels |-> IF q \in Waiting(p) THEN Ended(panel[q]) ELSE panel[q]]
        /\ rt' = [rt EXCEPT ![t] = r]
    BY DEF Reject
  <1>3. Release(t, Waiting(p)) \in Tab BY <1>1, ReleaseFits DEF Structure
  <1>4. /\ r \in Tab /\ r.inFlight = Nobody /\ r.gate = Release(t, Waiting(p)).gate
        /\ r.completed = rt[t].completed /\ r.handled = rt[t].handled
    BY <1>1, <1>3, ReleaseFits DEF Tab, Structure
  <1> HIDE DEF r
  <1>5. \A q \in Panels : panel[q] \in View BY DEF Structure, Types
  <1>6. StaysTyped
    BY <1>1, <1>2, <1>4, <1>5, EndedFits, HashesStay DEF Structure, Types, Purse, Wallet, StaysTyped
  <1>7. \A u : GoesOn(u, txs, txs') BY HashesStay DEF Structure, Wallet
  <1>8. /\ \A q \in Waiting(p) : panel'[q].pc = "idle"
        /\ \A q \in Panels \ Waiting(p) : panel'[q] = panel[q]
    BY <1>1, <1>2, <1>5, EndedFits
  <1>9. rt'[t] = r /\ \A u \in Tabs \ {t} : rt'[u] = rt[u]
    BY <1>1, <1>2 DEF Structure, Types
  <1>10. OnlyIn(t)
    BY <1>1, <1>7, <1>8, <1>9 DEF OnlyIn, Wallet
  <1>11. \A q \in EarnPanels \ Waiting(p) : tabOf[q] = t /\ panel[q].pc # "idle" => rt'[t].gate
    BY <1>1, <1>4, <1>9, GateGoesOn
  <1>12. MemoryFits(t, rt'[t], txs')
    BY <1>1, <1>4, <1>9, TabsAre DEF MemoryFits, Wallet
  <1>13. rt'[t].inFlight = Nobody BY <1>4, <1>9
  <1> HIDE DEF t
  <1> QED
    BY <1>1, <1>6, <1>7, <1>8, <1>10, <1>11, <1>12, <1>13, TabEnds

LEMMA KeyFits ==
    /\ \A kind \in {"deposit", "redeem", "claim"}, amount \in Nat :
          [kind |-> kind, amount |-> amount] \in Keys
    /\ \A key \in Keys, amount \in Nat :
          /\ [key EXCEPT !.amount = amount] \in Keys
          /\ [key EXCEPT !.amount = amount].kind = key.kind
          /\ [key EXCEPT !.amount = amount].amount = amount
  BY DEF Keys

\* One panel goes on to a place where it is not at a submission, alone or as
\* one that takes the gate.
LEMMA PressMoves ==
    ASSUME Structure, NEW p \in Panels, tabOf[p] \in Tabs,
           NEW view \in View, panel' = [panel EXCEPT ![p] = view],
           NEW r \in Tab, rt' = [rt EXCEPT ![tabOf[p]] = r],
           panel[p].pc \notin Submitting, view.pc \notin Submitting,
           PressFits(p, view, tabOf[p], txs),
           r.inFlight = rt[tabOf[p]].inFlight, MemoryFits(tabOf[p], r, txs),
           \/ panel[p].pc # "idle" /\ r.gate = rt[tabOf[p]].gate
           \/ p \in EarnPanels /\ ~rt[tabOf[p]].gate /\ r.gate
           \/ p \in ClaimViews /\ r.gate = rt[tabOf[p]].gate,
           view.pc = "following" => /\ r.inFlight # Nobody
                                    /\ panel[r.inFlight].key = view.key,
           UNCHANGED Wallet, ledger' = ledger, astray' \in BOOLEAN
    PROVE  Structure'
  <1> DEFINE t == tabOf[p]
  <1>1. rt'[t] = r /\ \A u \in Tabs \ {t} : rt'[u] = rt[u]
    BY DEF Structure, Types
  <1>2. panel'[p] = view /\ \A q \in Panels \ {p} : panel'[q] = panel[q]
    BY DEF Structure, Types
  <1>3. StaysTyped
    BY HashesStay DEF Structure, Types, Purse, Wallet, StaysTyped
  <1>4. \A u : GoesOn(u, txs, txs') BY HashesStay DEF Structure, Wallet
  <1>5. OnlyIn(t)
    BY <1>1, <1>2, <1>4 DEF OnlyIn, Wallet
  <1>6. /\ GateFits(t, rt[t], panel, tabOf) /\ FlightFits(t, rt[t], panel, tabOf)
        /\ \A q \in Panels : PressFits(q, panel[q], tabOf[q], txs)
    BY TabsAre, PanelsAre
  <1>7. ASSUME NEW q \in Panels, tabOf[q] = t PROVE PressFits(q, panel'[q], t, txs')
    BY <1>2, <1>6, <1>7 DEF Wallet
  <1>8. EarnPanels \subseteq Panels /\ EarnPanels \cap ClaimViews = {}
    BY EarnAssumption DEF Panels
  <1>9. GateFits(t, r, panel', tabOf)
    BY <1>2, <1>6, <1>8 DEF GateFits
  <1>10. r.inFlight \in Panels \cup {Nobody} BY DEF Tab
  <1>11. r.inFlight # p
    BY <1>6, EarnAssumption DEF FlightFits
  <1>12. FlightFits(t, r, panel', tabOf)
    BY <1>2, <1>6, <1>10, <1>11 DEF FlightFits
  <1>13. MemoryFits(t, rt'[t], txs') BY <1>1 DEF Wallet
  <1> HIDE DEF t
  <1>14. t \in Tabs BY DEF t
  <1> QED BY <1>1, <1>3, <1>5, <1>7, <1>9, <1>12, <1>13, <1>14, TabStep

LEMMA PressIsView ==
    ASSUME NEW view \in View, NEW pc \in PCs, NEW key \in Keys, NEW before \in Nat,
           NEW hash \in Nat
    PROVE  /\ [view EXCEPT !.pc = pc] \in View
           /\ [view EXCEPT !.pc = pc, !.key = key] \in View
           /\ [view EXCEPT !.key = key, !.before = before] \in View
           /\ [view EXCEPT !.pc = pc, !.hash = hash] \in View
  BY DEF View

LEMMA GateTaken ==
    ASSUME Types, NEW t \in Tabs
    PROVE  /\ [rt[t] EXCEPT !.gate = TRUE] \in Tab
           /\ [rt[t] EXCEPT !.gate = TRUE].gate
           /\ [rt[t] EXCEPT !.gate = TRUE].inFlight = rt[t].inFlight
           /\ [rt[t] EXCEPT !.gate = TRUE].completed = rt[t].completed
           /\ [rt[t] EXCEPT !.gate = TRUE].handled = rt[t].handled
  <1>1. rt[t] \in Tab BY DEF Types
  <1> QED BY <1>1 DEF Tab

LEMMA StartStructure ==
    ASSUME Structure, NEW p \in Panels, TakeGate(p),
           NEW view \in View, panel' = [panel EXCEPT ![p] = view],
           \/ view.pc = "revealing"
           \/ /\ view.pc = "connecting" /\ view.key.kind # "claim"
              /\ view.key.kind = "redeem" => view.key.amount \in {50, 100},
           UNCHANGED <<Wallet, ledger, astray>>
    PROVE  Structure'
  <1>1. p \in EarnPanels /\ tabOf[p] \in Tabs /\ panel[p].pc = "idle" /\ ~rt[tabOf[p]].gate
    BY PanelsAre DEF TakeGate, At
  <1> DEFINE r == [rt[tabOf[p]] EXCEPT !.gate = TRUE]
  <1>2. rt' = [rt EXCEPT ![tabOf[p]] = r] BY <1>1 DEF TakeGate
  <1>3. /\ r \in Tab /\ r.gate /\ r.inFlight = rt[tabOf[p]].inFlight
        /\ r.completed = rt[tabOf[p]].completed /\ r.handled = rt[tabOf[p]].handled
    BY <1>1, GateTaken DEF Structure
  <1>4. MemoryFits(tabOf[p], r, txs) BY <1>1, <1>3, TabsAre DEF MemoryFits
  <1>5. PressFits(p, view, tabOf[p], txs) BY <1>1 DEF PressFits, Active, Submitting
  <1>6. panel[p].pc \notin Submitting /\ view.pc \notin Submitting /\ view.pc # "following"
    BY <1>1 DEF Submitting
  <1>7. astray' \in BOOLEAN /\ ledger' = ledger /\ UNCHANGED Wallet
    BY DEF Structure, Types, Purse
  <1> HIDE DEF r
  <1> QED BY <1>1, <1>2, <1>3, <1>4, <1>5, <1>6, <1>7, PressMoves

LEMMA RevealStructure ==
    ASSUME Structure, NEW p \in Panels, Reveal(p) PROVE Structure'
  <1> DEFINE view == [panel[p] EXCEPT !.pc = "revealing"]
  <1>1. panel[p] \in View BY PanelsAre
  <1>2. view \in View /\ view.pc = "revealing" BY <1>1 DEF View, PCs
  <1>3. panel' = [panel EXCEPT ![p] = view] BY DEF Reveal, Go
  <1>4. TakeGate(p) /\ UNCHANGED <<Wallet, ledger, astray>> BY DEF Reveal
  <1> HIDE DEF view
  <1> QED BY <1>2, <1>3, <1>4, StartStructure

LEMMA PressIs ==
    ASSUME Types, NEW p \in Panels, NEW kind \in {"deposit", "redeem", "claim"},
           NEW amount \in Nat, Press(p, kind, amount)
    PROVE  \E view \in View :
              /\ panel' = [panel EXCEPT ![p] = view]
              /\ view.pc = "connecting"
              /\ view.key = [kind |-> kind, amount |-> amount]
  <1> DEFINE key == [kind |-> kind, amount |-> amount]
             view == [panel[p] EXCEPT !.pc = "connecting", !.key = key]
  <1>1. panel[p] \in View /\ key \in Keys BY KeyFits DEF Types
  <1>2. panel' = [panel EXCEPT ![p] = view] BY DEF Press
  <1> HIDE DEF key
  <1>3. view \in View /\ view.pc = "connecting" /\ view.key = key BY <1>1 DEF View, PCs
  <1> QED BY <1>2, <1>3 DEF key

LEMMA DepositStructure ==
    ASSUME Structure, NEW p \in Panels, Deposit(p) PROVE Structure'
  <1>1. PICK a \in Amounts : Press(p, "deposit", a) BY DEF Deposit
  <1>2. a \in Nat BY EarnAssumption
  <1>3. PICK view \in View : /\ panel' = [panel EXCEPT ![p] = view]
                             /\ view.pc = "connecting"
                             /\ view.key = [kind |-> "deposit", amount |-> a]
    BY <1>1, <1>2, PressIs DEF Structure
  <1>4. view.key.kind = "deposit" BY <1>3
  <1>5. TakeGate(p) /\ UNCHANGED <<Wallet, ledger, astray>> BY DEF Deposit
  <1> QED BY <1>3, <1>4, <1>5, StartStructure

LEMMA WithdrawStructure ==
    ASSUME Structure, NEW p \in Panels, Withdraw(p) PROVE Structure'
  <1>1. PICK a \in {50, 100} : Press(p, "redeem", a) BY DEF Withdraw
  <1>3. PICK view \in View : /\ panel' = [panel EXCEPT ![p] = view]
                             /\ view.pc = "connecting"
                             /\ view.key = [kind |-> "redeem", amount |-> a]
    BY <1>1, PressIs DEF Structure
  <1>4. view.key.kind = "redeem" /\ view.key.amount = a BY <1>3
  <1>5. TakeGate(p) /\ UNCHANGED <<Wallet, ledger, astray>> BY DEF Withdraw
  <1> QED BY <1>3, <1>4, <1>5, StartStructure

LEMMA ClaimStructure ==
    ASSUME Structure, NEW p \in Panels, Claim(p) PROVE Structure'
  <1>1. p \in ClaimViews /\ tabOf[p] \in Tabs /\ panel[p].pc = "idle"
    BY PanelsAre DEF Claim, At
  <1>2. PICK view \in View : /\ panel' = [panel EXCEPT ![p] = view]
                             /\ view.pc = "connecting"
                             /\ view.key = [kind |-> "claim", amount |-> Denomination]
    BY EarnAssumption, PressIs DEF Structure, Claim
  <1>3. rt' = [rt EXCEPT ![tabOf[p]] = rt[tabOf[p]]] /\ rt[tabOf[p]] \in Tab
    BY <1>1 DEF Claim, Structure, Types
  <1>4. MemoryFits(tabOf[p], rt[tabOf[p]], txs) BY <1>1, TabsAre
  <1>5. PressFits(p, view, tabOf[p], txs)
    BY <1>1, <1>2, EarnAssumption DEF PressFits, Active, Submitting
  <1>6. panel[p].pc \notin Submitting /\ view.pc \notin Submitting /\ view.pc # "following"
    BY <1>1, <1>2 DEF Submitting
  <1>7. astray' \in BOOLEAN /\ ledger' = ledger /\ UNCHANGED Wallet
    BY DEF Structure, Types, Purse, Claim
  <1> QED BY <1>1, <1>2, <1>3, <1>4, <1>5, <1>6, <1>7, PressMoves

LEMMA RevealedStructure ==
    ASSUME Structure, NEW p \in Panels, Revealed(p) PROVE Structure'
  <1>1. panel[p] \in View /\ panel[p].pc = "revealing" /\ tabOf[p] \in Tabs
    BY PanelsAre DEF Revealed, At
  <1>2. held.usdc \in Nat /\ held.shares \in Nat BY DEF Structure, Types, Purse
  <1>3. PICK view \in {panel[p], [panel[p] EXCEPT !.usdc = held.usdc],
                       [panel[p] EXCEPT !.shares = held.shares]} :
           panel' = [panel EXCEPT ![p] = Ended(view)]
    BY DEF Revealed
  <1>4. view \in View BY <1>1, <1>2 DEF View
  <1> DEFINE r == Release(tabOf[p], {p})
  <1>5. rt' = [rt EXCEPT ![tabOf[p]] = r] BY DEF Revealed
  <1>6. /\ r \in Tab /\ r.inFlight = rt[tabOf[p]].inFlight
        /\ r.completed = rt[tabOf[p]].completed /\ r.handled = rt[tabOf[p]].handled
    BY <1>1, ReleaseFits DEF Structure
  <1>7. MemoryFits(tabOf[p], r, txs) BY <1>1, <1>6, TabsAre DEF MemoryFits
  <1>8. r.gate = Release(tabOf[p], {p}).gate OBVIOUS
  <1>9. UNCHANGED Wallet /\ ledger' \in Nat /\ astray' \in BOOLEAN
    BY DEF Revealed, Structure, Types, Purse
  <1>10. panel[p].pc \notin Submitting \cup {"idle"} BY <1>1 DEF Submitting
  <1> HIDE DEF r
  <1> QED BY <1>3, <1>4, <1>5, <1>6, <1>7, <1>8, <1>9, <1>10, PressEnds

-----------------------------------------------------------------------------
(* submitMainnetStrk20Actions. *)

\* Enter comes out in one of four ways.
Entered(p, key, before, view, r) ==
    LET was == rt[tabOf[p]]
        asked == view.key = key /\ view.before = before
    IN  /\ r.completed = Recent(tabOf[p]) /\ r.handled = was.handled
        /\ \/ /\ r.gate = was.gate /\ r.inFlight = was.inFlight
              /\ asked /\ view.pc = "verifying"
              /\ view.hash \in Recent(tabOf[p]) /\ txs[view.hash].key = key
           \/ /\ r.gate = was.gate /\ r.inFlight = was.inFlight
              /\ asked /\ view.pc = "following"
              /\ r.inFlight # Nobody /\ panel[r.inFlight].key = key
           \/ /\ r.gate = Release(tabOf[p], {p}).gate /\ r.inFlight = was.inFlight
              /\ view = Ended(panel[p])
           \/ /\ r.gate = was.gate /\ was.inFlight = Nobody /\ r.inFlight = p
              /\ asked /\ view.pc = "checking"
              /\ \A h \in Recent(tabOf[p]) : txs[h].key # key

LEMMA EnterIs ==
    ASSUME Structure, NEW p \in Panels, panel[p].pc = "connecting",
           NEW key \in Keys, NEW before \in Nat, Enter(p, key, before)
    PROVE  \E view \in View, r \in Tab :
              /\ panel' = [panel EXCEPT ![p] = view] /\ rt' = [rt EXCEPT ![tabOf[p]] = r]
              /\ Entered(p, key, before, view, r)
  <1> DEFINE t == tabOf[p]
             mine == [panel[p] EXCEPT !.key = key, !.before = before]
             done == {h \in Recent(t) : txs[h].key = key}
             Swept == [rt EXCEPT ![t].completed = Recent(t)]
             swept == [rt[t] EXCEPT !.completed = Recent(t)]
  <1>1. t \in Tabs /\ panel[p] \in View /\ rt[t] \in Tab
    BY PanelsAre, TabsAre
  <1>2. Recent(t) \in SUBSET Nat BY <1>1 DEF Recent, Tab
  <1>3. /\ swept \in Tab /\ swept.completed = Recent(t) /\ swept.handled = rt[t].handled
        /\ swept.gate = rt[t].gate /\ swept.inFlight = rt[t].inFlight
    BY <1>1, <1>2 DEF Tab
  <1>4. Swept = [rt EXCEPT ![t] = swept] BY <1>1 DEF Structure, Types
  <1>5. mine \in View /\ mine.key = key /\ mine.before = before BY <1>1 DEF View
  <1>6. done \subseteq Recent(t) /\ \A h \in done : txs[h].key = key OBVIOUS
  <1>8. \/ /\ done # {}
           /\ panel' = [panel EXCEPT ![p] = [mine EXCEPT !.pc = "verifying",
                                             !.hash = CHOOSE h \in done : TRUE]]
           /\ rt' = Swept
        \/ /\ done = {} /\ rt[t].inFlight # Nobody /\ panel[rt[t].inFlight].key = key
           /\ panel' = [panel EXCEPT ![p] = [mine EXCEPT !.pc = "following"]]
           /\ rt' = Swept
        \/ /\ panel' = [panel EXCEPT ![p] = Ended(panel[p])]
           /\ rt' = [Swept EXCEPT ![t] = [Release(t, {p}) EXCEPT !.completed = Recent(t)]]
        \/ /\ done = {} /\ rt[t].inFlight = Nobody
           /\ panel' = [panel EXCEPT ![p] = [mine EXCEPT !.pc = "checking"]]
           /\ rt' = [Swept EXCEPT ![t].inFlight = p]
    BY DEF Enter
  <1> HIDE DEF mine, done, Swept, swept
  <1>9. CASE /\ done # {}
             /\ panel' = [panel EXCEPT ![p] = [mine EXCEPT !.pc = "verifying",
                                               !.hash = CHOOSE h \in done : TRUE]]
             /\ rt' = Swept
    <2> DEFINE hash == CHOOSE h \in done : TRUE
    <2>1. hash \in done BY <1>9
    <2>2. panel' = [panel EXCEPT ![p] = [mine EXCEPT !.pc = "verifying", !.hash = hash]]
      BY <1>9
    <2> HIDE DEF hash
    <2> DEFINE view == [mine EXCEPT !.pc = "verifying", !.hash = hash]
    <2>3. hash \in Nat BY <2>1, <1>2, <1>6
    <2>4. /\ view \in View /\ view.pc = "verifying" /\ view.hash = hash
          /\ view.key = mine.key /\ view.before = mine.before
      BY <2>3, <1>5 DEF View, PCs
    <2> HIDE DEF view
    <2>5. view.hash \in Recent(t) /\ txs[view.hash].key = key BY <2>1, <2>4, <1>6
    <2>6. panel' = [panel EXCEPT ![p] = view] BY <2>2 DEF view
    <2>7. rt' = [rt EXCEPT ![t] = swept] BY <1>9, <1>4
    <2>8. Entered(p, key, before, view, swept) BY <2>4, <2>5, <1>3, <1>5 DEF Entered
    <2> QED BY <2>4, <2>6, <2>7, <2>8, <1>3
  <1>10. CASE /\ done = {} /\ rt[t].inFlight # Nobody /\ panel[rt[t].inFlight].key = key
              /\ panel' = [panel EXCEPT ![p] = [mine EXCEPT !.pc = "following"]]
              /\ rt' = Swept
    <2> DEFINE view == [mine EXCEPT !.pc = "following"]
    <2>1. /\ view \in View /\ view.pc = "following"
          /\ view.key = mine.key /\ view.before = mine.before
      BY <1>5 DEF View, PCs
    <2>2. panel' = [panel EXCEPT ![p] = view] BY <1>10
    <2>3. rt' = [rt EXCEPT ![t] = swept] BY <1>10, <1>4
    <2> HIDE DEF view
    <2>4. rt[t].inFlight # Nobody /\ panel[rt[t].inFlight].key = key BY <1>10
    <2>5. Entered(p, key, before, view, swept) BY <2>1, <2>4, <1>3, <1>5 DEF Entered
    <2> QED BY <2>1, <2>2, <2>3, <2>5, <1>3
  <1>11. CASE /\ panel' = [panel EXCEPT ![p] = Ended(panel[p])]
              /\ rt' = [Swept EXCEPT ![t] = [Release(t, {p}) EXCEPT !.completed = Recent(t)]]
    <2> DEFINE r == [Release(t, {p}) EXCEPT !.completed = Recent(t)]
    <2>1. /\ Release(t, {p}) \in Tab /\ Release(t, {p}).handled = rt[t].handled
          /\ Release(t, {p}).inFlight = rt[t].inFlight
      BY <1>1, ReleaseFits DEF Structure
    <2>2. /\ r \in Tab /\ r.completed = Recent(t) /\ r.handled = rt[t].handled
          /\ r.gate = Release(t, {p}).gate /\ r.inFlight = rt[t].inFlight
      BY <2>1, <1>2 DEF Tab
    <2>3. rt' = [Swept EXCEPT ![t] = r] BY <1>11
    <2> HIDE DEF r
    <2>4. rt' = [rt EXCEPT ![t] = r] BY <2>3, <1>4 DEF Structure, Types
    <2>5. Ended(panel[p]) \in View BY <1>1, EndedFits
    <2>6. panel' = [panel EXCEPT ![p] = Ended(panel[p])] BY <1>11
    <2>7. Entered(p, key, before, Ended(panel[p]), r) BY <2>2 DEF Entered
    <2> QED BY <2>2, <2>4, <2>5, <2>6, <2>7
  <1>12. CASE /\ done = {} /\ rt[t].inFlight = Nobody
              /\ panel' = [panel EXCEPT ![p] = [mine EXCEPT !.pc = "checking"]]
              /\ rt' = [Swept EXCEPT ![t].inFlight = p]
    <2> DEFINE view == [mine EXCEPT !.pc = "checking"]
               r == [swept EXCEPT !.inFlight = p]
    <2>1. /\ view \in View /\ view.pc = "checking"
          /\ view.key = mine.key /\ view.before = mine.before
      BY <1>5 DEF View, PCs
    <2>2. panel' = [panel EXCEPT ![p] = view] BY <1>12
    <2>3. /\ r \in Tab /\ r.completed = Recent(t) /\ r.handled = rt[t].handled
          /\ r.gate = rt[t].gate /\ r.inFlight = p
      BY <1>3 DEF Tab
    <2>4. rt' = [rt EXCEPT ![t] = r]
      BY <1>1, <1>4, <1>12 DEF Structure, Types
    <2>5. \A h \in Recent(t) : txs[h].key # key BY <1>12 DEF done
    <2> HIDE DEF view, r
    <2>6. rt[t].inFlight = Nobody BY <1>12
    <2>7. Entered(p, key, before, view, r) BY <2>1, <2>3, <2>5, <2>6, <1>5 DEF Entered
    <2> QED BY <2>1, <2>2, <2>3, <2>4, <2>7
  <1> QED BY <1>8, <1>9, <1>10, <1>11, <1>12

LEMMA SharesAsked ==
    ASSUME NEW n \in Nat, NEW percent \in {50, 100}
    PROVE  (n * percent) \div 100 \in 0..n
  OBVIOUS

\* What is entered once connected: of a redemption, some of the shares held.
LEMMA ConnectedIs ==
    ASSUME Structure, NEW p \in Panels, Connected(p)
    PROVE  \/ End(p)
           \/ \E key \in Keys, before \in Nat :
                /\ Enter(p, key, before) /\ key.kind = panel[p].key.kind
                /\ key.kind = "redeem" => /\ key.amount # 0 /\ key.amount <= before
                                          /\ before = held.shares
  <1> DEFINE asked == panel[p].key
             shares == (held.shares * asked.amount) \div 100
  <1>1. panel[p] \in View /\ panel[p].pc = "connecting" /\ PressFits(p, panel[p], tabOf[p], txs)
    BY PanelsAre DEF Connected, At
  <1>2. asked \in Keys /\ asked.amount \in Nat /\ held.shares \in Nat
    BY <1>1 DEF View, Keys, Structure, Types, Purse
  <1>3. CASE asked.kind # "redeem" /\ Enter(p, asked, 0)
    BY <1>2, <1>3
  <1>4. CASE /\ asked.kind = "redeem" /\ shares # 0
             /\ Enter(p, [asked EXCEPT !.amount = shares], held.shares)
    <2>1. asked.amount \in {50, 100} BY <1>1, <1>4 DEF PressFits
    <2>2. shares \in 0..held.shares BY <1>2, <2>1, SharesAsked
    <2> HIDE DEF shares
    <2>3. shares \in Nat /\ shares <= held.shares BY <2>2, <1>2
    <2> DEFINE key == [asked EXCEPT !.amount = shares]
    <2>4. key \in Keys /\ key.kind = asked.kind /\ key.amount = shares
      BY <1>2, <2>3, KeyFits
    <2>5. Enter(p, key, held.shares) BY <1>4
    <2> HIDE DEF key
    <2> QED BY <2>3, <2>4, <2>5, <1>2, <1>4
  <1>5. CASE asked.kind = "redeem" /\ shares = 0 /\ End(p)
    BY <1>5
  <1> QED BY <1>3, <1>4, <1>5 DEF Connected

LEMMA SweptMemory ==
    ASSUME Structure, NEW t \in Tabs, NEW r,
           r.completed = Recent(t), r.handled = rt[t].handled
    PROVE  /\ MemoryFits(t, r, txs) /\ Recent(t) \subseteq rt[t].completed
           /\ \A h \in 1..Len(txs) : txs[h].tab = t /\ txs[h].age = "recent" => h \in Recent(t)
           /\ \A h \in Recent(t) : /\ h \in 1..Len(txs) /\ txs[h].tab = t
                                   /\ txs[h].status = "ok" /\ txs[h].age # "unseen"
  <1>1. MemoryFits(t, rt[t], txs) BY TabsAre
  <1> QED BY <1>1 DEF MemoryFits, Recent

LEMMA EnterStructure ==
    ASSUME Structure, NEW p \in Panels, panel[p].pc = "connecting",
           NEW key \in Keys, NEW before \in Nat, Enter(p, key, before),
           key.kind = panel[p].key.kind,
           key.kind = "redeem" => key.amount # 0 /\ key.amount <= before,
           UNCHANGED Wallet, ledger' = ledger, astray' \in BOOLEAN
    PROVE  Structure'
  <1> DEFINE t == tabOf[p]
  <1>1. t \in Tabs /\ panel[p] \in View /\ PressFits(p, panel[p], t, txs)
    BY PanelsAre
  <1>2. p \in EarnPanels <=> key.kind # "claim" BY <1>1 DEF PressFits
  <1>3. PICK view \in View, r \in Tab :
              /\ panel' = [panel EXCEPT ![p] = view] /\ rt' = [rt EXCEPT ![t] = r]
              /\ Entered(p, key, before, view, r)
    BY EnterIs
  <1>4. /\ MemoryFits(t, r, txs)
        /\ \A h \in 1..Len(txs) : txs[h].tab = t /\ txs[h].age = "recent" => h \in Recent(t)
        /\ \A h \in Recent(t) : /\ h \in 1..Len(txs) /\ txs[h].tab = t
                                /\ txs[h].status = "ok" /\ txs[h].age # "unseen"
    BY <1>1, <1>3, SweptMemory DEF Entered
  <1>5. panel[p].pc \notin Submitting /\ panel[p].pc # "idle" BY DEF Submitting
  <1>6. GateFits(t, rt[t], panel, tabOf) /\ FlightFits(t, rt[t], panel, tabOf)
    BY <1>1, TabsAre
  <1>7. CASE /\ r.gate = rt[t].gate /\ r.inFlight = rt[t].inFlight
             /\ view.key = key /\ view.before = before
             /\ view.pc = "verifying" /\ view.hash \in Recent(t)
             /\ txs[view.hash].key = key
    <2>1. PressFits(p, view, t, txs)
      BY <1>1, <1>2, <1>4, <1>7 DEF PressFits, Submitting
    <2>2. view.pc \notin Submitting /\ view.pc # "following" BY <1>7 DEF Submitting
    <2> HIDE DEF t
    <2> QED BY <1>1, <1>3, <1>4, <1>5, <1>7, <2>1, <2>2, PressMoves DEF t
  <1>8. CASE /\ r.gate = rt[t].gate /\ r.inFlight = rt[t].inFlight
             /\ view.key = key /\ view.before = before /\ view.pc = "following"
             /\ r.inFlight # Nobody /\ panel[r.inFlight].key = key
    <2> DEFINE first == rt[t].inFlight
    <2>1. /\ first \in Panels /\ tabOf[first] = t /\ panel[first].pc \in Submitting
          /\ panel[first].key = key
      BY <1>1, <1>6, <1>8, TabsAre DEF FlightFits, Tab
    <2>2. first # p BY <2>1, <1>5
    <2>3. PressFits(first, panel[first], t, txs) BY <2>1, PanelsAre
    <2>4. first \in EarnPanels <=> key.kind # "claim" BY <2>1, <2>3 DEF PressFits, Submitting
    <2>5. panel[first].pc # "idle" BY <2>1 DEF Submitting
    <2>6. p \notin EarnPanels
      BY <1>2, <1>5, <1>6, <2>1, <2>2, <2>4, <2>5 DEF GateFits
    <2>7. p \in ClaimViews BY <2>6 DEF Panels
    <2>8. PressFits(p, view, t, txs)
      BY <1>1, <1>2, <1>8, <2>7 DEF PressFits, Submitting, Active
    <2>9. view.pc \notin Submitting BY <1>8 DEF Submitting
    <2> HIDE DEF t, first
    <2> QED BY <1>1, <1>3, <1>4, <1>5, <1>8, <2>8, <2>9, PressMoves DEF t
  <1>9. CASE /\ r.gate = Release(t, {p}).gate
             /\ r.inFlight = rt[t].inFlight
             /\ view = Ended(panel[p])
    <2>1. ledger' \in Nat BY DEF Structure, Types, Purse
    <2>2. panel' = [panel EXCEPT ![p] = Ended(panel[p])] BY <1>3, <1>9
    <2>3. panel[p].pc \notin Submitting \cup {"idle"} BY <1>5
    <2> QED BY <1>1, <1>3, <1>4, <1>9, <2>1, <2>2, <2>3, PressEnds
  <1>10. CASE /\ r.gate = rt[t].gate /\ rt[t].inFlight = Nobody
              /\ r.inFlight = p
              /\ view.key = key /\ view.before = before /\ view.pc = "checking"
              /\ \A h \in Recent(t) : txs[h].key # key
    <2>1. rt'[t] = r /\ \A u \in Tabs \ {t} : rt'[u] = rt[u]
      BY <1>1, <1>3 DEF Structure, Types
    <2>2. panel'[p] = view /\ \A q \in Panels \ {p} : panel'[q] = panel[q]
      BY <1>3 DEF Structure, Types
    <2>3. StaysTyped
      BY <1>1, <1>3, HashesStay DEF Structure, Types, Purse, Wallet, StaysTyped
    <2>4. OnlyIn(t)
      BY <2>1, <2>2, HashesStay DEF OnlyIn, Wallet, Structure
    <2>5. PressFits(p, view, t, txs)
      BY <1>1, <1>2, <1>4, <1>10 DEF PressFits, Submitting, Active
    <2>6. ASSUME NEW q \in Panels, tabOf[q] = t PROVE PressFits(q, panel'[q], t, txs')
      BY <2>2, <2>5, <2>6, PanelsAre DEF Wallet
    <2>7. EarnPanels \subseteq Panels BY DEF Panels
    <2>8. GateFits(t, rt'[t], panel', tabOf)
      BY <1>5, <1>6, <1>10, <2>1, <2>2, <2>7 DEF GateFits
    <2>9. \A q \in Panels : tabOf[q] = t => panel[q].pc \notin Submitting \cup {"following"}
      BY <1>6, <1>10, EarnAssumption DEF FlightFits
    <2>10. FlightFits(t, rt'[t], panel', tabOf)
      BY <1>10, <2>1, <2>2, <2>9 DEF FlightFits, Submitting
    <2>11. MemoryFits(t, rt'[t], txs') BY <1>4, <2>1 DEF Wallet
    <2> HIDE DEF t
    <2> QED BY <1>1, <2>3, <2>4, <2>6, <2>8, <2>10, <2>11, TabStep
  <1> QED BY <1>3, <1>7, <1>8, <1>9, <1>10 DEF Entered

LEMMA ConnectedStructure ==
    ASSUME Structure, NEW p \in Panels, Connected(p) PROVE Structure'
  <1>1. panel[p].pc = "connecting" BY DEF Connected, At
  <1>2. UNCHANGED Wallet /\ ledger' = ledger BY DEF Connected
  <1>3. astray' \in BOOLEAN BY DEF Connected, Structure, Types, Purse
  <1>4. CASE End(p) BY <1>1, <1>2, <1>3, <1>4, EndStructure DEF Submitting
  <1>5. CASE \E key \in Keys, before \in Nat :
                /\ Enter(p, key, before) /\ key.kind = panel[p].key.kind
                /\ key.kind = "redeem" => /\ key.amount # 0 /\ key.amount <= before
                                          /\ before = held.shares
    BY <1>1, <1>2, <1>3, <1>5, EnterStructure
  <1> QED BY <1>4, <1>5, ConnectedIs

\* The submission of p goes from one place to the next.
LEMMA SubmissionMoves ==
    ASSUME Structure, NEW p \in Panels, panel[p].pc \in Submitting,
           NEW view \in View, panel' = [panel EXCEPT ![p] = view],
           view.pc \in Submitting, view.key = panel[p].key, UNCHANGED rt,
           txs' \in Seq(Tx), \A u : GoesOn(u, txs, txs'),
           PressFits(p, view, tabOf[p], txs'),
           tabOf' = tabOf, Purse'
    PROVE  Structure'
  <1> DEFINE t == tabOf[p]
  <1>1. t \in Tabs /\ panel[p].pc # "idle" BY PanelsAre DEF Submitting
  <1>2. rt'[t] = rt[t] /\ \A u \in Tabs \ {t} : rt'[u] = rt[u] OBVIOUS
  <1>3. panel'[p] = view /\ \A q \in Panels \ {p} : panel'[q] = panel[q]
    BY DEF Structure, Types
  <1>4. StaysTyped BY DEF Structure, Types, StaysTyped
  <1>5. OnlyIn(t) BY <1>2, <1>3 DEF OnlyIn
  <1>6. GateFits(t, rt[t], panel, tabOf) /\ FlightFits(t, rt[t], panel, tabOf)
        /\ MemoryFits(t, rt[t], txs)
    BY <1>1, TabsAre
  <1>7. ASSUME NEW q \in Panels, tabOf[q] = t PROVE PressFits(q, panel'[q], t, txs')
    <2>1. CASE q = p BY <1>3, <2>1
    <2>2. CASE q # p
      <3>1. PressFits(q, panel[q], t, txs) /\ panel'[q] = panel[q]
        BY <1>3, <1>7, <2>2, PanelsAre
      <3> HIDE DEF t
      <3> QED BY <3>1, PressGoesOn DEF Structure, Types
    <2> QED BY <2>1, <2>2
  <1>8. EarnPanels \subseteq Panels BY DEF Panels
  <1>9. GateFits(t, rt'[t], panel', tabOf)
    BY <1>1, <1>2, <1>3, <1>6, <1>8 DEF GateFits
  <1>10. rt[t].inFlight \in Panels \cup {Nobody} BY <1>1, TabsAre DEF Tab
  <1>11. FlightFits(t, rt'[t], panel', tabOf)
    BY <1>2, <1>3, <1>6, <1>10 DEF FlightFits, Submitting
  <1>12. MemoryFits(t, rt'[t], txs')
    BY <1>2, <1>6, MemoryGoesOn DEF Structure, Types
  <1> HIDE DEF t
  <1> QED BY <1>1, <1>4, <1>5, <1>7, <1>9, <1>11, <1>12, TabStep

LEMMA CheckRuntimeStructure ==
    ASSUME Structure, NEW p \in Panels, CheckRuntime(p) PROVE Structure'
  <1>1. /\ panel[p].pc = "checking" /\ panel[p] \in View /\ panel[p].pc \in Submitting
        /\ PressFits(p, panel[p], tabOf[p], txs)
    BY PanelsAre DEF CheckRuntime, At, Submitting
  <1>2. UNCHANGED Wallet /\ ledger' = ledger /\ astray' = astray BY DEF CheckRuntime
  <1>3. CASE Go(p, "prompt") /\ UNCHANGED rt
    <2> DEFINE view == [panel[p] EXCEPT !.pc = "prompt"]
    <2>1. panel' = [panel EXCEPT ![p] = view] BY <1>3 DEF Go
    <2>2. /\ view \in View /\ view.pc = "prompt" /\ view.key = panel[p].key
          /\ view.before = panel[p].before
      BY <1>1 DEF View, PCs
    <2> HIDE DEF view
    <2>3. PressFits(p, view, tabOf[p], txs)
      BY <1>1, <2>2 DEF PressFits, Submitting, Active
    <2>4. txs' = txs /\ tabOf' = tabOf /\ Purse'
      BY <1>2 DEF Wallet, Purse, Structure, Types
    <2>5. txs' \in Seq(Tx) /\ \A u : GoesOn(u, txs, txs') BY <2>4, HashesStay DEF Structure
    <2>6. view.pc \in Submitting BY <2>2 DEF Submitting
    <2>7. PressFits(p, view, tabOf[p], txs') BY <2>3, <2>4
    <2> QED BY <1>1, <1>3, <2>1, <2>2, <2>4, <2>5, <2>6, <2>7, SubmissionMoves
  <1>4. CASE Reject(p)
    <2>1. astray' \in BOOLEAN BY <1>2 DEF Structure, Types, Purse
    <2> QED BY <1>1, <1>2, <1>4, <2>1, RejectStructure
  <1> QED BY <1>3, <1>4 DEF CheckRuntime

LEMMA ApproveIs ==
    ASSUME Structure, NEW p \in Panels, Approve(p)
    PROVE  /\ txs' \in Seq(Tx) /\ Len(txs') = Len(txs) + 1
           /\ \A u : GoesOn(u, txs, txs')
           /\ \A j \in 1..Len(txs) : txs'[j] = txs[j]
           /\ LET h == Len(txs) + 1
              IN  /\ txs'[h].key = panel[p].key /\ txs'[h].tab = tabOf[p]
                  /\ txs'[h].status = "sent" /\ txs'[h].age = "unseen"
                  /\ panel' = [panel EXCEPT ![p].pc = "sent", ![p].hash = h]
  <1> DEFINE new == [key |-> panel[p].key, tab |-> tabOf[p], status |-> "sent", age |-> "unseen"]
  <1>1. panel[p].pc = "prompt" /\ txs' = Append(txs, new) BY DEF Approve, At
  <1>2. tabOf[p] \in Tabs /\ panel[p] \in View BY <1>1, PanelsAre
  <1>3. new \in Tx BY <1>2 DEF Tx, View
  <1>4. /\ new.key = panel[p].key /\ new.tab = tabOf[p]
        /\ new.status = "sent" /\ new.age = "unseen"
    OBVIOUS
  <1> HIDE DEF new
  <1>5. txs \in Seq(Tx) BY DEF Structure, Types
  <1>6. /\ txs' \in Seq(Tx) /\ Len(txs') = Len(txs) + 1 /\ txs'[Len(txs) + 1] = new
        /\ \A j \in 1..Len(txs) : txs'[j] = txs[j]
    BY <1>1, <1>3, <1>5
  <1>7. ASSUME NEW h \in 1..Len(txs'), h \notin 1..Len(txs) PROVE h = Len(txs) + 1
    BY <1>5, <1>6, <1>7
  <1>8. Len(txs) <= Len(txs') BY <1>5, <1>6
  <1>9. \A u : GoesOn(u, txs, txs')
    BY <1>4, <1>6, <1>7, <1>8 DEF GoesOn
  <1>10. panel' = [panel EXCEPT ![p].pc = "sent", ![p].hash = Len(txs) + 1]
    BY <1>6 DEF Approve
  <1> QED BY <1>4, <1>6, <1>9, <1>10

LEMMA ApproveStructure ==
    ASSUME Structure, NEW p \in Panels, Approve(p) PROVE Structure'
  <1> DEFINE h == Len(txs) + 1
             view == [panel[p] EXCEPT !.pc = "sent", !.hash = h]
  <1>1. /\ panel[p].pc = "prompt" /\ panel[p] \in View /\ panel[p].pc \in Submitting
        /\ PressFits(p, panel[p], tabOf[p], txs) /\ tabOf[p] \in Tabs
    BY PanelsAre DEF Approve, At, Submitting
  <1>2. /\ txs' \in Seq(Tx) /\ Len(txs') = Len(txs) + 1
        /\ \A u : GoesOn(u, txs, txs')
        /\ \A j \in 1..Len(txs) : txs'[j] = txs[j]
        /\ txs'[h].key = panel[p].key /\ txs'[h].tab = tabOf[p]
        /\ txs'[h].status = "sent" /\ txs'[h].age = "unseen"
        /\ panel' = [panel EXCEPT ![p] = view]
    BY ApproveIs
  <1>3. h \in Nat /\ h \in 1..Len(txs') BY <1>2 DEF Structure, Types
  <1>4. /\ view \in View /\ view.pc = "sent" /\ view.key = panel[p].key
        /\ view.before = panel[p].before /\ view.hash = h
    BY <1>1, <1>3 DEF View, PCs
  <1> HIDE DEF view, h
  <1>5. PressFits(p, panel[p], tabOf[p], txs') BY <1>1, <1>2, PressGoesOn DEF Structure, Types
  <1>6. PressFits(p, view, tabOf[p], txs')
    BY <1>1, <1>2, <1>3, <1>4, <1>5 DEF PressFits, Submitting, Active
  <1>7. tabOf' = tabOf /\ Purse' /\ rt' = rt
    BY DEF Approve, Structure, Types, Purse
  <1>8. view.pc \in Submitting BY <1>4 DEF Submitting
  <1> QED BY <1>1, <1>2, <1>4, <1>6, <1>7, <1>8, SubmissionMoves

LEMMA DeclineStructure ==
    ASSUME Structure, NEW p \in Panels, Decline(p) PROVE Structure'
  <1>1. panel[p].pc \in Submitting BY DEF Decline, At, Submitting
  <1>2. UNCHANGED Wallet /\ ledger' = ledger /\ astray' \in BOOLEAN /\ Reject(p)
    BY DEF Decline, Structure, Types, Purse
  <1> QED BY <1>1, <1>2, RejectStructure

LEMMA ReceiptLostStructure ==
    ASSUME Structure, NEW p \in Panels, ReceiptLost(p) PROVE Structure'
  <1>1. panel[p].pc \in Submitting BY DEF ReceiptLost, At, Submitting
  <1>2. UNCHANGED Wallet /\ ledger' = ledger /\ astray' \in BOOLEAN /\ Reject(p)
    BY DEF ReceiptLost, Structure, Types, Purse
  <1> QED BY <1>1, <1>2, RejectStructure

\* The receipt of a transaction that has succeeded.
Accepted(p) ==
    LET t == tabOf[p]
        h == panel[p].hash
    IN  /\ At(p, "sent") /\ txs[h].status = "ok"
        /\ txs' = [txs EXCEPT ![h].age = "recent"]
        /\ rt' = [rt EXCEPT ![t] = Settled(t, p, h)]
        /\ panel' = [q \in Panels |->
              IF q \in Waiting(p)
              THEN [panel[q] EXCEPT !.pc = "verifying", !.hash = h]
              ELSE panel[q]]
        /\ UNCHANGED <<tabOf, held, claimed, ledger, astray, faults>>

LEMMA ReceiptIs ==
    ASSUME NEW p \in Panels, Receipt(p)
    PROVE  Accepted(p) \/ /\ At(p, "sent") /\ txs[panel[p].hash].status = "reverted"
                          /\ Reject(p) /\ UNCHANGED <<Wallet, ledger, astray, faults>>
  BY DEF Receipt, Accepted, Wallet

LEMMA AcceptedIs ==
    ASSUME Structure, NEW p \in Panels, Accepted(p)
    PROVE  LET t == tabOf[p]
               h == panel[p].hash
           IN  /\ t \in Tabs /\ h \in 1..Len(txs) /\ txs[h].key = panel[p].key /\ txs[h].tab = t
               /\ txs' \in Seq(Tx) /\ Len(txs') = Len(txs)
               /\ \A j \in 1..Len(txs) : /\ txs'[j].key = txs[j].key /\ txs'[j].tab = txs[j].tab
                                         /\ txs'[j].status = txs[j].status
                                         /\ j # h => txs'[j] = txs[j]
               /\ txs[h].age = "unseen" /\ txs'[h].age = "recent"
               /\ rt' \in [Tabs -> Tab] /\ \A u \in Tabs \ {t} : rt'[u] = rt[u]
               /\ rt'[t].gate = rt[t].gate /\ rt'[t].handled = rt[t].handled
               /\ rt'[t].inFlight = Nobody
               /\ rt'[t].completed =
                      {j \in rt[t].completed : txs[j].key # txs[h].key} \cup {h}
               /\ panel' \in [Panels -> View]
               /\ \A q \in Waiting(p) :
                      /\ panel'[q].pc = "verifying" /\ panel'[q].hash = h
                      /\ panel'[q].key = panel[q].key /\ panel'[q].before = panel[q].before
               /\ \A q \in Panels \ Waiting(p) : panel'[q] = panel[q]
  <1> DEFINE t == tabOf[p]
             h == panel[p].hash
             r == Settled(t, p, h)
  <1>1. panel[p].pc = "sent" /\ panel[p] \in View /\ PressFits(p, panel[p], t, txs) /\ t \in Tabs
    BY PanelsAre DEF Accepted, At
  <1>2. /\ h \in 1..Len(txs) /\ txs[h].key = panel[p].key /\ txs[h].tab = t
        /\ txs[h].age = "unseen"
    BY <1>1 DEF PressFits
  <1>3. txs \in Seq(Tx) /\ txs' = [txs EXCEPT ![h].age = "recent"]
    BY DEF Accepted, Structure, Types
  <1> HIDE DEF h
  <1>4. /\ txs' \in Seq(Tx) /\ Len(txs') = Len(txs)
        /\ \A j \in 1..Len(txs) : /\ txs'[j].key = txs[j].key /\ txs'[j].tab = txs[j].tab
                                  /\ txs'[j].status = txs[j].status
                                  /\ j # h => txs'[j] = txs[j]
        /\ txs'[h].age = "recent"
    <2>2. txs[h] \in Tx BY <1>2, <1>3
    <2>1. [txs[h] EXCEPT !.age = "recent"] \in Tx BY <2>2 DEF Tx
    <2>3. /\ [txs[h] EXCEPT !.age = "recent"].key = txs[h].key
          /\ [txs[h] EXCEPT !.age = "recent"].tab = txs[h].tab
          /\ [txs[h] EXCEPT !.age = "recent"].status = txs[h].status
          /\ [txs[h] EXCEPT !.age = "recent"].age = "recent"
      BY <2>2 DEF Tx
    <2> DEFINE new == [txs[h] EXCEPT !.age = "recent"]
    <2>4. txs' = [txs EXCEPT ![h] = new] BY <1>3
    <2> HIDE DEF new
    <2>5. new \in Tx BY <2>1 DEF new
    <2>6. txs' \in Seq(Tx) /\ Len(txs') = Len(txs) BY <1>2, <1>3, <2>4, <2>5
    <2>7. txs'[h] = new /\ \A j \in 1..Len(txs) : j # h => txs'[j] = txs[j]
      BY <1>2, <1>3, <2>4
    <2> QED BY <2>3, <2>6, <2>7 DEF new
  <1>5. rt[t] \in Tab BY <1>1, TabsAre
  <1>6. /\ r \in Tab /\ r.gate = rt[t].gate /\ r.handled = rt[t].handled
        /\ r.inFlight = Nobody
        /\ r.completed = {j \in rt[t].completed : txs[j].key # txs[h].key} \cup {h}
    <2> DEFINE kept == {j \in rt[t].completed : txs[j].key # txs[h].key} \cup {h}
    <2>1. h \in Nat BY <1>2, <1>3
    <2>2. kept \in SUBSET Nat BY <2>1, <1>5 DEF Tab
    <2>3. r = [rt[t] EXCEPT !.inFlight = Nobody, !.completed = kept] BY DEF Settled
    <2> HIDE DEF kept, r
    <2>4. /\ r \in Tab /\ r.gate = rt[t].gate /\ r.handled = rt[t].handled
          /\ r.inFlight = Nobody /\ r.completed = kept
      BY <1>5, <2>2, <2>3 DEF Tab
    <2> QED BY <2>4 DEF kept
  <1>7. rt' = [rt EXCEPT ![t] = r] BY DEF Accepted, h
  <1> HIDE DEF r
  <1>8. /\ rt' \in [Tabs -> Tab] /\ rt'[t] = r /\ \A u \in Tabs \ {t} : rt'[u] = rt[u]
    BY <1>1, <1>6, <1>7 DEF Structure, Types
  <1>9. panel' = [q \in Panels |-> IF q \in Waiting(p)
                      THEN [panel[q] EXCEPT !.pc = "verifying", !.hash = h] ELSE panel[q]]
    BY DEF Accepted, h
  <1>10. h \in Nat BY <1>1 DEF View, h
  <1>11. ASSUME NEW q \in Panels
         PROVE  LET view == [panel[q] EXCEPT !.pc = "verifying", !.hash = h]
                IN  /\ view \in View /\ view.pc = "verifying" /\ view.hash = h
                    /\ view.key = panel[q].key /\ view.before = panel[q].before
    BY <1>10, PanelsAre DEF View, PCs
  <1>12. Waiting(p) \in SUBSET Panels BY <1>1 DEF Waiting
  <1>13. panel' \in [Panels -> View]
    BY <1>9, <1>11, PanelsAre
  <1>14. \A q \in Waiting(p) :
                      /\ panel'[q].pc = "verifying" /\ panel'[q].hash = h
                      /\ panel'[q].key = panel[q].key /\ panel'[q].before = panel[q].before
    BY <1>9, <1>11, <1>12
  <1>15. \A q \in Panels \ Waiting(p) : panel'[q] = panel[q] BY <1>9
  <1> QED BY <1>1, <1>2, <1>4, <1>6, <1>8, <1>13, <1>14, <1>15 DEF h

LEMMA AcceptedStructure ==
    ASSUME Structure, NEW p \in Panels, Accepted(p) PROVE Structure'
  <1> DEFINE t == tabOf[p]
             h == panel[p].hash
  <1>1. panel[p].pc = "sent" /\ panel[p].pc \in Submitting /\ PressFits(p, panel[p], t, txs)
    BY PanelsAre DEF Accepted, At, Submitting
  <1>2. /\ t \in Tabs /\ h \in 1..Len(txs) /\ txs[h].key = panel[p].key /\ txs[h].tab = t
        /\ txs' \in Seq(Tx) /\ Len(txs') = Len(txs)
        /\ \A j \in 1..Len(txs) : /\ txs'[j].key = txs[j].key /\ txs'[j].tab = txs[j].tab
                                  /\ txs'[j].status = txs[j].status
                                  /\ j # h => txs'[j] = txs[j]
        /\ txs[h].age = "unseen" /\ txs'[h].age = "recent"
        /\ rt' \in [Tabs -> Tab] /\ \A u \in Tabs \ {t} : rt'[u] = rt[u]
        /\ rt'[t].gate = rt[t].gate /\ rt'[t].handled = rt[t].handled
        /\ rt'[t].inFlight = Nobody
        /\ rt'[t].completed =
               {j \in rt[t].completed : txs[j].key # txs[h].key} \cup {h}
        /\ panel' \in [Panels -> View]
        /\ \A q \in Waiting(p) :
               /\ panel'[q].pc = "verifying" /\ panel'[q].hash = h
               /\ panel'[q].key = panel[q].key /\ panel'[q].before = panel[q].before
        /\ \A q \in Panels \ Waiting(p) : panel'[q] = panel[q]
    BY AcceptedIs
  <1>3. txs[h].status = "ok" /\ tabOf' = tabOf /\ Purse'
    BY DEF Accepted, Structure, Types, Purse
  <1>4. /\ p \in Waiting(p) /\ Waiting(p) \in SUBSET Panels
        /\ \A q \in Waiting(p) : /\ tabOf[q] = t /\ panel[q].pc # "idle"
                                 /\ panel[q].key = panel[p].key
                                 /\ q # p => q \in ClaimViews /\ panel[q].pc = "following"
        /\ \A q \in Panels \ Waiting(p) : tabOf[q] = t =>
               panel[q].pc \notin Submitting \cup {"following"}
    BY <1>1, WaitingAre
  <1> HIDE DEF h, t
  <1>5. \A u \in (Tabs \cup {Nobody}) \ {t} : GoesOn(u, txs, txs')
    BY <1>2 DEF GoesOn
  <1>6. StaysTyped BY <1>2, <1>3 DEF StaysTyped
  <1>7. OnlyIn(t)
    BY <1>2, <1>3, <1>4, <1>5 DEF OnlyIn
  <1>8. ASSUME NEW q \in Panels, tabOf[q] = t PROVE PressFits(q, panel'[q], t, txs')
    <2>1. PressFits(q, panel[q], t, txs) BY <1>8, PanelsAre
    <2>2. CASE q \in Waiting(p)
      <3>1. /\ panel'[q].pc = "verifying" /\ panel'[q].hash = h
            /\ panel'[q].key = panel[p].key /\ panel'[q].before = panel[q].before
            /\ panel[q].key = panel[p].key
        BY <1>2, <1>4, <2>2
      <3>2. txs'[h].key = panel[p].key /\ txs'[h].tab = t /\ txs'[h].status = "ok"
            /\ txs'[h].age # "unseen" /\ h \in 1..Len(txs')
        BY <1>2, <1>3
      <3>3. q \in EarnPanels <=> panel[q].key.kind # "claim"
        BY <1>1, <1>4, <2>1, <2>2 DEF PressFits, t
      <3>4. panel'[q].key.kind = "redeem" => q = p
        BY <1>4, <2>2, <3>1, <3>3, EarnAssumption
      <3>5. panel'[q].key.kind = "redeem" =>
               panel'[q].key.amount # 0 /\ panel'[q].key.amount <= panel'[q].before
        BY <1>1, <3>1, <3>4 DEF PressFits, Submitting, Active
      <3> QED BY <1>1, <1>8, <3>1, <3>2, <3>3, <3>5, <1>2 DEF PressFits, Submitting
    <2>3. CASE q \notin Waiting(p)
      <3>1. panel'[q] = panel[q] /\ panel[q].pc \notin Submitting
        BY <1>2, <1>4, <1>8, <2>3
      <3>2. panel[q].pc = "verifying" => /\ panel[q].hash \in 1..Len(txs)
                                         /\ txs'[panel[q].hash].age # "unseen"
        BY <1>2, <2>1 DEF PressFits
      <3> QED BY <1>2, <2>1, <3>1, <3>2 DEF PressFits, Submitting
    <2> QED BY <2>2, <2>3
  <1>9. /\ GateFits(t, rt[t], panel, tabOf) /\ MemoryFits(t, rt[t], txs)
    BY <1>2, TabsAre
  <1>10. EarnPanels \subseteq Panels BY DEF Panels
  <1>11. \A q \in Panels : panel'[q].pc # "idle" => panel[q].pc # "idle"
    BY <1>2, <1>4
  <1>12. GateFits(t, rt'[t], panel', tabOf)
    BY <1>2, <1>9, <1>10, <1>11 DEF GateFits
  <1>13. \A q \in Panels : tabOf[q] = t => panel'[q].pc \notin Submitting \cup {"following"}
    BY <1>2, <1>4 DEF Submitting
  <1>14. FlightFits(t, rt'[t], panel', tabOf)
    BY <1>2, <1>13 DEF FlightFits
  <1>15. ASSUME NEW j \in rt'[t].completed \cup rt'[t].handled
         PROVE  /\ j \in 1..Len(txs') /\ txs'[j].tab = t
                /\ txs'[j].status = "ok" /\ txs'[j].age # "unseen"
    <2>1. CASE j = h BY <2>1, <1>2, <1>3
    <2>2. CASE j # h
      <3>1. j \in rt[t].completed \cup rt[t].handled BY <1>2, <2>2
      <3>2. /\ j \in 1..Len(txs) /\ txs[j].tab = t
            /\ txs[j].status = "ok" /\ txs[j].age # "unseen"
        BY <3>1, <1>9 DEF MemoryFits
      <3> QED BY <1>2, <2>2, <3>2
    <2> QED BY <2>1, <2>2
  <1>16. ASSUME NEW j \in 1..Len(txs'), txs'[j].tab = t, txs'[j].age = "recent"
         PROVE  j \in rt'[t].completed
    <2>1. CASE j = h BY <2>1, <1>2
    <2>2. CASE j # h
      <3>1. j \in 1..Len(txs) /\ txs[j].tab = t /\ txs[j].age = "recent"
        BY <1>2, <1>16, <2>2
      <3>2. j \in rt[t].completed BY <3>1, <1>9 DEF MemoryFits
      <3>3. txs[j].key # panel[p].key BY <1>1, <3>1 DEF PressFits, t
      <3> QED BY <1>2, <3>2, <3>3
    <2> QED BY <2>1, <2>2
  <1>17. MemoryFits(t, rt'[t], txs') BY <1>15, <1>16 DEF MemoryFits
  <1> QED BY <1>2, <1>6, <1>7, <1>8, <1>12, <1>14, <1>17, TabStep

LEMMA ReceiptStructure ==
    ASSUME Structure, NEW p \in Panels, Receipt(p) PROVE Structure'
  <1>1. CASE Accepted(p) BY <1>1, AcceptedStructure
  <1>2. CASE /\ At(p, "sent") /\ txs[panel[p].hash].status = "reverted"
             /\ Reject(p) /\ UNCHANGED <<Wallet, ledger, astray, faults>>
    <2>1. panel[p].pc \in Submitting BY <1>2 DEF At, Submitting
    <2>2. UNCHANGED Wallet /\ ledger' = ledger /\ astray' \in BOOLEAN
      BY <1>2 DEF Structure, Types, Purse
    <2> QED BY <1>2, <2>1, <2>2, RejectStructure
  <1> QED BY <1>1, <1>2, ReceiptIs

LEMMA Scaled ==
    ASSUME NEW n \in Nat, NEW a \in Nat, NEW b \in Nat \ {0}, a <= b
    PROVE  /\ (n * a) \div b \in Nat /\ (n * a) \div b <= n
           /\ n = b => (n * a) \div b = a
  <1> DEFINE x == n * a
             q == x \div b
  <1>1. x \in Nat OBVIOUS
  <1>2. x <= n * b
    <2>1. b - a \in Nat OBVIOUS
    <2>2. n * (b - a) \in Nat BY <2>1
    <2>3. n * b = n * a + n * (b - a) BY <2>1
    <2> QED BY <2>2, <2>3, <1>1
  <1> HIDE DEF x
  <1>3. q \in Nat /\ b * q <= x /\ x < b * q + b BY <1>1
  <1> HIDE DEF q
  <1>4. b * q <= b * n
    <2>1. b * n = n * b OBVIOUS
    <2> QED BY <2>1, <1>1, <1>2, <1>3
  <1>5. q <= n
    <2>1. CASE q > n
      <3>1. q >= n + 1 BY <2>1, <1>3
      <3>2. b * q >= b * (n + 1) BY <3>1, <1>3
      <3>3. b * (n + 1) = b * n + b OBVIOUS
      <3>4. b * n \in Nat /\ b * q \in Nat BY <1>3
      <3> QED BY <1>4, <3>2, <3>3, <3>4
    <2> QED BY <2>1, <1>3
  <1>6. ASSUME n = b PROVE q = a
    <2>1. x = b * a BY <1>6 DEF x
    <2>2. b * q <= b * a /\ b * a < b * q + b BY <1>3, <2>1
    <2>3. CASE q < a
      <3>1. b * (q + 1) <= b * a BY <2>3, <1>3
      <3>2. b * (q + 1) = b * q + b BY <1>3
      <3> QED BY <2>2, <3>1, <3>2, <1>3
    <2>4. CASE q > a
      <3>1. b * (a + 1) <= b * q BY <2>4, <1>3
      <3>2. b * (a + 1) = b * a + b OBVIOUS
      <3> QED BY <2>2, <3>1, <3>2, <1>3
    <2> QED BY <2>3, <2>4, <1>3
  <1> QED BY <1>3, <1>5, <1>6 DEF x, q

LEMMA ShownFits ==
    ASSUME NEW view \in View,
           view.key.kind # "deposit" => view.key.amount <= view.before
    PROVE  Shown(view) \in View
  <1>1. view.key.amount \in Nat /\ view.before \in Nat /\ view.usdc \in Nat \cup {Masked}
    BY DEF View, Keys
  <1>2. CASE view.key.kind = "deposit"
    <2> DEFINE usdc == IF view.usdc = Masked THEN Masked
                       ELSE IF view.usdc > view.key.amount THEN view.usdc - view.key.amount ELSE 0
    <2>1. usdc \in Nat \cup {Masked} BY <1>1
    <2>2. Shown(view) = [view EXCEPT !.shares = Masked, !.usdc = usdc]
      BY <1>2 DEF Shown, View
    <2> HIDE DEF usdc
    <2> QED BY <2>1, <2>2 DEF View
  <1>3. CASE view.key.kind # "deposit"
    <2>1. view.before - view.key.amount \in Nat BY <1>1, <1>3
    <2> QED BY <1>3, <2>1 DEF Shown, View
  <1> QED BY <1>2, <1>3

LEMMA HandleStructure ==
    ASSUME Structure, NEW p \in EarnPanels, panel[p].pc = "verifying", Handle(p),
           UNCHANGED <<Wallet, astray>>
    PROVE  Structure'
  <1> DEFINE t == tabOf[p]
             h == panel[p].hash
  <1>0. p \in Panels BY DEF Panels
  <1>1. /\ panel[p] \in View /\ PressFits(p, panel[p], t, txs) /\ t \in Tabs
        /\ panel[p].pc \notin Submitting \cup {"idle"}
    BY <1>0, PanelsAre DEF Submitting
  <1>2. UNCHANGED Wallet /\ astray' \in BOOLEAN BY DEF Structure, Types, Purse
  <1>3. CASE h \in rt[t].handled
    <2>1. End(p) /\ ledger' = ledger BY <1>3 DEF Handle
    <2> QED BY <1>0, <1>1, <1>2, <2>1, EndStructure
  <1>4. CASE h \notin rt[t].handled
    <2> DEFINE r == [Release(t, {p}) EXCEPT !.handled = rt[t].handled \cup {h}]
    <2>1. /\ Release(t, {p}) \in Tab
          /\ Release(t, {p}).handled = rt[t].handled
          /\ Release(t, {p}).completed = rt[t].completed
          /\ Release(t, {p}).inFlight = rt[t].inFlight
      BY <1>1, ReleaseFits DEF Structure
    <2>2. rt' = [rt EXCEPT ![t] = [Release(t, {p}) EXCEPT
                                       !.handled = Release(t, {p}).handled \cup {h}]]
      BY <1>4 DEF Handle
    <2>3. rt' = [rt EXCEPT ![t] = r] BY <2>1, <2>2
    <2>4. h \in Nat /\ rt[t] \in Tab BY <1>1, TabsAre DEF View
    <2>5. /\ r \in Tab /\ r.handled = rt[t].handled \cup {h}
          /\ r.completed = rt[t].completed /\ r.inFlight = rt[t].inFlight
          /\ r.gate = Release(t, {p}).gate
      BY <2>1, <2>4 DEF Tab
    <2>6. /\ h \in 1..Len(txs) /\ txs[h].tab = t
          /\ txs[h].status = "ok" /\ txs[h].age # "unseen"
      BY <1>1 DEF PressFits
    <2>7. MemoryFits(t, rt[t], txs) BY <1>1, TabsAre
    <2> HIDE DEF r
    <2>8. MemoryFits(t, r, txs) BY <2>5, <2>6, <2>7 DEF MemoryFits
    <2>9. /\ panel' = [panel EXCEPT ![p] = Ended(Shown(panel[p]))]
          /\ ledger' = IF panel[p].key.kind = "deposit" THEN ledger + panel[p].key.amount
                       ELSE recordRedeem(panel[p].before, panel[p].before - panel[p].key.amount)
      BY <1>4 DEF Handle
    <2>10. /\ panel[p].key.kind # "deposit" => /\ panel[p].key.amount # 0
                                               /\ panel[p].key.amount <= panel[p].before
           /\ panel[p].key.amount \in Nat /\ panel[p].before \in Nat
      BY <1>1 DEF PressFits, View, Keys, Active
    <2>11. Shown(panel[p]) \in View
      BY <1>1, <2>10, ShownFits
    <2>12. ledger' \in Nat
      <3>1. ledger \in Nat BY DEF Structure, Types, Purse
      <3>2. CASE panel[p].key.kind = "deposit" BY <2>9, <2>10, <3>1, <3>2
      <3>3. CASE panel[p].key.kind # "deposit"
        <4>1. /\ panel[p].before \in Nat \ {0}
              /\ panel[p].before - panel[p].key.amount \in Nat
              /\ panel[p].before - panel[p].key.amount <= panel[p].before
          BY <2>10, <3>3
        <4> QED BY <2>9, <3>1, <3>3, <4>1, Scaled DEF recordRedeem
      <3> QED BY <3>2, <3>3
    <2> QED BY <1>0, <1>1, <1>2, <2>3, <2>5, <2>8, <2>9, <2>11, <2>12, PressEnds
  <1> QED BY <1>3, <1>4

LEMMA VerifiedStructure ==
    ASSUME Structure, NEW p \in Panels, Verified(p) PROVE Structure'
  <1>1. panel[p].pc = "verifying" /\ UNCHANGED <<Wallet, astray>>
    BY DEF Verified, At
  <1>2. CASE p \in EarnPanels BY <1>1, <1>2, HandleStructure DEF Verified
  <1>3. CASE p \notin EarnPanels
    <2>1. End(p) /\ ledger' = ledger BY <1>3 DEF Verified
    <2>2. UNCHANGED Wallet /\ astray' \in BOOLEAN
      BY <1>1 DEF Structure, Types, Purse
    <2>3. panel[p].pc \notin Submitting \cup {"idle"} BY <1>1 DEF Submitting
    <2> QED BY <2>1, <2>2, <2>3, EndStructure
  <1> QED BY <1>2, <1>3

LEMMA VerificationFailsStructure ==
    ASSUME Structure, NEW p \in Panels, VerificationFails(p) PROVE Structure'
  <1>1. panel[p].pc \notin Submitting \cup {"idle"}
    BY DEF VerificationFails, At, Submitting
  <1>2. End(p) /\ UNCHANGED Wallet /\ ledger' = ledger /\ astray' \in BOOLEAN
    BY DEF VerificationFails, Structure, Types, Purse
  <1> QED BY <1>1, <1>2, EndStructure

LEMMA RefusedStructure ==
    ASSUME Structure, NEW p \in Panels, Refused(p) PROVE Structure'
  <1>1. panel[p].pc \notin Submitting \cup {"idle"}
    BY DEF Refused, At, Submitting
  <1>2. End(p) /\ UNCHANGED Wallet /\ ledger' = ledger /\ astray' \in BOOLEAN
    BY DEF Refused, Structure, Types, Purse
  <1> QED BY <1>1, <1>2, EndStructure

\* The chain and the clock go on.
LEMMA ChainStructure ==
    ASSUME Structure, UNCHANGED <<tabOf, rt, panel>>, Purse', txs' \in Seq(Tx),
           \A u : GoesOn(u, txs, txs')
    PROVE  Structure'
  <1>1. Types' BY DEF Types, Structure
  <1>2. PressesFit'
    <2>1. ASSUME NEW p \in Panels PROVE PressFits(p, panel[p], tabOf[p], txs')
      BY PressGoesOn DEF Structure, PressesFit, Types
    <2> QED BY <2>1 DEF PressesFit
  <1>3. TabsFit'
    <2>1. ASSUME NEW t \in Tabs
          PROVE  /\ GateFits(t, rt[t], panel, tabOf) /\ FlightFits(t, rt[t], panel, tabOf)
                 /\ MemoryFits(t, rt[t], txs')
      BY TabsAre, MemoryGoesOn DEF Structure, Types
    <2> QED BY <2>1 DEF TabsFit
  <1> QED BY <1>1, <1>2, <1>3 DEF Structure

\* One transaction gets another status or age.
LEMMA TxChanges ==
    ASSUME NEW s \in Seq(Tx), NEW h \in 1..Len(s), NEW new \in Tx,
           new.key = s[h].key, new.tab = s[h].tab, s[h].status = "ok" => new.status = "ok",
           new.age = "unseen" <=> s[h].age = "unseen",
           new.age = "recent" => s[h].age = "recent"
    PROVE  LET z == [s EXCEPT ![h] = new]
           IN  /\ z \in Seq(Tx) /\ Len(z) = Len(s) /\ z[h] = new
               /\ \A j \in 1..Len(s) : j # h => z[j] = s[j]
               /\ \A u : GoesOn(u, s, z)
  <1> DEFINE z == [s EXCEPT ![h] = new]
  <1>1. z \in Seq(Tx) /\ Len(z) = Len(s) OBVIOUS
  <1>2. z[h] = new /\ \A j \in 1..Len(s) : j # h => z[j] = s[j] OBVIOUS
  <1> HIDE DEF z
  <1>3. \A u : GoesOn(u, s, z) BY <1>1, <1>2 DEF GoesOn
  <1> QED BY <1>1, <1>2, <1>3 DEF z

\* What Execute makes of a transaction and of what the account holds.
LEMMA ExecuteIs ==
    ASSUME Types, NEW h \in Hashes, Execute(h)
    PROVE  LET key == txs[h].key
           IN  /\ txs[h].status = "sent" /\ txs' \in Seq(Tx) /\ Len(txs') = Len(txs)
               /\ \A u : GoesOn(u, txs, txs')
               /\ txs'[h].key = key /\ txs'[h].tab = txs[h].tab
               /\ \A j \in Hashes : j # h => txs'[j] = txs[j]
               /\ Purse' /\ UNCHANGED <<tabOf, ledger, rt, panel, astray>>
               /\ \/ txs'[h].status = "reverted" /\ held' = held
                  \/ txs'[h].status = "ok" /\ key.kind = "claim" /\ held'.shares = held.shares
                  \/ txs'[h].status = "ok" /\ key.kind = "deposit"
                     /\ held'.shares = held.shares + key.amount
                  \/ txs'[h].status = "ok" /\ key.kind = "redeem"
                     /\ held'.shares = held.shares - key.amount
  <1> DEFINE key == txs[h].key
             covered == CASE key.kind = "deposit" -> held.usdc >= key.amount
                          [] key.kind = "redeem" -> held.shares >= key.amount
                          [] OTHER -> ~claimed
             in == IF key.kind = "deposit" THEN - key.amount ELSE key.amount
             out == IF key.kind = "claim" THEN 0 ELSE - in
             status == IF covered THEN "ok" ELSE "reverted"
             new == [txs[h] EXCEPT !.status = status]
  <1>1. txs \in Seq(Tx) /\ h \in 1..Len(txs) /\ txs[h] \in Tx BY DEF Types, Hashes
  <1>2. /\ key.kind \in {"deposit", "redeem", "claim"} /\ key.amount \in Nat
        /\ held \in [usdc : Nat, shares : Nat] /\ held.usdc \in Nat /\ held.shares \in Nat
    BY <1>1 DEF Tx, Keys, Types, Purse
  <1>3. /\ txs[h].status = "sent" /\ txs' = [txs EXCEPT ![h] = new]
        /\ held' = IF covered THEN [usdc |-> held.usdc + in, shares |-> held.shares + out]
                   ELSE held
        /\ claimed' \in BOOLEAN /\ UNCHANGED <<tabOf, ledger, rt, panel, astray>>
    BY DEF Execute, Types, Purse
  <1>4. status \in {"ok", "reverted"} OBVIOUS
  <1>5. CASE covered
    <2>1. held' = [usdc |-> held.usdc + in, shares |-> held.shares + out] /\ status = "ok"
      BY <1>3, <1>5
    <2>2. key.kind = "deposit" => held.usdc >= key.amount BY <1>5
    <2>3. key.kind = "redeem" => held.shares >= key.amount BY <1>5
    <2> HIDE DEF covered, status
    <2>4. /\ held.usdc + in \in Nat /\ held.shares + out \in Nat
          /\ key.kind = "claim" => held.shares + out = held.shares
          /\ key.kind = "deposit" => held.shares + out = held.shares + key.amount
          /\ key.kind = "redeem" => held.shares + out = held.shares - key.amount
      BY <1>2, <2>2, <2>3
    <2> HIDE DEF in, out, key
    <2>5. held' \in [usdc : Nat, shares : Nat] /\ held'.shares = held.shares + out
      BY <2>1, <2>4
    <2>6. /\ new \in Tx /\ new.status = "ok" /\ new.key = txs[h].key /\ new.tab = txs[h].tab
          /\ new.age = txs[h].age
      BY <1>1, <2>1 DEF Tx
    <2> HIDE DEF new
    <2>7. /\ txs' \in Seq(Tx) /\ Len(txs') = Len(txs) /\ txs'[h] = new
          /\ \A j \in 1..Len(txs) : j # h => txs'[j] = txs[j]
          /\ \A u : GoesOn(u, txs, txs')
      <3>1. /\ txs[h].status = "ok" => new.status = "ok"
            /\ new.age = "unseen" <=> txs[h].age = "unseen"
            /\ new.age = "recent" => txs[h].age = "recent"
        BY <2>6
      <3>2. LET z == [txs EXCEPT ![h] = new]
            IN  /\ z \in Seq(Tx) /\ Len(z) = Len(txs) /\ z[h] = new
                /\ \A j \in 1..Len(txs) : j # h => z[j] = txs[j]
                /\ \A u : GoesOn(u, txs, z)
        BY <1>1, <2>6, <3>1, TxChanges
      <3> QED BY <1>3, <3>2
    <2>8. Purse' BY <1>3, <2>5 DEF Purse, Types
    <2> QED BY <1>2, <1>3, <2>4, <2>5, <2>6, <2>7, <2>8 DEF Hashes, key
  <1>6. CASE ~covered
    <2>1. held' = held /\ status = "reverted" BY <1>3, <1>6
    <2> HIDE DEF covered, status
    <2>2. /\ new \in Tx /\ new.status = "reverted" /\ new.key = txs[h].key /\ new.tab = txs[h].tab
          /\ new.age = txs[h].age
      BY <1>1, <2>1 DEF Tx
    <2> HIDE DEF new
    <2>3. /\ txs' \in Seq(Tx) /\ Len(txs') = Len(txs) /\ txs'[h] = new
          /\ \A j \in 1..Len(txs) : j # h => txs'[j] = txs[j]
          /\ \A u : GoesOn(u, txs, txs')
      <3>1. /\ txs[h].status = "ok" => new.status = "ok"
            /\ new.age = "unseen" <=> txs[h].age = "unseen"
            /\ new.age = "recent" => txs[h].age = "recent"
        BY <1>3, <2>2
      <3>2. LET z == [txs EXCEPT ![h] = new]
            IN  /\ z \in Seq(Tx) /\ Len(z) = Len(txs) /\ z[h] = new
                /\ \A j \in 1..Len(txs) : j # h => z[j] = txs[j]
                /\ \A u : GoesOn(u, txs, z)
        BY <1>1, <2>2, <3>1, TxChanges
      <3> QED BY <1>3, <3>2
    <2>4. Purse' BY <1>3, <2>1 DEF Purse, Types
    <2> QED BY <1>3, <2>1, <2>2, <2>3, <2>4 DEF Hashes
  <1> QED BY <1>5, <1>6

LEMMA ExecuteStructure ==
    ASSUME Structure, NEW h \in Hashes, Execute(h) PROVE Structure'
  <1>1. /\ txs' \in Seq(Tx) /\ Purse' /\ UNCHANGED <<tabOf, rt, panel>>
        /\ \A u : GoesOn(u, txs, txs')
    BY ExecuteIs DEF Structure
  <1> QED BY <1>1, ChainStructure

LEMMA LapseIs ==
    ASSUME Types, NEW h \in Hashes, Lapse(h)
    PROVE  /\ txs' \in Seq(Tx) /\ Len(txs') = Len(txs) /\ \A u : GoesOn(u, txs, txs')
           /\ \A j \in Hashes : /\ txs'[j].key = txs[j].key /\ txs'[j].tab = txs[j].tab
                                /\ txs'[j].status = txs[j].status
           /\ UNCHANGED <<tabOf, held, claimed, ledger, rt, panel, astray>>
  <1> DEFINE new == [txs[h] EXCEPT !.age = "old"]
  <1>1. txs \in Seq(Tx) /\ h \in 1..Len(txs) /\ txs[h] \in Tx BY DEF Types, Hashes
  <1>2. /\ txs[h].age = "recent" /\ txs' = [txs EXCEPT ![h] = new]
        /\ UNCHANGED <<tabOf, held, claimed, ledger, rt, panel, astray>>
    BY DEF Lapse
  <1>3. /\ new \in Tx /\ new.key = txs[h].key /\ new.tab = txs[h].tab
        /\ new.status = txs[h].status /\ new.age = "old"
    BY <1>1 DEF Tx
  <1> HIDE DEF new
  <1>4. /\ txs' \in Seq(Tx) /\ Len(txs') = Len(txs) /\ txs'[h] = new
        /\ \A j \in 1..Len(txs) : j # h => txs'[j] = txs[j]
        /\ \A u : GoesOn(u, txs, txs')
    <2>1. /\ txs[h].status = "ok" => new.status = "ok"
          /\ new.age = "unseen" <=> txs[h].age = "unseen"
          /\ new.age = "recent" => txs[h].age = "recent"
      BY <1>2, <1>3
    <2>2. LET z == [txs EXCEPT ![h] = new]
          IN  /\ z \in Seq(Tx) /\ Len(z) = Len(txs) /\ z[h] = new
              /\ \A j \in 1..Len(txs) : j # h => z[j] = txs[j]
              /\ \A u : GoesOn(u, txs, z)
      BY <1>1, <1>3, <2>1, TxChanges
    <2> QED BY <1>2, <2>2
  <1> QED BY <1>2, <1>3, <1>4 DEF Hashes

LEMMA LapseStructure ==
    ASSUME Structure, NEW h \in Hashes, Lapse(h) PROVE Structure'
  <1>1. /\ txs' \in Seq(Tx) /\ UNCHANGED <<tabOf, held, claimed, ledger, rt, panel, astray>>
        /\ \A u : GoesOn(u, txs, txs')
    BY LapseIs DEF Structure
  <1>2. Purse' BY <1>1 DEF Structure, Types, Purse
  <1> QED BY <1>1, <1>2, ChainStructure

\* What Reload leaves.
LEMMA ReloadIs ==
    ASSUME Types, NEW t \in Tabs, Reload(t)
    PROVE  /\ txs' \in Seq(Tx) /\ Len(txs') = Len(txs)
           /\ \A u : GoesOn(u, txs, txs')
           /\ \A j \in Hashes : /\ txs'[j].key = txs[j].key /\ txs'[j].tab = txs[j].tab
                                /\ txs'[j].status = txs[j].status
                                /\ ~ (txs'[j].tab = t /\ txs'[j].age = "recent")
           /\ rt' \in [Tabs -> Tab] /\ \A u \in Tabs \ {t} : rt'[u] = rt[u]
           /\ rt'[t].completed = {} /\ rt'[t].handled = {} /\ rt'[t].inFlight = Nobody
           /\ panel' \in [Panels -> View]
           /\ \A p \in Panels : tabOf[p] = t => panel'[p].pc = "idle"
           /\ \A p \in Panels : tabOf[p] # t => panel'[p] = panel[p]
           /\ UNCHANGED <<tabOf, held, claimed, ledger>>
  <1> DEFINE old(h) == [txs[h] EXCEPT !.age = "old"]
             new(h) == IF txs[h].tab = t /\ txs[h].age = "recent" THEN old(h) ELSE txs[h]
  <1>1. txs \in Seq(Tx) /\ Len(txs) \in Nat /\ \A h \in 1..Len(txs) : txs[h] \in Tx
    BY DEF Types
  <1>2. txs' = [h \in 1..Len(txs) |-> new(h)]
    BY DEF Reload, Hashes
  <1>3. ASSUME NEW h \in 1..Len(txs)
        PROVE  /\ new(h) \in Tx /\ new(h).key = txs[h].key /\ new(h).tab = txs[h].tab
               /\ new(h).status = txs[h].status
               /\ new(h).age = "unseen" <=> txs[h].age = "unseen"
               /\ new(h).age = "recent" => txs[h].age = "recent"
               /\ ~ (new(h).tab = t /\ new(h).age = "recent")
    <2>1. old(h) \in Tx /\ old(h).key = txs[h].key /\ old(h).tab = txs[h].tab
          /\ old(h).status = txs[h].status /\ old(h).age = "old"
      BY <1>1 DEF Tx
    <2> HIDE DEF old
    <2> QED BY <1>1, <2>1
  <1> HIDE DEF new
  <1>4. txs' \in Seq(Tx) /\ Len(txs') = Len(txs) /\ \A h \in 1..Len(txs) : txs'[h] = new(h)
    BY <1>1, <1>2, <1>3
  <1>5. \A u : GoesOn(u, txs, txs') BY <1>1, <1>3, <1>4 DEF GoesOn
  <1>6. Runtime \in Tab /\ Runtime.completed = {} /\ Runtime.handled = {}
        /\ Runtime.inFlight = Nobody
    BY DEF Runtime, Tab
  <1>7. rt' = [rt EXCEPT ![t] = Runtime] BY DEF Reload
  <1>8. /\ rt' \in [Tabs -> Tab] /\ rt'[t] = Runtime /\ \A u \in Tabs \ {t} : rt'[u] = rt[u]
    BY <1>6, <1>7 DEF Types
  <1>9. Fresh \in View /\ Fresh.pc = "idle"
    <2>1. NoKey \in Keys BY DEF NoKey, Keys
    <2> QED BY <2>1 DEF Fresh, View, PCs
  <1>10. panel' = [p \in Panels |-> IF tabOf[p] = t THEN Fresh ELSE panel[p]]
    BY DEF Reload
  <1>11. /\ panel' \in [Panels -> View]
         /\ \A p \in Panels : tabOf[p] = t => panel'[p].pc = "idle"
         /\ \A p \in Panels : tabOf[p] # t => panel'[p] = panel[p]
    BY <1>9, <1>10 DEF Types
  <1>12. UNCHANGED <<tabOf, held, claimed, ledger>> BY DEF Reload
  <1>13. \A j \in Hashes : /\ txs'[j].key = txs[j].key /\ txs'[j].tab = txs[j].tab
                           /\ txs'[j].status = txs[j].status
                           /\ ~ (txs'[j].tab = t /\ txs'[j].age = "recent")
    BY <1>3, <1>4 DEF Hashes
  <1> QED BY <1>4, <1>5, <1>6, <1>8, <1>11, <1>12, <1>13

LEMMA ReloadStructure ==
    ASSUME Structure, NEW t \in Tabs, Reload(t) PROVE Structure'
  <1>1. /\ txs' \in Seq(Tx) /\ Len(txs') = Len(txs)
        /\ \A u : GoesOn(u, txs, txs')
        /\ \A j \in Hashes : ~ (txs'[j].tab = t /\ txs'[j].age = "recent")
        /\ rt' \in [Tabs -> Tab] /\ \A u \in Tabs \ {t} : rt'[u] = rt[u]
        /\ rt'[t].completed = {} /\ rt'[t].handled = {} /\ rt'[t].inFlight = Nobody
        /\ panel' \in [Panels -> View]
        /\ \A p \in Panels : tabOf[p] = t => panel'[p].pc = "idle"
        /\ \A p \in Panels : tabOf[p] # t => panel'[p] = panel[p]
        /\ UNCHANGED <<tabOf, held, claimed, ledger>>
    BY ReloadIs DEF Structure
  <1>2. StaysTyped
    BY <1>1 DEF StaysTyped, Purse, Structure, Types, Reload
  <1>3. OnlyIn(t) BY <1>1 DEF OnlyIn
  <1> DEFINE S == {p \in Panels : tabOf[p] = t}
  <1>4. /\ S \in SUBSET Panels /\ \A p \in S : panel'[p].pc = "idle"
        /\ \A p \in Panels \ S : panel'[p] = panel[p]
        /\ \A p \in EarnPanels \ S :
               tabOf[p] = t /\ panel[p].pc # "idle" => rt'[t].gate
        /\ \A p \in Panels \ S :
                    tabOf[p] = t => panel[p].pc \notin Submitting \cup {"following"}
    BY <1>1 DEF Panels
  <1>5. MemoryFits(t, rt'[t], txs') BY <1>1 DEF MemoryFits, Hashes
  <1> HIDE DEF S
  <1> QED BY <1>1, <1>2, <1>3, <1>4, <1>5, TabEnds

LEMMA StructureAtFirst == Init => Structure
  <1> SUFFICES ASSUME Init PROVE Structure OBVIOUS
  <1>1. Fresh \in View /\ Fresh.pc = "idle"
    <2>1. NoKey \in Keys BY DEF NoKey, Keys
    <2> QED BY <2>1 DEF Fresh, View, PCs
  <1>2. Runtime \in Tab /\ Runtime.completed = {} /\ Runtime.handled = {}
        /\ Runtime.inFlight = Nobody
    BY DEF Runtime, Tab
  <1>3. txs \in Seq(Tx) /\ Len(txs) = 0 BY DEF Init
  <1>4. Purse BY EarnAssumption DEF Init, Purse
  <1>5. Types BY <1>1, <1>2, <1>3, <1>4 DEF Types, Init
  <1>6. \A p \in Panels : panel[p].pc = "idle" BY <1>1 DEF Init
  <1>7. PressesFit BY <1>6 DEF PressesFit, PressFits, Submitting, Active
  <1>8. EarnPanels \subseteq Panels BY DEF Panels
  <1>9. TabsFit
    <2> SUFFICES ASSUME NEW t \in Tabs
                 PROVE  /\ GateFits(t, rt[t], panel, tabOf) /\ FlightFits(t, rt[t], panel, tabOf)
                        /\ MemoryFits(t, rt[t], txs)
      BY DEF TabsFit
    <2>1. rt[t] = Runtime BY DEF Init
    <2>2. GateFits(t, rt[t], panel, tabOf) BY <1>6, <1>8 DEF GateFits
    <2>3. FlightFits(t, rt[t], panel, tabOf) BY <1>2, <1>6, <2>1 DEF FlightFits, Submitting
    <2>4. MemoryFits(t, rt[t], txs) BY <1>2, <1>3, <2>1 DEF MemoryFits
    <2> QED BY <2>2, <2>3, <2>4
  <1> QED BY <1>5, <1>7, <1>9 DEF Structure

LEMMA StructureStays == Structure /\ [Next]_vars => Structure'
  <1> SUFFICES ASSUME Structure, [Next]_vars PROVE Structure' OBVIOUS
  <1>1. ASSUME NEW p \in Panels, Reveal(p) \/ Revealed(p) PROVE Structure'
    BY <1>1, RevealStructure, RevealedStructure
  <1>2. ASSUME NEW p \in Panels, Deposit(p) \/ Withdraw(p) \/ Claim(p) PROVE Structure'
    BY <1>2, DepositStructure, WithdrawStructure, ClaimStructure
  <1>3. ASSUME NEW p \in Panels, Connected(p) \/ Refused(p) \/ CheckRuntime(p) PROVE Structure'
    BY <1>3, ConnectedStructure, RefusedStructure, CheckRuntimeStructure
  <1>4. ASSUME NEW p \in Panels, Approve(p) \/ Decline(p) \/ Receipt(p) PROVE Structure'
    BY <1>4, ApproveStructure, DeclineStructure, ReceiptStructure
  <1>5. ASSUME NEW p \in Panels, Verified(p) \/ ReceiptLost(p) \/ VerificationFails(p)
        PROVE  Structure'
    BY <1>5, VerifiedStructure, ReceiptLostStructure, VerificationFailsStructure
  <1>6. ASSUME NEW h \in Hashes, Execute(h) \/ Lapse(h) PROVE Structure'
    BY <1>6, ExecuteStructure, LapseStructure
  <1>7. ASSUME NEW t \in Tabs, Reload(t) PROVE Structure' BY <1>7, ReloadStructure
  <1>8. CASE UNCHANGED vars
    <2>1. txs' \in Seq(Tx) /\ Purse' /\ UNCHANGED <<tabOf, rt, panel, txs>>
      BY <1>8 DEF vars, Structure, Types, Purse
    <2> QED BY <2>1, HashesStay, ChainStructure DEF Structure
  <1> QED BY <1>1, <1>2, <1>3, <1>4, <1>5, <1>6, <1>7, <1>8 DEF Next

-----------------------------------------------------------------------------
(* One prompt, and no second submission.                                    *)

LEMMA StructureHolds == Spec => []Structure
BY StructureAtFirst, StructureStays, PTL DEF Spec

\* A tab of mainnet never has two confirmations of Ready open, for any panels
\* of any number of tabs (mainnet-privacy.ts:324).
THEOREM OnePromptHolds == Spec => []OnePrompt
<1>1. Structure => OnePrompt
  <2> SUFFICES ASSUME Structure, NEW t \in Tabs
               PROVE  Cardinality({p \in Panels : tabOf[p] = t /\ At(p, "prompt")}) <= 1
    BY DEF OnePrompt
  <2> DEFINE asking == {p \in Panels : tabOf[p] = t /\ At(p, "prompt")}
             first == rt[t].inFlight
  <2>1. FlightFits(t, rt[t], panel, tabOf) BY TabsAre
  <2>2. asking \subseteq {first} BY <2>1 DEF FlightFits, At, Submitting
  <2> HIDE DEF asking, first
  <2>3. IsFiniteSet({first}) /\ Cardinality({first}) = 1 BY FS_Singleton
  <2>4. Cardinality(asking) <= 1 BY <2>2, <2>3, FS_Subset
  <2> QED BY <2>4 DEF asking
<1> QED BY <1>1, StructureHolds, PTL

\* Within the replay window no tab sends again what it has sent and seen
\* succeed, whichever panel asks and however long ago it was pressed
\* (mainnet-privacy.ts:315).
THEOREM NoRebroadcastHolds == Spec => NoRebroadcast
<1> DEFINE New == \A h \in 1..Len(txs') \ Hashes : \A j \in Hashes :
                     ~ (/\ txs[j].tab = txs'[h].tab /\ txs[j].key = txs'[h].key
                        /\ txs[j].age = "recent")
<1>1. Structure /\ [Next]_vars => [New]_vars
  <2> SUFFICES ASSUME Structure, Next PROVE New OBVIOUS
  <2>1. ASSUME NEW p \in Panels, Approve(p) PROVE New
    <3>1. /\ Len(txs') = Len(txs) + 1
          /\ txs'[Len(txs) + 1].key = panel[p].key /\ txs'[Len(txs) + 1].tab = tabOf[p]
      BY <2>1, ApproveIs
    <3>2. \A h \in 1..Len(txs') \ Hashes : h = Len(txs) + 1
      BY <3>1 DEF Hashes, Structure, Types
    <3>3. PressFits(p, panel[p], tabOf[p], txs) /\ panel[p].pc = "prompt"
      BY <2>1, PanelsAre DEF Approve, At
    <3>4. \A j \in Hashes : ~ (txs[j].tab = tabOf[p] /\ txs[j].key = panel[p].key
                               /\ txs[j].age = "recent")
      BY <3>3 DEF PressFits, Submitting, Hashes
    <3> QED BY <3>1, <3>2, <3>4
  <2>2. CASE Len(txs') = Len(txs) BY <2>2 DEF Hashes
  <2>3. ASSUME NEW p \in Panels, Receipt(p) PROVE Len(txs') = Len(txs)
    <3>1. CASE Accepted(p) BY <3>1, AcceptedIs
    <3>2. CASE UNCHANGED Wallet BY <3>2 DEF Wallet
    <3> QED BY <2>3, <3>1, <3>2, ReceiptIs
  <2>4. ASSUME NEW h \in Hashes, Execute(h) \/ Lapse(h) PROVE Len(txs') = Len(txs)
    BY <2>4, ExecuteIs, LapseIs DEF Structure
  <2>5. ASSUME NEW t \in Tabs, Reload(t) PROVE Len(txs') = Len(txs)
    BY <2>5, ReloadIs DEF Structure
  <2>6. ASSUME NEW p \in Panels,
               \/ Reveal(p) \/ Revealed(p) \/ Deposit(p) \/ Withdraw(p) \/ Claim(p)
               \/ Connected(p) \/ Refused(p) \/ CheckRuntime(p) \/ Decline(p)
               \/ Verified(p) \/ ReceiptLost(p) \/ VerificationFails(p)
        PROVE  Len(txs') = Len(txs)
    BY <2>6 DEF Reveal, Revealed, Deposit, Withdraw, Claim, Connected, Refused, CheckRuntime,
                Decline, Verified, ReceiptLost, VerificationFails, Wallet
  <2> QED BY <2>1, <2>2, <2>3, <2>4, <2>5, <2>6 DEF Next
<1> QED BY <1>1, StructureHolds, PTL DEF Spec, NoRebroadcast

-----------------------------------------------------------------------------
(* Tokens.                                                                  *)

TokensOf(s, hashes) == UNION {{h} \X (1..s[h].key.amount) : h \in hashes}

LEMMA AmountIs ==
    ASSUME NEW s \in Seq(Tx), NEW h \in 1..Len(s)
    PROVE  s[h].key.amount \in Nat
  <1>1. s[h] \in Tx OBVIOUS
  <1>2. s[h].key \in Keys BY <1>1 DEF Tx
  <1> QED BY <1>2 DEF Keys

LEMMA TokensAre ==
    ASSUME NEW s \in Seq(Tx), NEW X \in SUBSET (1..Len(s))
    PROVE  /\ IsFiniteSet(TokensOf(s, X)) /\ Cardinality(TokensOf(s, X)) \in Nat
           /\ TokensOf(s, {}) = {}
           /\ \A h \in X : s[h].key.amount \in Nat
           /\ \A u \in TokensOf(s, X) : \E h \in X : u[1] = h
  <1> DEFINE Of(h) == {h} \X (1..s[h].key.amount)
             T == {Of(h) : h \in X}
  <1>1. ASSUME NEW h \in X PROVE s[h].key.amount \in Nat BY AmountIs
  <1>2. IsFiniteSet(X)
    <2> DEFINE n == Len(s)
    <2>1. n \in Int /\ 0 + 1 \in Int OBVIOUS
    <2> HIDE DEF n
    <2>2. IsFiniteSet(1..n) BY <2>1, FS_Interval
    <2> QED BY <2>2, FS_Subset DEF n
  <1>3. IsFiniteSet(T)
    <2> DEFINE f == [h \in X |-> Of(h)]
    <2>1. f \in Surjection(X, T) BY DEF Surjection
    <2> HIDE DEF f, T
    <2> QED BY <1>2, <2>1, FS_Surjection
  <1>4. \A C \in T : IsFiniteSet(C)
    <2> SUFFICES ASSUME NEW h \in X PROVE IsFiniteSet(Of(h)) OBVIOUS
    <2>1. IsFiniteSet({h}) BY FS_Singleton
    <2> DEFINE n == s[h].key.amount
    <2>2. n \in Int /\ 1 \in Int BY <1>1
    <2> HIDE DEF n
    <2>3. IsFiniteSet(1..n) BY <2>2, FS_Interval
    <2> QED BY <2>1, <2>3, FS_Product DEF n
  <1>5. IsFiniteSet(UNION T)
    <2> HIDE DEF T
    <2> QED BY <1>3, <1>4, FS_UNION
  <1>6. TokensOf(s, X) = UNION T BY DEF TokensOf
  <1>7. Cardinality(TokensOf(s, X)) \in Nat BY <1>5, <1>6, FS_CardinalityType
  <1>8. TokensOf(s, {}) = {} BY DEF TokensOf
  <1>9. \A u \in TokensOf(s, X) : \E h \in X : u[1] = h BY DEF TokensOf
  <1> QED BY <1>1, <1>5, <1>6, <1>7, <1>8, <1>9

LEMMA TokensSplit ==
    ASSUME NEW s \in Seq(Tx), NEW X \in SUBSET (1..Len(s)), NEW Y \in SUBSET (1..Len(s)),
           X \cap Y = {}
    PROVE  Cardinality(TokensOf(s, X \cup Y))
               = Cardinality(TokensOf(s, X)) + Cardinality(TokensOf(s, Y))
  <1> DEFINE A == TokensOf(s, X)
             B == TokensOf(s, Y)
  <1>1. TokensOf(s, X \cup Y) = A \cup B BY DEF TokensOf
  <1>2. A \cap B = {}
    <2> SUFFICES ASSUME NEW u, u \in A, u \in B PROVE FALSE
      OBVIOUS
    <2>1. \E h \in X : u[1] = h BY DEF TokensOf
    <2>2. \E h \in Y : u[1] = h BY DEF TokensOf
    <2> QED BY <2>1, <2>2
  <1>3. /\ IsFiniteSet(A) /\ IsFiniteSet(B)
        /\ Cardinality(A) \in Nat /\ Cardinality(B) \in Nat
    BY TokensAre
  <1> HIDE DEF A, B
  <1>4. Cardinality(A \cup B) = Cardinality(A) + Cardinality(B) - Cardinality(A \cap B)
    BY <1>3, FS_Union
  <1>5. Cardinality(A \cap B) = 0 BY <1>2, FS_EmptySet
  <1>6. Cardinality(A \cup B) = Cardinality(A) + Cardinality(B) BY <1>3, <1>4, <1>5
  <1> QED BY <1>1, <1>6 DEF A, B

LEMMA TokensOfOne ==
    ASSUME NEW s \in Seq(Tx), NEW h \in 1..Len(s)
    PROVE  Cardinality(TokensOf(s, {h})) = s[h].key.amount
  <1> DEFINE n == s[h].key.amount
  <1>1. n \in Nat BY AmountIs
  <1>2. TokensOf(s, {h}) = {h} \X (1..n) BY DEF TokensOf
  <1> HIDE DEF n
  <1>3. /\ IsFiniteSet({h}) /\ Cardinality({h}) = 1
        /\ IsFiniteSet(1..n) /\ Cardinality(1..n) = n
    <2>1. IsFiniteSet({h}) /\ Cardinality({h}) = 1 BY FS_Singleton
    <2>2. n \in Int /\ 1 \in Int BY <1>1
    <2>3. IsFiniteSet(1..n) /\ Cardinality(1..n) = IF 1 > n THEN 0 ELSE n - 1 + 1
      BY <2>2, FS_Interval
    <2> QED BY <2>1, <2>3, <1>1
  <1>4. Cardinality({h} \X (1..n)) = Cardinality({h}) * Cardinality(1..n)
    BY <1>3, FS_Product
  <1>5. Cardinality({h} \X (1..n)) = 1 * n BY <1>3, <1>4
  <1>6. Cardinality({h} \X (1..n)) = n BY <1>1, <1>5
  <1> QED BY <1>2, <1>6 DEF n

LEMMA TokensGrow ==
    ASSUME NEW s \in Seq(Tx), NEW X, NEW Y \in SUBSET (1..Len(s)), X \subseteq Y
    PROVE  Cardinality(TokensOf(s, X)) <= Cardinality(TokensOf(s, Y))
  <1>1. TokensOf(s, X) \subseteq TokensOf(s, Y) BY DEF TokensOf
  <1>2. IsFiniteSet(TokensOf(s, Y)) BY TokensAre
  <1> QED BY <1>1, <1>2, FS_Subset

LEMMA TokensSame ==
    ASSUME NEW s, NEW z, NEW X, \A h \in X : z[h].key = s[h].key
    PROVE  TokensOf(z, X) = TokensOf(s, X)
  BY DEF TokensOf

-----------------------------------------------------------------------------
(* The ledger is backed.                                                    *)

\* The deposits that may still be written: not handled, and with a panel or
\* remembered.
Handled(h) == h \in rt[txs[h].tab].handled
ByPanel(h) == \E p \in EarnPanels : panel[p].pc \in {"sent", "verifying"} /\ panel[p].hash = h
AtHand(h) == ByPanel(h) \/ h \in rt[txs[h].tab].completed
ToWrite == {h \in Deposits : ~Handled(h) /\ AtHand(h)}

Backed == ledger + Cardinality(TokensOf(txs, ToWrite)) <= Cardinality(TokensOf(txs, Deposits))

\* Transactions keep what was asked and where, and the ledger holds no more than
\* before.
LEMMA BackedStays ==
    ASSUME Structure, Backed, txs' \in Seq(Tx), Len(txs) <= Len(txs'),
           \A h \in Hashes : txs'[h].key = txs[h].key,
           ledger' \in Nat, ledger' <= ledger,
           NEW D \in SUBSET (Hashes \ Deposits), Deposits' = Deposits \cup D,
           \A h \in Deposits : AtHand(h)' => AtHand(h) /\ (Handled(h) => Handled(h)')
    PROVE  Backed'
  <1>1. txs \in Seq(Tx) /\ Deposits \subseteq 1..Len(txs) /\ Deposits \subseteq Hashes
        /\ ledger \in Nat
    BY DEF Structure, Types, Purse, Deposits, Hashes
  <1>2. ToWrite \subseteq Deposits BY DEF ToWrite
  <1>3. ToWrite' \subseteq ToWrite \cup D BY DEF ToWrite
  <1>10. /\ ToWrite \in SUBSET (1..Len(txs)) /\ Deposits \in SUBSET (1..Len(txs))
         /\ D \in SUBSET (1..Len(txs)) /\ ToWrite \cap D = {} /\ Deposits \cap D = {}
    BY <1>1, <1>2 DEF Hashes
  <1>4. Cardinality(TokensOf(txs, ToWrite \cup D))
            = Cardinality(TokensOf(txs, ToWrite)) + Cardinality(TokensOf(txs, D))
    BY <1>1, <1>10, TokensSplit
  <1>5. Cardinality(TokensOf(txs, Deposits \cup D))
            = Cardinality(TokensOf(txs, Deposits)) + Cardinality(TokensOf(txs, D))
    BY <1>1, <1>10, TokensSplit
  <1>6. TokensOf(txs', Deposits') = TokensOf(txs, Deposits \cup D)
    <2>1. \A h \in Deposits \cup D : txs'[h].key = txs[h].key BY <1>10 DEF Hashes
    <2> QED BY <2>1, TokensSame
  <1>7. TokensOf(txs', ToWrite') = TokensOf(txs, ToWrite')
    BY <1>1, <1>2, <1>3, TokensSame
  <1>8. Cardinality(TokensOf(txs, ToWrite')) <= Cardinality(TokensOf(txs, ToWrite \cup D))
    BY <1>1, <1>2, <1>3, TokensGrow DEF Hashes
  <1>9. /\ Cardinality(TokensOf(txs, ToWrite)) \in Nat
        /\ Cardinality(TokensOf(txs, Deposits)) \in Nat
        /\ Cardinality(TokensOf(txs, D)) \in Nat
        /\ Cardinality(TokensOf(txs, ToWrite')) \in Nat
    BY <1>1, <1>2, <1>3, TokensAre DEF Hashes
  <1> QED BY <1>1, <1>4, <1>5, <1>6, <1>7, <1>8, <1>9 DEF Backed

-----------------------------------------------------------------------------
(* The ledger follows.                                                      *)

Redeeming(p) == p \in EarnPanels /\ panel[p].pc \in Active /\ panel[p].key.kind = "redeem"
Written == {h \in Deposits : ByPanel(h) /\ ~Handled(h)}
Burnt(p) == panel[p].pc \in {"sent", "verifying"} /\ txs[panel[p].hash].status = "ok"

RedeemAlone == \A p, q \in EarnPanels :
    Redeeming(p) /\ panel[q].pc \in Active => p = q
SentIsSeen == \A h \in Hashes :
    txs[h].status = "sent" /\ txs[h].key.kind # "claim" =>
        \E p \in EarnPanels : panel[p].pc = "sent" /\ panel[p].hash = h
DoneIsHandled == \A t \in Tabs : \A h \in rt[t].completed :
    txs[h].key.kind # "claim" =>
        h \in rt[t].handled \/ \E p \in EarnPanels : panel[p].pc = "verifying" /\ panel[p].hash = h
Even == (\A p \in EarnPanels : ~Redeeming(p)) =>
            held.shares = ledger + Cardinality(TokensOf(txs, Written))
RedeemOk == \A p \in EarnPanels : Redeeming(p) =>
    IF panel[p].pc = "verifying" /\ Handled(panel[p].hash)
    THEN ledger = held.shares
    ELSE /\ ledger = panel[p].before
         /\ held.shares = IF Burnt(p) THEN panel[p].before - panel[p].key.amount
                                      ELSE panel[p].before

\* As long as nothing is astray: a redemption is alone, nothing sent or done is
\* out of sight, and the shares are the ledger's and those of deposits not yet
\* written; of a redemption the ledger is what it was before, until it is
\* handled.
InSight == RedeemAlone /\ SentIsSeen /\ DoneIsHandled /\ Even /\ RedeemOk

EarnInv == Structure /\ Backed /\ (~astray => InSight)

\* What an Earn panel knows of its transaction.
LEMMA EarnPanelsAre ==
    ASSUME Structure, NEW p \in EarnPanels
    PROVE  /\ p \in Panels /\ p \notin ClaimViews
           /\ panel[p] \in View /\ PressFits(p, panel[p], tabOf[p], txs)
           /\ panel[p].pc \notin {"idle", "revealing"} =>
                 panel[p].key.kind \in {"deposit", "redeem"}
           /\ panel[p].pc \in {"sent", "verifying"} =>
                 /\ panel[p].hash \in Hashes /\ txs[panel[p].hash].key = panel[p].key
                 /\ txs[panel[p].hash].tab = tabOf[p] /\ tabOf[p] \in Tabs
  <1>1. p \in Panels /\ p \notin ClaimViews BY EarnAssumption DEF Panels
  <1>2. panel[p] \in View /\ PressFits(p, panel[p], tabOf[p], txs) BY <1>1, PanelsAre
  <1>3. panel[p].key.kind \in {"deposit", "redeem", "claim"} BY <1>2 DEF View, Keys
  <1> QED BY <1>1, <1>2, <1>3 DEF PressFits, Hashes

\* A step without meaning for the position: claims, what comes before a
\* submission, and its way to the prompt.
Quiet ==
    /\ UNCHANGED <<tabOf, ledger>> /\ held'.shares = held.shares /\ (astray => astray')
    /\ txs' \in Seq(Tx) /\ Len(txs) <= Len(txs')
    /\ \A h \in Hashes : /\ txs'[h].key = txs[h].key /\ txs'[h].tab = txs[h].tab
                         /\ txs[h].key.kind # "claim" => txs'[h].status = txs[h].status
    /\ \A h \in 1..Len(txs') \ Hashes : txs'[h].key.kind = "claim"
    /\ \A p \in EarnPanels : panel[p].pc \in Active \/ panel'[p].pc \in Active =>
          /\ panel'[p].key = panel[p].key /\ panel'[p].before = panel[p].before
          /\ panel'[p].pc = panel[p].pc \/ {panel[p].pc, panel'[p].pc} \subseteq {"checking", "prompt"}
          /\ panel'[p].hash = panel[p].hash
    /\ \A t \in Tabs : /\ rt'[t].handled = rt[t].handled
                       /\ \A h \in rt'[t].completed :
                             h \in rt[t].completed \/ txs'[h].key.kind = "claim"

LEMMA QuietKeeps ==
    ASSUME EarnInv, Quiet, Structure'
    PROVE  Backed' /\ (~astray' => InSight')
  <1>1. txs \in Seq(Tx) /\ Deposits \subseteq Hashes /\ ledger \in Nat
    BY DEF EarnInv, Structure, Types, Purse, Deposits
  <1>2. Hashes \subseteq Hashes'
    BY <1>1 DEF Quiet, Hashes
  <1>3. Deposits' = Deposits
    BY <1>1, <1>2 DEF Quiet, Deposits, Hashes
  <1>4. \A h \in Hashes : txs[h].tab \in Tabs
    <2>1. \A h \in Hashes : txs[h] \in Tx BY <1>1 DEF Hashes
    <2> QED BY <2>1 DEF Tx
  <1>5. \A h \in Hashes : Handled(h)' <=> Handled(h)
    BY <1>4 DEF Quiet, Handled
  <1>6. \A h : ByPanel(h)' <=> ByPanel(h)
    BY DEF Quiet, ByPanel, Active, Submitting
  <1>7. \A h \in Deposits : AtHand(h)' => AtHand(h)
    BY <1>1, <1>4, <1>6 DEF Quiet, AtHand, Deposits
  <1>8. Backed'
    <2> DEFINE D == {}
    <2>1. D \in SUBSET (Hashes \ Deposits) /\ Deposits' = Deposits \cup D BY <1>3
    <2> HIDE DEF D
    <2>2. /\ Structure /\ Backed /\ txs' \in Seq(Tx) /\ Len(txs) <= Len(txs')
          /\ ledger' \in Nat /\ ledger' <= ledger
          /\ \A h \in Hashes : txs'[h].key = txs[h].key
      BY <1>1 DEF Quiet, EarnInv
    <2>3. \A h \in Deposits : AtHand(h)' => AtHand(h) /\ (Handled(h) => Handled(h)')
      BY <1>1, <1>5, <1>7
    <2> QED BY <2>1, <2>2, <2>3, BackedStays
  <1>9. ASSUME ~astray' PROVE InSight'
    <2>1. InSight BY <1>9 DEF EarnInv, Quiet
    <2>2. \A p \in EarnPanels : /\ Redeeming(p)' <=> Redeeming(p)
                                /\ panel'[p].pc \in Active <=> panel[p].pc \in Active
      BY DEF Quiet, Redeeming, Active, Submitting
    <2>3. RedeemAlone' BY <2>1, <2>2 DEF RedeemAlone, InSight
    <2>4. SentIsSeen'
      BY <2>1, <1>2 DEF SentIsSeen, InSight, Quiet, Hashes, Active, Submitting
    <2>5. DoneIsHandled'
      <3> SUFFICES ASSUME NEW t \in Tabs, NEW h \in rt'[t].completed,
                          txs'[h].key.kind # "claim"
                   PROVE  h \in rt'[t].handled
                          \/ \E p \in EarnPanels : panel'[p].pc = "verifying" /\ panel'[p].hash = h
        BY DEF DoneIsHandled
      <3>1. h \in rt[t].completed BY DEF Quiet
      <3>2. h \in Hashes BY <3>1, TabsAre DEF MemoryFits, Hashes, EarnInv
      <3>3. txs[h].key.kind # "claim" BY <3>2 DEF Quiet
      <3>4. h \in rt[t].handled
               \/ \E p \in EarnPanels : panel[p].pc = "verifying" /\ panel[p].hash = h
        BY <2>1, <3>1, <3>3 DEF InSight, DoneIsHandled
      <3> QED BY <3>4 DEF Quiet, Active
    <2>6. Written' = Written BY <1>1, <1>3, <1>5, <1>6 DEF Written
    <2>7. TokensOf(txs', Written') = TokensOf(txs, Written)
      <3>1. \A h \in Written : txs'[h].key = txs[h].key BY <1>1 DEF Quiet, Written
      <3> QED BY <2>6, <3>1, TokensSame
    <2>8. Even' BY <2>1, <2>2, <2>7 DEF Even, InSight, Quiet
    <2>9. RedeemOk'
      <3> SUFFICES ASSUME NEW p \in EarnPanels, Redeeming(p)'
                   PROVE  IF panel'[p].pc = "verifying" /\ Handled(panel[p].hash)'
                          THEN ledger' = held'.shares
                          ELSE /\ ledger' = panel'[p].before
                               /\ held'.shares = IF Burnt(p)'
                                    THEN panel'[p].before - panel'[p].key.amount
                                    ELSE panel'[p].before
        BY DEF RedeemOk, Quiet, Redeeming
      <3>1. Redeeming(p) /\ panel[p].pc \in Active BY <2>2 DEF Redeeming
      <3>2. /\ panel'[p].key = panel[p].key /\ panel'[p].before = panel[p].before
            /\ panel'[p].hash = panel[p].hash
            /\ panel'[p].pc = panel[p].pc \/ {panel[p].pc, panel'[p].pc} \subseteq {"checking", "prompt"}
        BY <3>1 DEF Quiet
      <3>3. panel[p].pc \in {"sent", "verifying"} =>
               /\ panel[p].hash \in Hashes /\ txs[panel[p].hash].key.kind # "claim"
        BY <3>1, EarnPanelsAre DEF EarnInv, Redeeming
      <3>4. Burnt(p)' <=> Burnt(p)
        BY <3>2, <3>3 DEF Burnt, Quiet
      <3>5. panel'[p].pc = "verifying" /\ Handled(panel[p].hash)'
              <=> panel[p].pc = "verifying" /\ Handled(panel[p].hash)
        BY <1>5, <3>2, <3>3
      <3>6. IF panel[p].pc = "verifying" /\ Handled(panel[p].hash)
            THEN ledger = held.shares
            ELSE /\ ledger = panel[p].before
                 /\ held.shares = IF Burnt(p) THEN panel[p].before - panel[p].key.amount
                                              ELSE panel[p].before
        BY <2>1, <3>1 DEF InSight, RedeemOk
      <3>7. ledger' = ledger /\ held'.shares = held.shares BY DEF Quiet
      <3> QED BY <3>2, <3>4, <3>5, <3>6, <3>7
    <2> QED BY <2>3, <2>4, <2>5, <2>8, <2>9 DEF InSight
  <1> QED BY <1>8, <1>9

\* What has been sent is a transaction of a tab.
LEMMA SentAre ==
    ASSUME Structure
    PROVE  /\ txs \in Seq(Tx) /\ Deposits \subseteq Hashes /\ Hashes = 1..Len(txs)
           /\ ledger \in Nat /\ held.shares \in Nat
           /\ \A h \in Hashes : /\ txs[h] \in Tx /\ txs[h].tab \in Tabs
                                /\ txs[h].key.amount \in Nat
           /\ \A h \in Hashes : h \in rt[txs[h].tab].handled \cup rt[txs[h].tab].completed
                                   => txs[h].status = "ok" /\ txs[h].age # "unseen"
           /\ \A t \in Tabs : \A h \in rt[t].handled \cup rt[t].completed :
                 h \in Hashes /\ txs[h].tab = t
  <1>1. txs \in Seq(Tx) /\ Hashes = 1..Len(txs) /\ ledger \in Nat /\ held.shares \in Nat
    BY DEF Structure, Types, Purse, Hashes
  <1>2. Deposits \subseteq Hashes BY DEF Deposits
  <1>3. ASSUME NEW h \in Hashes
        PROVE  txs[h] \in Tx /\ txs[h].tab \in Tabs /\ txs[h].key.amount \in Nat
    <2>1. txs[h] \in Tx BY <1>1
    <2>2. txs[h].tab \in Tabs BY <2>1 DEF Tx
    <2>3. txs[h].key.amount \in Nat BY <1>1, AmountIs
    <2> QED BY <2>1, <2>2, <2>3
  <1>4. ASSUME NEW t \in Tabs, NEW h \in rt[t].handled \cup rt[t].completed
        PROVE  /\ h \in Hashes /\ txs[h].tab = t
               /\ txs[h].status = "ok" /\ txs[h].age # "unseen"
    <2>1. MemoryFits(t, rt[t], txs) BY TabsAre
    <2> QED BY <2>1, <1>1 DEF MemoryFits
  <1> QED BY <1>1, <1>2, <1>3, <1>4

\* A press that may end without a trace: nothing was sent, or it came to
\* nothing, or its transaction has been written.
Over(p) ==
    \/ panel[p].pc \in {"checking", "prompt"}
    \/ panel[p].pc = "sent" /\ txs[panel[p].hash].status = "reverted"
    \/ panel[p].pc = "verifying" /\ Handled(panel[p].hash)

\* Some presses end, and the ledger is not touched.
Ends(S) ==
    /\ \A p \in S : panel'[p].pc = "idle"
    /\ \A p \in EarnPanels \ S : panel'[p] = panel[p]
    /\ UNCHANGED <<tabOf, held, ledger>> /\ Len(txs') = Len(txs)
    /\ \A h \in Hashes : /\ txs'[h].key = txs[h].key /\ txs'[h].tab = txs[h].tab
                         /\ txs'[h].status = txs[h].status
    /\ \A t \in Tabs : rt'[t].completed \subseteq rt[t].completed
    /\ \A t \in Tabs : \A h \in rt'[t].completed : h \in rt[t].handled => h \in rt'[t].handled
    /\ \A h \in Hashes : ByPanel(h)' => (Handled(h)' <=> Handled(h))
    /\ astray => astray'
    /\ ~astray' => \A p \in S : panel[p].pc \in Active => Over(p)

LEMMA EndsKeeps ==
    ASSUME EarnInv, Structure', NEW S \in SUBSET EarnPanels, Ends(S)
    PROVE  Backed' /\ (~astray' => InSight')
  <1>0. Structure /\ Backed /\ (~astray => InSight) BY DEF EarnInv
  <1>1. /\ txs \in Seq(Tx) /\ Deposits \subseteq Hashes /\ Hashes = 1..Len(txs)
        /\ ledger \in Nat /\ held.shares \in Nat
        /\ \A h \in Hashes : txs[h].tab \in Tabs
        /\ \A t \in Tabs : \A h \in rt[t].completed : h \in Hashes /\ txs[h].tab = t
    BY <1>0, SentAre
  <1>2. txs' \in Seq(Tx) /\ Hashes' = Hashes
    BY <1>1 DEF Ends, Structure, Types, Hashes
  <1>3. Deposits' = Deposits BY <1>1, <1>2 DEF Ends, Deposits
  <1>4. \A h : ByPanel(h)' => ByPanel(h)
    BY DEF Ends, ByPanel
  <1>5. \A h \in Hashes : AtHand(h)' => AtHand(h) /\ (Handled(h) => Handled(h)')
    <2> SUFFICES ASSUME NEW h \in Hashes, AtHand(h)'
                 PROVE  AtHand(h) /\ (Handled(h) => Handled(h)')
      OBVIOUS
    <2>1. txs[h].tab \in Tabs /\ txs'[h].tab = txs[h].tab BY <1>1 DEF Ends
    <2>2. CASE ByPanel(h)' BY <2>1, <2>2, <1>4 DEF Ends, AtHand
    <2>3. CASE h \in rt'[txs'[h].tab].completed
      BY <2>1, <2>3 DEF Ends, AtHand, Handled
    <2> QED BY <2>2, <2>3 DEF AtHand
  <1>6. Backed'
    <2> DEFINE D == {}
    <2>1. D \in SUBSET (Hashes \ Deposits) /\ Deposits' = Deposits \cup D BY <1>3
    <2> HIDE DEF D
    <2>2. /\ Len(txs) <= Len(txs') /\ ledger' \in Nat /\ ledger' <= ledger
          /\ \A h \in Hashes : txs'[h].key = txs[h].key
      BY <1>1 DEF Ends
    <2>3. \A h \in Deposits : AtHand(h)' => AtHand(h) /\ (Handled(h) => Handled(h)')
      BY <1>1, <1>5
    <2> QED BY <1>0, <1>2, <2>1, <2>2, <2>3, BackedStays
  <1>7. ASSUME ~astray' PROVE InSight'
    <2>1. InSight /\ \A p \in S : panel[p].pc \in Active => Over(p)
      BY <1>0, <1>7 DEF Ends
    <2>2. \A p \in EarnPanels : panel'[p].pc \in Active =>
             p \notin S /\ panel'[p] = panel[p] /\ panel[p].pc \in Active
      BY DEF Ends, Active, Submitting
    <2>3. \A p \in EarnPanels : Redeeming(p)' => Redeeming(p) /\ panel'[p] = panel[p]
      BY <2>2 DEF Redeeming
    <2>4. RedeemAlone' BY <2>1, <2>2, <2>3 DEF RedeemAlone, InSight
    <2>5. SentIsSeen'
      BY <2>1, <1>2 DEF SentIsSeen, InSight, Ends, Active, Submitting, Over
    <2>6. DoneIsHandled'
      <3> SUFFICES ASSUME NEW t \in Tabs, NEW h \in rt'[t].completed,
                          txs'[h].key.kind # "claim"
                   PROVE  h \in rt'[t].handled
                          \/ \E p \in EarnPanels : panel'[p].pc = "verifying" /\ panel'[p].hash = h
        BY DEF DoneIsHandled
      <3>1. h \in rt[t].completed /\ h \in Hashes /\ txs[h].tab = t BY <1>1 DEF Ends
      <3>2. txs[h].key.kind # "claim" BY <3>1 DEF Ends
      <3>3. h \in rt[t].handled => h \in rt'[t].handled BY DEF Ends
      <3>4. CASE h \in rt[t].handled BY <3>3, <3>4
      <3>5. ASSUME NEW p \in EarnPanels, panel[p].pc = "verifying", panel[p].hash = h
            PROVE  h \in rt'[t].handled
                   \/ \E q \in EarnPanels : panel'[q].pc = "verifying" /\ panel'[q].hash = h
        <4>1. CASE p \in S
          <5>1. Handled(h) BY <2>1, <3>5, <4>1 DEF Over, Active
          <5> QED BY <3>1, <3>3, <5>1 DEF Handled
        <4>2. CASE p \notin S BY <3>5, <4>2 DEF Ends
        <4> QED BY <4>1, <4>2
      <3> QED BY <2>1, <3>1, <3>2, <3>4, <3>5 DEF InSight, DoneIsHandled
    <2>7. ASSUME \A p \in EarnPanels : ~Redeeming(p)
          PROVE  Written' = Written
      <3>1. ASSUME NEW h \in Deposits PROVE h \in Written' <=> h \in Written
        <4>1. h \in Hashes BY <1>1
        <4>2. CASE ByPanel(h)'
          <5>1. ByPanel(h) /\ (Handled(h)' <=> Handled(h)) BY <4>1, <4>2, <1>4 DEF Ends
          <5> QED BY <5>1, <4>2, <1>3 DEF Written
        <4>3. CASE ~ByPanel(h)' /\ ByPanel(h)
          <5>1. PICK p \in EarnPanels : panel[p].pc \in {"sent", "verifying"} /\ panel[p].hash = h
            BY <4>3 DEF ByPanel
          <5>2. p \in S BY <5>1, <4>3 DEF ByPanel, Ends
          <5>3. Over(p) BY <5>1, <5>2, <2>1 DEF Active, Submitting
          <5>4. txs[h].status = "ok" BY DEF Deposits
          <5>5. Handled(h) BY <5>1, <5>3, <5>4 DEF Over
          <5> QED BY <5>5, <4>3 DEF Written
        <4>4. CASE ~ByPanel(h)' /\ ~ByPanel(h) BY <4>4 DEF Written
        <4> QED BY <4>2, <4>3, <4>4
      <3> QED BY <3>1, <1>3 DEF Written
    <2>8. Even'
      <3> SUFFICES ASSUME \A p \in EarnPanels : ~Redeeming(p)'
                   PROVE  held'.shares = ledger' + Cardinality(TokensOf(txs', Written'))
        BY DEF Even
      <3>1. held'.shares = held.shares /\ ledger' = ledger BY DEF Ends
      <3>2. CASE \A p \in EarnPanels : ~Redeeming(p)
        <4>1. held.shares = ledger + Cardinality(TokensOf(txs, Written))
          BY <2>1, <3>2 DEF InSight, Even
        <4>2. \A h \in Written : txs'[h].key = txs[h].key
          BY <1>1 DEF Written, Ends
        <4>3. TokensOf(txs', Written) = TokensOf(txs, Written) BY <4>2, TokensSame
        <4> QED BY <3>1, <3>2, <4>1, <4>3, <2>7
      <3>3. CASE \E p \in EarnPanels : Redeeming(p)
        <4>1. PICK p \in EarnPanels : Redeeming(p) BY <3>3
        <4>2. p \in S /\ panel[p].pc \in Active
          <5>1. ~Redeeming(p)' OBVIOUS
          <5> QED BY <4>1, <5>1 DEF Ends, Redeeming
        <4>3. Over(p) BY <4>2, <2>1
        <4>4. \A q \in EarnPanels : panel'[q].pc \notin Active
          BY <2>1, <2>2, <4>1, <4>2 DEF InSight, RedeemAlone
        <4>5. Written' = {} BY <4>4 DEF Written, ByPanel, Active, Submitting
        <4>6. ledger = held.shares
          <5>1. IF panel[p].pc = "verifying" /\ Handled(panel[p].hash)
                THEN ledger = held.shares
                ELSE /\ ledger = panel[p].before
                     /\ held.shares = IF Burnt(p) THEN panel[p].before - panel[p].key.amount
                                                  ELSE panel[p].before
            BY <2>1, <4>1 DEF InSight, RedeemOk
          <5> QED BY <5>1, <4>3 DEF Over, Burnt
        <4>7. Cardinality(TokensOf(txs', Written')) = 0
          BY <4>5, FS_EmptySet DEF TokensOf
        <4> QED BY <3>1, <4>6, <4>7, <1>1
      <3> QED BY <3>2, <3>3
    <2>9. RedeemOk'
      <3> SUFFICES ASSUME NEW p \in EarnPanels, Redeeming(p)'
                   PROVE  IF panel'[p].pc = "verifying" /\ Handled(panel[p].hash)'
                          THEN ledger' = held'.shares
                          ELSE /\ ledger' = panel'[p].before
                               /\ held'.shares = IF Burnt(p)'
                                    THEN panel'[p].before - panel'[p].key.amount
                                    ELSE panel'[p].before
        BY <2>3 DEF RedeemOk
      <3>1. Redeeming(p) /\ panel'[p] = panel[p] BY <2>3
      <3>3. panel[p].pc \in {"sent", "verifying"} => panel[p].hash \in Hashes
        BY <1>0, EarnPanelsAre
      <3>4. Burnt(p)' <=> Burnt(p) BY <3>1, <3>3 DEF Burnt, Ends
      <3>5. panel[p].pc = "verifying" => (Handled(panel[p].hash)' <=> Handled(panel[p].hash))
        <4> SUFFICES ASSUME panel[p].pc = "verifying"
                     PROVE  Handled(panel[p].hash)' <=> Handled(panel[p].hash)
          OBVIOUS
        <4> DEFINE h == panel[p].hash
        <4>1. h \in Hashes /\ txs[h].tab \in Tabs BY <3>3, <1>1
        <4>2. panel'[p].pc = "verifying" /\ panel'[p].hash = h BY <3>1
        <4> HIDE DEF h
        <4>3. h \in rt'[txs'[h].tab].handled <=> h \in rt[txs[h].tab].handled
          BY <4>1, <4>2 DEF Ends, ByPanel, Handled
        <4> QED BY <3>1, <4>3 DEF h, Handled
      <3>6. IF panel[p].pc = "verifying" /\ Handled(panel[p].hash)
            THEN ledger = held.shares
            ELSE /\ ledger = panel[p].before
                 /\ held.shares = IF Burnt(p) THEN panel[p].before - panel[p].key.amount
                                              ELSE panel[p].before
        BY <2>1, <3>1 DEF InSight, RedeemOk
      <3>7. ledger' = ledger /\ held'.shares = held.shares BY DEF Ends
      <3> QED BY <3>1, <3>4, <3>5, <3>6, <3>7
    <2> QED BY <2>4, <2>5, <2>6, <2>8, <2>9 DEF InSight
  <1> QED BY <1>6, <1>7

\* The memory of the tabs is as it was.
Remembers == \A u \in Tabs : rt'[u].completed = rt[u].completed /\ rt'[u].handled = rt[u].handled

LEMMA MemoryStays ==
    ASSUME Structure, NEW t \in Tabs, NEW r, rt' = [rt EXCEPT ![t] = r],
           r.completed = rt[t].completed, r.handled = rt[t].handled
    PROVE  Remembers
  BY DEF Structure, Types, Remembers

\* The presses of Earn panels among S end, where nothing else happens.
LEMMA PressesEnd ==
    ASSUME EarnInv, Structure', NEW S \in SUBSET EarnPanels,
           \A p \in S : panel'[p].pc = "idle",
           \A p \in EarnPanels \ S : panel'[p] = panel[p],
           UNCHANGED <<Wallet, ledger>>, Remembers, astray => astray',
           ~astray' => \A p \in S : panel[p].pc \in Active => Over(p)
    PROVE  Backed' /\ (~astray' => InSight')
  <1>1. \A h \in Hashes : txs[h].tab \in Tabs BY SentAre DEF EarnInv
  <1>2. \A h \in Hashes : Handled(h)' <=> Handled(h)
    BY <1>1 DEF Handled, Remembers, Wallet
  <1>3. Ends(S) BY <1>2 DEF Ends, Wallet, Remembers
  <1> QED BY <1>3, EndsKeeps

LEMMA EndKeeps ==
    ASSUME EarnInv, Structure', NEW p \in Panels, tabOf[p] \in Tabs,
           NEW view \in View, panel' = [panel EXCEPT ![p] = Ended(view)],
           rt' = [rt EXCEPT ![tabOf[p]] = Release(tabOf[p], {p})],
           UNCHANGED <<Wallet, ledger>>, astray => astray',
           ~astray' /\ p \in EarnPanels /\ panel[p].pc \in Active => Over(p)
    PROVE  Backed' /\ (~astray' => InSight')
  <1> DEFINE S == {q \in EarnPanels : q = p}
             r == Release(tabOf[p], {p})
  <1>1. Structure /\ EarnPanels \subseteq Panels BY DEF EarnInv, Panels
  <1>2. r.completed = rt[tabOf[p]].completed /\ r.handled = rt[tabOf[p]].handled
    BY <1>1, ReleaseFits DEF Structure
  <1>3. rt' = [rt EXCEPT ![tabOf[p]] = r] OBVIOUS
  <1> HIDE DEF r
  <1>4. Remembers BY <1>1, <1>2, <1>3, MemoryStays
  <1>5. /\ \A q \in S : panel'[q].pc = "idle"
        /\ \A q \in EarnPanels \ S : panel'[q] = panel[q]
    BY <1>1, EndedFits DEF Structure, Types
  <1>6. ~astray' => \A q \in S : panel[q].pc \in Active => Over(q)
    OBVIOUS
  <1>7. S \in SUBSET EarnPanels OBVIOUS
  <1> HIDE DEF S
  <1> QED BY <1>4, <1>5, <1>6, <1>7, PressesEnd

LEMMA RejectKeeps ==
    ASSUME EarnInv, Structure', NEW p \in Panels, panel[p].pc \in Submitting, Reject(p),
           UNCHANGED <<Wallet, ledger>>, astray => astray',
           ~astray' /\ p \in EarnPanels /\ panel[p].pc = "sent" =>
               txs[panel[p].hash].status = "reverted"
    PROVE  Backed' /\ (~astray' => InSight')
  <1> DEFINE S == {q \in EarnPanels : q = p}
             t == tabOf[p]
             r == [Release(t, Waiting(p)) EXCEPT !.inFlight = Nobody]
  <1>1. Structure /\ EarnPanels \subseteq Panels /\ EarnPanels \cap ClaimViews = {}
    BY EarnAssumption DEF EarnInv, Panels
  <1>2. /\ t \in Tabs /\ p \in Waiting(p)
        /\ \A q \in Waiting(p) : q # p => q \in ClaimViews
    BY <1>1, WaitingAre
  <1>3. /\ panel' = [q \in Panels |-> IF q \in Waiting(p) THEN Ended(panel[q]) ELSE panel[q]]
        /\ rt' = [rt EXCEPT ![t] = r]
    BY DEF Reject
  <1>4. r.completed = rt[t].completed /\ r.handled = rt[t].handled
    <2>1. /\ Release(t, Waiting(p)) \in Tab
          /\ Release(t, Waiting(p)).completed = rt[t].completed
          /\ Release(t, Waiting(p)).handled = rt[t].handled
      BY <1>1, <1>2, ReleaseFits DEF Structure
    <2> QED BY <2>1 DEF Tab
  <1> HIDE DEF r
  <1>5. Remembers BY <1>1, <1>2, <1>3, <1>4, MemoryStays
  <1>6. \A q \in Panels : panel[q] \in View BY <1>1 DEF Structure, Types
  <1>7. /\ \A q \in S : panel'[q].pc = "idle"
        /\ \A q \in EarnPanels \ S : panel'[q] = panel[q]
    BY <1>1, <1>2, <1>3, <1>6, EndedFits
  <1>8. ~astray' => \A q \in S : panel[q].pc \in Active => Over(q)
    BY DEF Over, Submitting
  <1>9. S \in SUBSET EarnPanels OBVIOUS
  <1> HIDE DEF S
  <1> QED BY <1>5, <1>7, <1>8, <1>9, PressesEnd

LEMMA ReloadKeeps ==
    ASSUME EarnInv, Structure', NEW t \in Tabs, Reload(t)
    PROVE  Backed' /\ (~astray' => InSight')
  <1> DEFINE S == {q \in EarnPanels : tabOf[q] = t}
  <1>1. Structure /\ EarnPanels \subseteq Panels BY DEF EarnInv, Panels
  <1>2. /\ Len(txs') = Len(txs)
        /\ \A h \in Hashes : /\ txs'[h].key = txs[h].key /\ txs'[h].tab = txs[h].tab
                             /\ txs'[h].status = txs[h].status
        /\ \A u \in Tabs \ {t} : rt'[u] = rt[u]
        /\ rt'[t].completed = {} /\ rt'[t].handled = {}
        /\ \A p \in Panels : tabOf[p] = t => panel'[p].pc = "idle"
        /\ \A p \in Panels : tabOf[p] # t => panel'[p] = panel[p]
        /\ UNCHANGED <<tabOf, held, claimed, ledger>>
    BY <1>1, ReloadIs DEF Structure
  <1>3. /\ astray => astray'
        /\ ~astray' => \A q \in S : panel[q].pc \notin {"sent", "verifying"}
    BY <1>1 DEF Reload
  <1>4. \A h \in Hashes : txs[h].tab \in Tabs BY <1>1, SentAre
  <1>7. /\ \A q \in S : panel'[q].pc = "idle"
        /\ \A q \in EarnPanels \ S : panel'[q] = panel[q]
    BY <1>1, <1>2
  <1>8. ASSUME NEW h \in Hashes, ByPanel(h)' PROVE Handled(h)' <=> Handled(h)
    <2>1. PICK q \in EarnPanels : panel'[q].pc \in {"sent", "verifying"} /\ panel'[q].hash = h
      BY <1>8 DEF ByPanel
    <2>2. q \notin S /\ panel'[q] = panel[q] BY <2>1, <1>7
    <2>3. txs[h].tab = tabOf[q] BY <1>1, <2>1, <2>2, EarnPanelsAre
    <2>4. txs[h].tab \in Tabs \ {t} /\ txs'[h].tab = txs[h].tab BY <2>2, <2>3, <1>2, <1>4
    <2> QED BY <2>4, <1>2 DEF Handled
  <1>9. ~astray' => \A q \in S : panel[q].pc \in Active => Over(q)
    BY <1>3 DEF Over, Active, Submitting
  <1> HIDE DEF S
  <1>10. Ends(S) BY <1>2, <1>3, <1>7, <1>8, <1>9 DEF Ends
  <1>11. S \in SUBSET EarnPanels BY DEF S
  <1> QED BY <1>10, <1>11, EndsKeeps

\* One panel moves on that has nothing to do with the position, has not come to
\* a submission, or is asking Ready.
LEMMA PanelMoves ==
    ASSUME EarnInv, Structure', NEW p \in Panels, NEW view,
           panel' = [panel EXCEPT ![p] = view], UNCHANGED <<Wallet, ledger>>,
           astray => astray',
           \A t \in Tabs : /\ rt'[t].handled = rt[t].handled
                           /\ rt'[t].completed \subseteq rt[t].completed,
           \/ p \notin EarnPanels
           \/ panel[p].pc \notin Active /\ view.pc \notin Active
           \/ /\ {panel[p].pc, view.pc} \subseteq {"checking", "prompt"}
              /\ view.key = panel[p].key /\ view.before = panel[p].before
              /\ view.hash = panel[p].hash
    PROVE  Backed' /\ (~astray' => InSight')
  <1>1. txs \in Seq(Tx) /\ EarnPanels \subseteq Panels
    BY DEF EarnInv, Structure, Types, Panels
  <1>2. panel'[p] = view /\ \A q \in Panels \ {p} : panel'[q] = panel[q]
    BY DEF EarnInv, Structure, Types
  <1>3. \A q \in EarnPanels : panel[q].pc \in Active \/ panel'[q].pc \in Active =>
          /\ panel'[q].key = panel[q].key /\ panel'[q].before = panel[q].before
          /\ panel'[q].pc = panel[q].pc \/ {panel[q].pc, panel'[q].pc} \subseteq {"checking", "prompt"}
          /\ panel'[q].hash = panel[q].hash
    <2> SUFFICES ASSUME NEW q \in EarnPanels, panel[q].pc \in Active \/ panel'[q].pc \in Active
                 PROVE  /\ panel'[q].key = panel[q].key /\ panel'[q].before = panel[q].before
                        /\ panel'[q].pc = panel[q].pc
                           \/ {panel[q].pc, panel'[q].pc} \subseteq {"checking", "prompt"}
                        /\ panel'[q].hash = panel[q].hash
      OBVIOUS
    <2>1. CASE q = p BY <2>1, <1>2
    <2>2. CASE q # p BY <2>2, <1>1, <1>2
    <2> QED BY <2>1, <2>2
  <1>4. Hashes' = Hashes BY DEF Hashes, Wallet
  <1>5. \A t \in Tabs : /\ rt'[t].handled = rt[t].handled
                        /\ \A h \in rt'[t].completed :
                             h \in rt[t].completed \/ txs'[h].key.kind = "claim"
    OBVIOUS
  <1>6. Quiet BY <1>1, <1>3, <1>4, <1>5 DEF Quiet, Wallet, Hashes
  <1> QED BY <1>6, QuietKeeps

LEMMA StartKeeps ==
    ASSUME EarnInv, Structure', NEW p \in Panels,
           Reveal(p) \/ Deposit(p) \/ Withdraw(p) \/ Claim(p)
    PROVE  Backed' /\ (~astray' => InSight')
  <1>1. PICK view : panel' = [panel EXCEPT ![p] = view] /\ view.pc \in {"revealing", "connecting"}
    <2>1. panel[p] \in View BY PanelsAre DEF EarnInv
    <2>2. ASSUME NEW kind, NEW amount, Press(p, kind, amount)
          PROVE  \E view : panel' = [panel EXCEPT ![p] = view] /\ view.pc = "connecting"
      <3> DEFINE view == [panel[p] EXCEPT !.pc = "connecting",
                                          !.key = [kind |-> kind, amount |-> amount]]
      <3>1. view.pc = "connecting" BY <2>1 DEF View
      <3>2. panel' = [panel EXCEPT ![p] = view] BY <2>2 DEF Press
      <3> HIDE DEF view
      <3> QED BY <3>1, <3>2
    <2>3. CASE Reveal(p)
      <3> DEFINE view == [panel[p] EXCEPT !.pc = "revealing"]
      <3>1. view.pc = "revealing" BY <2>1 DEF View
      <3>2. panel' = [panel EXCEPT ![p] = view] BY <2>3 DEF Reveal, Go
      <3> HIDE DEF view
      <3> QED BY <3>1, <3>2
    <2>4. CASE Deposit(p) BY <2>4, <2>2 DEF Deposit
    <2>5. CASE Withdraw(p) BY <2>5, <2>2 DEF Withdraw
    <2>6. CASE Claim(p) BY <2>6, <2>2 DEF Claim
    <2> QED BY <2>3, <2>4, <2>5, <2>6
  <1>2. /\ panel[p].pc = "idle" /\ UNCHANGED <<Wallet, ledger>> /\ astray' = astray
        /\ \/ rt' = rt
           \/ tabOf[p] \in Tabs /\ rt' = [rt EXCEPT ![tabOf[p]].gate = TRUE]
    <2>1. tabOf[p] \in Tabs \cup {Nobody} BY PanelsAre DEF EarnInv
    <2> QED BY <2>1 DEF Reveal, Deposit, Withdraw, Claim, TakeGate, At
  <1>3. \A t \in Tabs : /\ rt'[t].handled = rt[t].handled
                        /\ rt'[t].completed = rt[t].completed
    <2>1. CASE rt' = rt BY <2>1
    <2>2. CASE tabOf[p] \in Tabs /\ rt' = [rt EXCEPT ![tabOf[p]].gate = TRUE]
      <3> DEFINE r == [rt[tabOf[p]] EXCEPT !.gate = TRUE]
      <3>1. r.handled = rt[tabOf[p]].handled /\ r.completed = rt[tabOf[p]].completed
        BY <2>2, GateTaken DEF EarnInv, Structure
      <3>2. rt' = [rt EXCEPT ![tabOf[p]] = r] BY <2>2
      <3> HIDE DEF r
      <3> QED BY <2>2, <3>1, <3>2, MemoryStays DEF EarnInv, Remembers
    <2> QED BY <1>2, <2>1, <2>2
  <1>4. panel[p].pc \notin Active /\ view.pc \notin Active
    BY <1>1, <1>2 DEF Active, Submitting
  <1> QED BY <1>1, <1>2, <1>3, <1>4, PanelMoves

LEMMA CheckRuntimeKeeps ==
    ASSUME EarnInv, Structure', NEW p \in Panels, CheckRuntime(p) \/ Decline(p)
    PROVE  Backed' /\ (~astray' => InSight')
  <1>1. panel[p] \in View /\ panel[p].pc \in {"checking", "prompt"} /\ panel[p].pc \in Submitting
    BY PanelsAre DEF EarnInv, CheckRuntime, Decline, At, Submitting
  <1>2. UNCHANGED <<Wallet, ledger>> /\ astray' = astray BY DEF CheckRuntime, Decline
  <1>3. CASE Reject(p)
    <2>1. panel[p].pc # "sent" BY <1>1
    <2> QED BY <1>1, <1>2, <1>3, <2>1, RejectKeeps
  <1>4. CASE Go(p, "prompt") /\ UNCHANGED rt
    <2> DEFINE view == [panel[p] EXCEPT !.pc = "prompt"]
    <2>1. panel' = [panel EXCEPT ![p] = view] BY <1>4 DEF Go
    <2>2. /\ {panel[p].pc, view.pc} \subseteq {"checking", "prompt"}
          /\ view.key = panel[p].key /\ view.before = panel[p].before
          /\ view.hash = panel[p].hash
      BY <1>1 DEF View
    <2>3. \A t \in Tabs : /\ rt'[t].handled = rt[t].handled
                          /\ rt'[t].completed \subseteq rt[t].completed
      BY <1>4
    <2> HIDE DEF view
    <2> QED BY <1>2, <2>1, <2>2, <2>3, PanelMoves
  <1> QED BY <1>3, <1>4 DEF CheckRuntime, Decline

\* Refused, Revealed and what ends a verification without writing.
LEMMA RefusedKeeps ==
    ASSUME EarnInv, Structure', NEW p \in Panels, End(p), panel[p].pc # "idle",
           UNCHANGED <<Wallet, ledger>>, astray => astray',
           ~astray' /\ p \in EarnPanels /\ panel[p].pc \in Active => Over(p)
    PROVE  Backed' /\ (~astray' => InSight')
  <1>1. panel[p] \in View /\ tabOf[p] \in Tabs BY PanelsAre DEF EarnInv
  <1>2. /\ panel' = [panel EXCEPT ![p] = Ended(panel[p])]
        /\ rt' = [rt EXCEPT ![tabOf[p]] = Release(tabOf[p], {p})]
    BY DEF End
  <1> QED BY <1>1, <1>2, EndKeeps

LEMMA RevealedKeeps ==
    ASSUME EarnInv, Structure', NEW p \in Panels, Revealed(p)
    PROVE  Backed' /\ (~astray' => InSight')
  <1>1. panel[p] \in View /\ panel[p].pc = "revealing" /\ tabOf[p] \in Tabs
    BY PanelsAre DEF EarnInv, Revealed, At
  <1>2. held.usdc \in Nat /\ held.shares \in Nat BY DEF EarnInv, Structure, Types, Purse
  <1>3. PICK view \in {panel[p], [panel[p] EXCEPT !.usdc = held.usdc],
                       [panel[p] EXCEPT !.shares = held.shares]} :
           panel' = [panel EXCEPT ![p] = Ended(view)]
    BY DEF Revealed
  <1>4. view \in View BY <1>1, <1>2 DEF View
  <1>5. /\ rt' = [rt EXCEPT ![tabOf[p]] = Release(tabOf[p], {p})]
        /\ UNCHANGED <<Wallet, ledger>> /\ astray' = astray
    BY DEF Revealed
  <1>6. panel[p].pc \notin Active BY <1>1 DEF Active, Submitting
  <1> QED BY <1>1, <1>3, <1>4, <1>5, <1>6, EndKeeps

\* The chain and the clock, of a claim or of nothing.
LEMMA ChainKeeps ==
    ASSUME EarnInv, Structure', UNCHANGED <<tabOf, ledger, rt, panel, astray>>,
           held'.shares = held.shares, txs' \in Seq(Tx), Len(txs') = Len(txs),
           \A h \in Hashes : /\ txs'[h].key = txs[h].key /\ txs'[h].tab = txs[h].tab
                             /\ txs[h].key.kind # "claim" => txs'[h].status = txs[h].status
    PROVE  Backed' /\ (~astray' => InSight')
  <1>1. txs \in Seq(Tx) /\ Hashes = 1..Len(txs') BY DEF EarnInv, Structure, Types, Hashes
  <1>2. Len(txs) <= Len(txs') BY <1>1
  <1>3. Quiet BY <1>1, <1>2 DEF Quiet
  <1> QED BY <1>3, QuietKeeps

LEMMA EarnEnters ==
    ASSUME EarnInv, Structure', NEW p \in EarnPanels, panel[p].pc = "connecting",
           NEW key \in Keys, NEW before \in Nat, key.kind = panel[p].key.kind,
           key.kind = "redeem" => before = held.shares,
           NEW view \in View, NEW r \in Tab,
           panel' = [panel EXCEPT ![p] = view], rt' = [rt EXCEPT ![tabOf[p]] = r],
           Entered(p, key, before, view, r),
           UNCHANGED <<Wallet, ledger>>, astray => astray', ~astray' => ~Overlaps(p)
    PROVE  Backed' /\ (~astray' => InSight')
  <1> DEFINE t == tabOf[p]
  <1>1. Structure /\ Backed /\ (~astray => InSight) /\ p \in Panels /\ EarnPanels \subseteq Panels
    BY DEF EarnInv, Panels
  <1>2. t \in Tabs BY <1>1, PanelsAre
  <1>3. panel'[p] = view /\ \A q \in Panels \ {p} : panel'[q] = panel[q]
    BY <1>1 DEF Structure, Types
  <1>4. r.completed = Recent(t) /\ r.handled = rt[t].handled BY DEF Entered
  <1>5. Recent(t) \subseteq rt[t].completed BY <1>1, <1>2, <1>4, SweptMemory
  <1>6. \A u \in Tabs : /\ rt'[u].handled = rt[u].handled
                        /\ rt'[u].completed \subseteq rt[u].completed
    BY <1>1, <1>2, <1>4, <1>5 DEF Structure, Types
  <1>7. /\ txs \in Seq(Tx) /\ Deposits \subseteq Hashes /\ Hashes = 1..Len(txs)
        /\ ledger \in Nat /\ held.shares \in Nat
        /\ \A h \in Hashes : txs[h].tab \in Tabs
        /\ \A u \in Tabs : \A h \in rt[u].completed : h \in Hashes /\ txs[h].tab = u
    BY <1>1, SentAre
  <1>8. CASE view.pc \notin Active
    <2>1. panel[p].pc \notin Active BY DEF Active, Submitting
    <2> QED BY <1>1, <1>6, <1>8, <2>1, PanelMoves
  <1>9. CASE view.pc \in Active
    <2>1. /\ view.key = key /\ view.before = before
          /\ \/ view.pc = "checking"
             \/ /\ view.pc = "verifying" /\ view.hash \in Recent(t)
                /\ txs[view.hash].key = key
      BY <1>9, EndedFits DEF Entered, Active, Submitting, Ended, View
    <2>2. \A h \in Hashes : Handled(h)' <=> Handled(h)
      BY <1>6, <1>7 DEF Handled, Wallet
    <2>3. ASSUME NEW h, ByPanel(h)'
          PROVE  ByPanel(h) \/ (/\ h = view.hash /\ view.pc = "verifying"
                                /\ h \in rt[t].completed)
      <3>1. PICK q \in EarnPanels : panel'[q].pc \in {"sent", "verifying"} /\ panel'[q].hash = h
        BY <2>3 DEF ByPanel
      <3>2. CASE q = p BY <3>1, <3>2, <1>3, <1>5, <2>1
      <3>3. CASE q # p
        <4>1. panel'[q] = panel[q] BY <3>3, <1>1, <1>3
        <4> QED BY <3>1, <4>1 DEF ByPanel
      <3> QED BY <3>2, <3>3
    <2>4. ASSUME NEW h, ByPanel(h) PROVE ByPanel(h)'
      <3>1. PICK q \in EarnPanels : panel[q].pc \in {"sent", "verifying"} /\ panel[q].hash = h
        BY <2>4 DEF ByPanel
      <3>2. q # p BY <3>1
      <3>3. panel'[q] = panel[q] BY <3>2, <1>1, <1>3
      <3> QED BY <3>1, <3>3 DEF ByPanel
    <2>5. Hashes' = Hashes /\ Deposits' = Deposits /\ txs' = txs /\ held' = held
      BY DEF Wallet, Hashes, Deposits
    <2>6. Backed'
      <3> DEFINE D == {}
      <3>1. D \in SUBSET (Hashes \ Deposits) /\ Deposits' = Deposits \cup D BY <2>5
      <3> HIDE DEF D
      <3>2. ASSUME NEW h \in Deposits, AtHand(h)' PROVE AtHand(h) /\ (Handled(h) => Handled(h)')
        <4>1. h \in Hashes /\ txs[h].tab \in Tabs /\ txs'[h].tab = txs[h].tab BY <1>7, <2>5
        <4>2. CASE ByPanel(h)'
          <5>1. ByPanel(h) \/ h \in rt[t].completed BY <2>3, <4>2
          <5> QED BY <1>2, <1>7, <2>2, <4>1, <5>1 DEF AtHand
        <4>3. CASE h \in rt'[txs'[h].tab].completed
          BY <1>6, <2>2, <4>1, <4>3 DEF AtHand
        <4> QED BY <3>2, <4>2, <4>3 DEF AtHand
      <3>3. /\ Len(txs) <= Len(txs') /\ ledger' \in Nat /\ ledger' <= ledger
            /\ \A h \in Hashes : txs'[h].key = txs[h].key /\ txs' \in Seq(Tx)
        BY <1>7, <2>5
      <3>4. \A h \in Deposits : AtHand(h)' => AtHand(h) /\ (Handled(h) => Handled(h)')
        BY <3>2
      <3> QED BY <1>1, <1>7, <2>5, <3>1, <3>3, <3>4, BackedStays
    <2>7. ASSUME ~astray' PROVE InSight'
      <3>1. InSight /\ ~Overlaps(p) BY <1>1, <2>7
      <3>2. \A q \in EarnPanels \ {p} : panel[q].pc \in Active =>
                key.kind # "redeem" /\ panel[q].key.kind # "redeem"
        BY <3>1 DEF Overlaps, Active, Submitting
      <3>3. \A q \in EarnPanels \ {p} : panel'[q] = panel[q] BY <1>1, <1>3
      <3>4. panel[p].pc \notin Active /\ ~Redeeming(p) BY DEF Active, Submitting, Redeeming
      <3>5. \A q \in EarnPanels : ~Redeeming(q) BY <3>2, <3>4 DEF Redeeming
      <3>6. \A q \in EarnPanels : Redeeming(q)' =>
                q = p /\ key.kind = "redeem" /\ \A u \in EarnPanels \ {p} : panel[u].pc \notin Active
        BY <1>3, <2>1, <3>2, <3>3 DEF Redeeming
      <3>7. RedeemAlone' BY <3>3, <3>6 DEF RedeemAlone
      <3>8. SentIsSeen'
        <4> SUFFICES ASSUME NEW h \in Hashes, txs[h].status = "sent", txs[h].key.kind # "claim"
                     PROVE  \E q \in EarnPanels : panel'[q].pc = "sent" /\ panel'[q].hash = h
          BY <2>5 DEF SentIsSeen
        <4>1. PICK q \in EarnPanels : panel[q].pc = "sent" /\ panel[q].hash = h
          BY <3>1 DEF InSight, SentIsSeen
        <4>2. q # p BY <4>1
        <4> QED BY <3>3, <4>1, <4>2
      <3>9. DoneIsHandled'
        <4> SUFFICES ASSUME NEW u \in Tabs, NEW h \in rt'[u].completed,
                            txs[h].key.kind # "claim"
                     PROVE  h \in rt'[u].handled
                            \/ \E q \in EarnPanels : panel'[q].pc = "verifying" /\ panel'[q].hash = h
          BY <2>5 DEF DoneIsHandled
        <4>1. h \in rt[u].completed /\ rt'[u].handled = rt[u].handled BY <1>6
        <4>2. h \in rt[u].handled
              \/ \E q \in EarnPanels : panel[q].pc = "verifying" /\ panel[q].hash = h
          BY <3>1, <4>1 DEF InSight, DoneIsHandled
        <4>3. ASSUME NEW q \in EarnPanels, panel[q].pc = "verifying", panel[q].hash = h
              PROVE  panel'[q].pc = "verifying" /\ panel'[q].hash = h
          <5>1. q # p BY <4>3
          <5> QED BY <3>3, <4>3, <5>1
        <4> QED BY <4>1, <4>2, <4>3
      <3>10. view.pc = "verifying" =>
                Handled(view.hash) \/ \E q \in EarnPanels \ {p} :
                                         panel[q].pc = "verifying" /\ panel[q].hash = view.hash
        <4> SUFFICES ASSUME view.pc = "verifying"
                     PROVE  Handled(view.hash) \/ \E q \in EarnPanels \ {p} :
                                  panel[q].pc = "verifying" /\ panel[q].hash = view.hash
          OBVIOUS
        <4>1. /\ view.hash \in rt[t].completed /\ txs[view.hash].key = key
              /\ txs[view.hash].tab = t
          BY <1>2, <1>5, <1>7, <2>1
        <4>2. key.kind # "claim"
          BY <1>1, <1>2, PanelsAre DEF PressFits
        <4>3. view.hash \in rt[t].handled
              \/ \E q \in EarnPanels : panel[q].pc = "verifying" /\ panel[q].hash = view.hash
          BY <1>2, <3>1, <4>1, <4>2 DEF InSight, DoneIsHandled
        <4> QED BY <4>1, <4>3 DEF Handled
      <3>11. Written' = Written
        <4>1. ASSUME NEW h \in Deposits PROVE h \in Written' <=> h \in Written
          <5>1. h \in Hashes BY <1>7
          <5>2. Handled(h)' <=> Handled(h) BY <2>2, <5>1
          <5>3. ASSUME ByPanel(h)', ~Handled(h) PROVE ByPanel(h)
            BY <2>3, <3>10, <5>3 DEF ByPanel
          <5> QED BY <2>4, <2>5, <5>2, <5>3 DEF Written
        <4> QED BY <2>5, <4>1 DEF Written
      <3>12. held.shares = ledger + Cardinality(TokensOf(txs, Written))
        BY <3>1, <3>5 DEF InSight, Even
      <3>13. Even' BY <2>5, <3>11, <3>12 DEF Even
      <3>14. RedeemOk'
        <4> SUFFICES ASSUME NEW q \in EarnPanels, Redeeming(q)'
                     PROVE  IF panel'[q].pc = "verifying" /\ Handled(panel[q].hash)'
                            THEN ledger' = held'.shares
                            ELSE /\ ledger' = panel'[q].before
                                 /\ held'.shares = IF Burnt(q)'
                                      THEN panel'[q].before - panel'[q].key.amount
                                      ELSE panel'[q].before
          BY DEF RedeemOk
        <4>1. q = p /\ key.kind = "redeem" /\ \A u \in EarnPanels \ {p} : panel[u].pc \notin Active
          BY <3>6
        <4>2. Written = {}
          <5>1. \A u \in EarnPanels : panel[u].pc \notin Active BY <3>4, <4>1
          <5> QED BY <5>1 DEF Written, ByPanel, Active, Submitting
        <4>3. Cardinality(TokensOf(txs, Written)) = 0
          BY <4>2, FS_EmptySet DEF TokensOf
        <4>4. ledger = held.shares BY <3>12, <4>3, <1>7
        <4>5. ledger' = held'.shares BY <2>5, <4>4
        <4>6. CASE view.pc = "verifying"
          <5>1. Handled(view.hash) BY <3>10, <4>1, <4>6 DEF Active
          <5>2. view.hash \in Hashes BY <1>2, <1>5, <1>7, <2>1, <4>6
          <5>3. Handled(view.hash)' BY <2>2, <5>1, <5>2
          <5>4. view.hash \in rt'[txs'[view.hash].tab].handled BY <5>1, <5>2, <2>2 DEF Handled
          <5>5. Handled(panel[q].hash)' BY <1>3, <4>1, <5>4 DEF Handled
          <5> QED BY <4>5, <5>5, <1>3, <4>1, <4>6
        <4>7. CASE view.pc = "checking"
          <5>1. panel'[q].pc = "checking" /\ panel'[q].before = held.shares
            BY <1>3, <2>1, <4>1, <4>7
          <5>2. ~Burnt(q)' BY <5>1 DEF Burnt
          <5> QED BY <2>5, <4>5, <5>1, <5>2
        <4> QED BY <2>1, <4>6, <4>7
      <3> QED BY <3>7, <3>8, <3>9, <3>13, <3>14 DEF InSight
    <2> QED BY <2>6, <2>7
  <1> QED BY <1>8, <1>9

LEMMA ConnectedKeeps ==
    ASSUME EarnInv, Structure', NEW p \in Panels, Connected(p)
    PROVE  Backed' /\ (~astray' => InSight')
  <1>1. /\ panel[p].pc = "connecting" /\ panel[p].pc \notin Active /\ Structure
        /\ UNCHANGED <<Wallet, ledger>>
    BY DEF Connected, At, EarnInv, Active, Submitting
  <1>4. astray => astray' BY DEF Connected
  <1>5. ~astray' /\ p \in EarnPanels => ~Overlaps(p) BY DEF Connected
  <1>2. CASE End(p)
    <2>1. panel[p].pc # "idle" BY <1>1
    <2> QED BY <1>1, <1>2, <1>4, <2>1, RefusedKeeps
  <1>3. CASE \E key \in Keys, before \in Nat :
                /\ Enter(p, key, before) /\ key.kind = panel[p].key.kind
                /\ key.kind = "redeem" => /\ key.amount # 0 /\ key.amount <= before
                                          /\ before = held.shares
    <2>1. PICK key \in Keys, before \in Nat :
                /\ Enter(p, key, before) /\ key.kind = panel[p].key.kind
                /\ key.kind = "redeem" => before = held.shares
      BY <1>3
    <2>2. PICK view \in View, r \in Tab :
              /\ panel' = [panel EXCEPT ![p] = view] /\ rt' = [rt EXCEPT ![tabOf[p]] = r]
              /\ Entered(p, key, before, view, r)
      BY <1>1, <2>1, EnterIs
    <2>3. CASE p \in EarnPanels
      <3>1. ~astray' => ~Overlaps(p) BY <1>5, <2>3
      <3> QED BY <1>1, <1>4, <2>1, <2>2, <2>3, <3>1, EarnEnters
    <2>4. CASE p \notin EarnPanels
      <3>1. tabOf[p] \in Tabs BY <1>1, PanelsAre
      <3>2. r.completed = Recent(tabOf[p]) /\ r.handled = rt[tabOf[p]].handled
        BY <2>2 DEF Entered
      <3>3. Recent(tabOf[p]) \subseteq rt[tabOf[p]].completed BY <1>1, <3>1, <3>2, SweptMemory
      <3>4. \A u \in Tabs : /\ rt'[u].handled = rt[u].handled
                            /\ rt'[u].completed \subseteq rt[u].completed
        BY <1>1, <2>2, <3>1, <3>2, <3>3 DEF Structure, Types
      <3> QED BY <1>1, <1>4, <2>2, <2>4, <3>4, PanelMoves
    <2> QED BY <2>3, <2>4
  <1> QED BY <1>1, <1>2, <1>3, ConnectedIs

LEMMA ApproveKeeps ==
    ASSUME EarnInv, Structure', NEW p \in Panels, Approve(p)
    PROVE  Backed' /\ (~astray' => InSight')
  <1> DEFINE n == Len(txs) + 1
             view == [panel[p] EXCEPT !.pc = "sent", !.hash = n]
  <1>1. Structure /\ Backed /\ (~astray => InSight) /\ EarnPanels \subseteq Panels
    BY DEF EarnInv, Panels
  <1>2. /\ txs' \in Seq(Tx) /\ Len(txs') = n
        /\ \A j \in 1..Len(txs) : txs'[j] = txs[j]
        /\ txs'[n].key = panel[p].key /\ txs'[n].tab = tabOf[p] /\ txs'[n].status = "sent"
        /\ panel' = [panel EXCEPT ![p] = view]
    BY <1>1, ApproveIs
  <1>3. /\ panel[p].pc = "prompt" /\ panel[p] \in View /\ PressFits(p, panel[p], tabOf[p], txs)
        /\ UNCHANGED <<tabOf, held, claimed, ledger, rt, astray>>
    BY <1>1, PanelsAre DEF Approve, At
  <1>4. view.pc = "sent" /\ view.hash = n /\ view.key = panel[p].key /\ view.before = panel[p].before
    BY <1>3 DEF View
  <1> HIDE DEF view
  <1>5. panel'[p] = view /\ \A q \in Panels \ {p} : panel'[q] = panel[q]
    BY <1>1, <1>2 DEF Structure, Types
  <1>6. /\ txs \in Seq(Tx) /\ Deposits \subseteq Hashes /\ Hashes = 1..Len(txs)
        /\ ledger \in Nat /\ Len(txs) \in Nat
        /\ \A h \in Hashes : txs[h].tab \in Tabs
        /\ \A u \in Tabs : \A h \in rt[u].completed : h \in Hashes /\ txs[h].tab = u
    BY <1>1, SentAre
  <1>7. Hashes' = Hashes \cup {n} /\ n \notin Hashes BY <1>2, <1>6 DEF Hashes
  <1>8. \A j \in Hashes : txs'[j] = txs[j] BY <1>2, <1>6
  <1> HIDE DEF n
  <1>9. Deposits' = Deposits BY <1>2, <1>7, <1>8 DEF Deposits
  <1>10. CASE p \notin EarnPanels
    <2>1. \A q \in EarnPanels : panel'[q] = panel[q] BY <1>1, <1>5, <1>10
    <2>2. panel[p].key.kind = "claim" BY <1>3, <1>10 DEF PressFits
    <2>3. \A h \in 1..Len(txs') \ Hashes : txs'[h].key.kind = "claim"
      BY <1>2, <1>7, <2>2 DEF Hashes
    <2>4. Len(txs) <= Len(txs') BY <1>2, <1>6 DEF n
    <2>5. Quiet BY <1>2, <1>3, <1>8, <2>1, <2>3, <2>4 DEF Quiet
    <2> QED BY <2>5, QuietKeeps
  <1>11. CASE p \in EarnPanels
    <2>1. \A q \in EarnPanels \ {p} : panel'[q] = panel[q] BY <1>1, <1>5
    <2>2. ASSUME NEW h \in Hashes PROVE ByPanel(h)' <=> ByPanel(h)
      <3>1. ASSUME NEW q \in EarnPanels
            PROVE  (panel'[q].pc \in {"sent", "verifying"} /\ panel'[q].hash = h)
                   <=> (panel[q].pc \in {"sent", "verifying"} /\ panel[q].hash = h)
        BY <1>3, <1>4, <1>5, <1>7, <2>1
      <3> QED BY <3>1 DEF ByPanel
    <2>3. ASSUME NEW h \in Hashes PROVE Handled(h)' <=> Handled(h)
      BY <1>3, <1>8 DEF Handled
    <2>4. Backed'
      <3> DEFINE D == {}
      <3>1. D \in SUBSET (Hashes \ Deposits) /\ Deposits' = Deposits \cup D BY <1>9
      <3> HIDE DEF D
      <3>2. \A h \in Hashes : AtHand(h)' => AtHand(h) BY <1>3, <1>8, <2>2 DEF AtHand
      <3>3. \A h \in Deposits : AtHand(h)' => AtHand(h) /\ (Handled(h) => Handled(h)')
        BY <1>6, <2>3, <3>2
      <3>4. /\ Len(txs) <= Len(txs') /\ ledger' \in Nat /\ ledger' <= ledger
            /\ \A h \in Hashes : txs'[h].key = txs[h].key
        BY <1>2, <1>3, <1>6, <1>8 DEF n
      <3> QED BY <1>1, <1>2, <3>1, <3>3, <3>4, BackedStays
    <2>5. ASSUME ~astray' PROVE InSight'
      <3>1. InSight BY <1>1, <1>3, <2>5
      <3>2. \A q \in EarnPanels : /\ panel'[q].key = panel[q].key
                                  /\ panel'[q].before = panel[q].before
                                  /\ panel'[q].pc \in Active <=> panel[q].pc \in Active
        BY <1>3, <1>4, <1>5, <2>1 DEF Active, Submitting
      <3>3. \A q \in EarnPanels : Redeeming(q)' <=> Redeeming(q) BY <3>2 DEF Redeeming
      <3>4. RedeemAlone' BY <3>1, <3>2, <3>3 DEF InSight, RedeemAlone
      <3>5. SentIsSeen'
        <4> SUFFICES ASSUME NEW h \in Hashes', txs'[h].status = "sent", txs'[h].key.kind # "claim"
                     PROVE  \E q \in EarnPanels : panel'[q].pc = "sent" /\ panel'[q].hash = h
          BY DEF SentIsSeen
        <4>1. CASE h = n BY <1>4, <1>5, <1>11, <4>1
        <4>2. CASE h # n
          <5>1. h \in Hashes /\ txs'[h] = txs[h] BY <4>2, <1>7, <1>8
          <5>2. PICK q \in EarnPanels : panel[q].pc = "sent" /\ panel[q].hash = h
            BY <3>1, <5>1 DEF InSight, SentIsSeen
          <5>3. q # p BY <5>2, <1>3
          <5> QED BY <2>1, <5>2, <5>3
        <4> QED BY <4>1, <4>2
      <3>6. DoneIsHandled'
        <4> SUFFICES ASSUME NEW u \in Tabs, NEW h \in rt[u].completed,
                            txs'[h].key.kind # "claim"
                     PROVE  h \in rt[u].handled
                            \/ \E q \in EarnPanels : panel'[q].pc = "verifying" /\ panel'[q].hash = h
          BY <1>3 DEF DoneIsHandled
        <4>1. h \in Hashes /\ txs'[h] = txs[h] BY <1>6, <1>8
        <4>2. h \in rt[u].handled
              \/ \E q \in EarnPanels : panel[q].pc = "verifying" /\ panel[q].hash = h
          BY <3>1, <4>1 DEF InSight, DoneIsHandled
        <4>3. \A q \in EarnPanels : panel[q].pc = "verifying" => panel'[q] = panel[q]
          BY <1>3, <2>1
        <4> QED BY <4>2, <4>3
      <3>7. Written' = Written BY <1>6, <1>9, <2>2, <2>3 DEF Written
      <3>8. TokensOf(txs', Written') = TokensOf(txs, Written)
        <4>1. \A h \in Written : txs'[h].key = txs[h].key BY <1>6, <1>8 DEF Written
        <4> QED BY <3>7, <4>1, TokensSame
      <3>9. Even' BY <1>3, <3>1, <3>3, <3>8 DEF Even, InSight
      <3>10. RedeemOk'
        <4> SUFFICES ASSUME NEW q \in EarnPanels, Redeeming(q)'
                     PROVE  IF panel'[q].pc = "verifying" /\ Handled(panel[q].hash)'
                            THEN ledger' = held'.shares
                            ELSE /\ ledger' = panel'[q].before
                                 /\ held'.shares = IF Burnt(q)'
                                      THEN panel'[q].before - panel'[q].key.amount
                                      ELSE panel'[q].before
          BY DEF RedeemOk
        <4>1. IF panel[q].pc = "verifying" /\ Handled(panel[q].hash)
              THEN ledger = held.shares
              ELSE /\ ledger = panel[q].before
                   /\ held.shares = IF Burnt(q) THEN panel[q].before - panel[q].key.amount
                                                ELSE panel[q].before
          BY <3>1, <3>3 DEF InSight, RedeemOk
        <4>2. CASE q = p
          <5>1. ~Burnt(q) /\ panel[q].pc # "verifying" BY <1>3, <4>2 DEF Burnt
          <5>2. ~Burnt(q)' /\ panel'[q].pc # "verifying" BY <1>2, <1>4, <1>5, <4>2 DEF Burnt
          <5> QED BY <1>3, <3>2, <4>1, <5>1, <5>2
        <4>3. CASE q # p
          <5>1. panel'[q] = panel[q] BY <2>1, <4>3
          <5>2. panel[q].pc \in {"sent", "verifying"} => panel[q].hash \in Hashes
            BY <1>1, EarnPanelsAre
          <5>3. Burnt(q)' <=> Burnt(q) BY <1>8, <5>1, <5>2 DEF Burnt
          <5>4. panel[q].pc = "verifying" => (Handled(panel[q].hash)' <=> Handled(panel[q].hash))
            BY <1>3, <1>8, <5>1, <5>2 DEF Handled
          <5> QED BY <1>3, <4>1, <5>1, <5>3, <5>4
        <4> QED BY <4>2, <4>3
      <3> QED BY <3>4, <3>5, <3>6, <3>9, <3>10 DEF InSight
    <2> QED BY <2>4, <2>5
  <1> QED BY <1>10, <1>11

LEMMA AcceptedKeeps ==
    ASSUME EarnInv, Structure', NEW p \in Panels, Accepted(p)
    PROVE  Backed' /\ (~astray' => InSight')
  <1> DEFINE t == tabOf[p]
             hash == panel[p].hash
  <1>1. Structure /\ Backed /\ (~astray => InSight) /\ EarnPanels \subseteq Panels
        /\ EarnPanels \cap ClaimViews = {}
    BY EarnAssumption DEF EarnInv, Panels
  <1>2. /\ t \in Tabs /\ hash \in 1..Len(txs) /\ txs[hash].key = panel[p].key /\ txs[hash].tab = t
        /\ txs' \in Seq(Tx) /\ Len(txs') = Len(txs)
        /\ \A j \in 1..Len(txs) : /\ txs'[j].key = txs[j].key /\ txs'[j].tab = txs[j].tab
                                  /\ txs'[j].status = txs[j].status
        /\ txs[hash].age = "unseen"
        /\ \A u \in Tabs \ {t} : rt'[u] = rt[u]
        /\ rt'[t].handled = rt[t].handled
        /\ rt'[t].completed = {j \in rt[t].completed : txs[j].key # txs[hash].key} \cup {hash}
        /\ \A q \in Waiting(p) :
               /\ panel'[q].pc = "verifying" /\ panel'[q].hash = hash
               /\ panel'[q].key = panel[q].key /\ panel'[q].before = panel[q].before
        /\ \A q \in Panels \ Waiting(p) : panel'[q] = panel[q]
    BY <1>1, AcceptedIs
  <1>3. /\ panel[p].pc = "sent" /\ PressFits(p, panel[p], t, txs) /\ txs[hash].status = "ok"
        /\ UNCHANGED <<tabOf, held, claimed, ledger, astray>> /\ panel[p].pc \in Submitting
    BY <1>1, PanelsAre DEF Accepted, At, Submitting
  <1>4. p \in Waiting(p) /\ \A q \in Waiting(p) : q # p => q \in ClaimViews
    BY <1>1, <1>3, WaitingAre
  <1> HIDE DEF hash
  <1>5. \A q \in EarnPanels \ {p} : panel'[q] = panel[q] BY <1>1, <1>2, <1>4
  <1>6. /\ txs \in Seq(Tx) /\ Deposits \subseteq Hashes /\ Hashes = 1..Len(txs)
        /\ ledger \in Nat /\ \A h \in Hashes : txs[h].tab \in Tabs
        /\ \A u \in Tabs : \A h \in rt[u].completed : h \in Hashes /\ txs[h].tab = u
    BY <1>1, SentAre
  <1>7. Hashes' = Hashes BY <1>2 DEF Hashes
  <1>8. \A u \in Tabs : rt'[u].handled = rt[u].handled BY <1>2
  <1>9. \A u \in Tabs : \A h \in rt'[u].completed :
            h \in rt[u].completed \/ (u = t /\ h = hash)
    BY <1>2
  <1>10. CASE p \notin EarnPanels
    <2>1. \A q \in EarnPanels : panel'[q] = panel[q] BY <1>5, <1>10
    <2>2. txs[hash].key.kind = "claim" BY <1>2, <1>3, <1>10 DEF PressFits
    <2>3. \A u \in Tabs : /\ rt'[u].handled = rt[u].handled
                          /\ \A h \in rt'[u].completed :
                               h \in rt[u].completed \/ txs'[h].key.kind = "claim"
      BY <1>2, <1>8, <1>9, <2>2
    <2>4. Len(txs) <= Len(txs') BY <1>2, <1>6
    <2>5. \A h \in 1..Len(txs') \ Hashes : txs'[h].key.kind = "claim"
      BY <1>2, <1>6
    <2>6. \A h \in Hashes : /\ txs'[h].key = txs[h].key /\ txs'[h].tab = txs[h].tab
                            /\ txs'[h].status = txs[h].status
      BY <1>2, <1>6
    <2>7. Quiet BY <1>2, <1>3, <2>1, <2>3, <2>4, <2>5, <2>6 DEF Quiet
    <2> QED BY <2>7, QuietKeeps
  <1>11. CASE p \in EarnPanels
    <2>1. /\ panel'[p].pc = "verifying" /\ panel'[p].hash = hash
          /\ panel'[p].key = panel[p].key /\ panel'[p].before = panel[p].before
      BY <1>2, <1>4
    <2>2. ASSUME NEW h PROVE ByPanel(h)' <=> ByPanel(h)
      <3>1. ASSUME NEW q \in EarnPanels
            PROVE  (panel'[q].pc \in {"sent", "verifying"} /\ panel'[q].hash = h)
                   <=> (panel[q].pc \in {"sent", "verifying"} /\ panel[q].hash = h)
        BY <1>3, <1>5, <2>1 DEF hash
      <3> QED BY <3>1 DEF ByPanel
    <2>3. ASSUME NEW h \in Hashes
          PROVE  /\ Handled(h)' <=> Handled(h)
                 /\ txs'[h].key = txs[h].key /\ txs'[h].tab = txs[h].tab
                 /\ txs'[h].status = txs[h].status
      BY <1>2, <1>6, <1>8 DEF Handled
    <2>4. Deposits' = Deposits BY <1>7, <2>3 DEF Deposits
    <2>5. ByPanel(hash) BY <1>3, <1>11 DEF ByPanel, hash
    <2>6. Backed'
      <3> DEFINE D == {}
      <3>1. D \in SUBSET (Hashes \ Deposits) /\ Deposits' = Deposits \cup D BY <2>4
      <3> HIDE DEF D
      <3>2. ASSUME NEW h \in Hashes, AtHand(h)' PROVE AtHand(h)
        <4>1. txs[h].tab \in Tabs /\ txs'[h].tab = txs[h].tab BY <1>6, <2>3
        <4>2. CASE ByPanel(h)' BY <2>2, <4>2 DEF AtHand
        <4>3. CASE h \in rt'[txs'[h].tab].completed
          BY <1>9, <2>5, <4>1, <4>3 DEF AtHand
        <4> QED BY <3>2, <4>2, <4>3 DEF AtHand
      <3>3. \A h \in Deposits : AtHand(h)' => AtHand(h) /\ (Handled(h) => Handled(h)')
        BY <1>6, <2>3, <3>2
      <3>4. /\ Len(txs) <= Len(txs') /\ ledger' \in Nat /\ ledger' <= ledger
            /\ \A h \in Hashes : txs'[h].key = txs[h].key
        BY <1>2, <1>3, <1>6, <2>3
      <3> QED BY <1>1, <1>2, <3>1, <3>3, <3>4, BackedStays
    <2>7. ASSUME ~astray' PROVE InSight'
      <3>1. InSight BY <1>1, <1>3, <2>7
      <3>2. \A q \in EarnPanels : /\ panel'[q].key = panel[q].key
                                  /\ panel'[q].before = panel[q].before
                                  /\ panel'[q].pc \in Active <=> panel[q].pc \in Active
        BY <1>3, <1>5, <2>1 DEF Active, Submitting
      <3>3. \A q \in EarnPanels : Redeeming(q)' <=> Redeeming(q) BY <3>2 DEF Redeeming
      <3>4. RedeemAlone' BY <3>1, <3>2, <3>3 DEF InSight, RedeemAlone
      <3>5. SentIsSeen'
        <4> SUFFICES ASSUME NEW h \in Hashes, txs[h].status = "sent", txs[h].key.kind # "claim"
                     PROVE  \E q \in EarnPanels : panel'[q].pc = "sent" /\ panel'[q].hash = h
          BY <1>7, <2>3 DEF SentIsSeen
        <4>1. PICK q \in EarnPanels : panel[q].pc = "sent" /\ panel[q].hash = h
          BY <3>1 DEF InSight, SentIsSeen
        <4>2. q # p BY <1>3, <4>1 DEF hash
        <4> QED BY <1>5, <4>1, <4>2
      <3>6. DoneIsHandled'
        <4> SUFFICES ASSUME NEW u \in Tabs, NEW h \in rt'[u].completed,
                            txs'[h].key.kind # "claim"
                     PROVE  h \in rt'[u].handled
                            \/ \E q \in EarnPanels : panel'[q].pc = "verifying" /\ panel'[q].hash = h
          BY DEF DoneIsHandled
        <4>1. CASE h = hash BY <1>11, <2>1, <4>1
        <4>2. CASE h # hash
          <5>1. h \in rt[u].completed BY <1>9, <4>2
          <5>2. h \in Hashes /\ txs[h].key.kind # "claim" BY <1>6, <2>3, <5>1
          <5>3. h \in rt[u].handled
                \/ \E q \in EarnPanels : panel[q].pc = "verifying" /\ panel[q].hash = h
            BY <3>1, <5>1, <5>2 DEF InSight, DoneIsHandled
          <5>4. \A q \in EarnPanels : panel[q].pc = "verifying" => panel'[q] = panel[q]
            BY <1>3, <1>5
          <5> QED BY <1>8, <5>3, <5>4
        <4> QED BY <4>1, <4>2
      <3>7. Written' = Written BY <1>6, <2>2, <2>3, <2>4 DEF Written
      <3>8. TokensOf(txs', Written') = TokensOf(txs, Written)
        <4>1. \A h \in Written : txs'[h].key = txs[h].key BY <1>6, <2>3 DEF Written
        <4> QED BY <3>7, <4>1, TokensSame
      <3>9. Even' BY <1>3, <3>1, <3>3, <3>8 DEF Even, InSight
      <3>10. RedeemOk'
        <4> SUFFICES ASSUME NEW q \in EarnPanels, Redeeming(q)'
                     PROVE  IF panel'[q].pc = "verifying" /\ Handled(panel[q].hash)'
                            THEN ledger' = held'.shares
                            ELSE /\ ledger' = panel'[q].before
                                 /\ held'.shares = IF Burnt(q)'
                                      THEN panel'[q].before - panel'[q].key.amount
                                      ELSE panel'[q].before
          BY DEF RedeemOk
        <4>1. IF panel[q].pc = "verifying" /\ Handled(panel[q].hash)
              THEN ledger = held.shares
              ELSE /\ ledger = panel[q].before
                   /\ held.shares = IF Burnt(q) THEN panel[q].before - panel[q].key.amount
                                                ELSE panel[q].before
          BY <3>1, <3>3 DEF InSight, RedeemOk
        <4>2. CASE q = p
          <5>1. Burnt(q) /\ panel[q].pc # "verifying" BY <1>3, <4>2 DEF Burnt, hash
          <5>2. Burnt(q)' BY <1>2, <1>3, <2>1, <4>2 DEF Burnt
          <5>3. hash \notin rt[t].handled
            <6>1. MemoryFits(t, rt[t], txs) BY <1>1, <1>2, TabsAre
            <6> QED BY <1>2, <6>1 DEF MemoryFits
          <5>4. ~Handled(panel[q].hash)'
            <6>1. hash \notin rt'[txs'[hash].tab].handled BY <1>2, <5>3
            <6> QED BY <2>1, <4>2, <6>1 DEF Handled
          <5> QED BY <1>3, <3>2, <4>1, <5>1, <5>2, <5>4
        <4>3. CASE q # p
          <5>1. panel'[q] = panel[q] BY <1>5, <4>3
          <5>2. panel[q].pc \in {"sent", "verifying"} => panel[q].hash \in Hashes
            BY <1>1, EarnPanelsAre
          <5>3. Burnt(q)' <=> Burnt(q) BY <2>3, <5>1, <5>2 DEF Burnt
          <5>4. panel[q].pc = "verifying" => (Handled(panel[q].hash)' <=> Handled(panel[q].hash))
            <6> SUFFICES ASSUME panel[q].pc = "verifying"
                         PROVE  Handled(panel[q].hash)' <=> Handled(panel[q].hash)
              OBVIOUS
            <6>1. panel[q].hash \in Hashes /\ txs[panel[q].hash].tab \in Tabs BY <1>6, <5>2
            <6>2. /\ txs'[panel[q].hash].tab = txs[panel[q].hash].tab
                  /\ rt'[txs[panel[q].hash].tab].handled = rt[txs[panel[q].hash].tab].handled
              BY <1>8, <2>3, <6>1
            <6> QED BY <5>1, <6>2 DEF Handled
          <5> QED BY <1>3, <4>1, <5>1, <5>3, <5>4
        <4> QED BY <4>2, <4>3
      <3> QED BY <3>4, <3>5, <3>6, <3>9, <3>10 DEF InSight
    <2> QED BY <2>6, <2>7
  <1> QED BY <1>10, <1>11

\* A submission is written into the ledger.
LEMMA HandledKeeps ==
    ASSUME EarnInv, Structure', NEW p \in EarnPanels, panel[p].pc = "verifying", Handle(p),
           ~Handled(panel[p].hash), UNCHANGED <<Wallet, astray>>
    PROVE  Backed' /\ (~astray' => InSight')
  <1> DEFINE t == tabOf[p]
             hash == panel[p].hash
             key == panel[p].key
             before == panel[p].before
             r == [Release(t, {p}) EXCEPT !.handled = rt[t].handled \cup {hash}]
  <1>1. /\ Structure /\ Backed /\ (~astray => InSight) /\ p \in Panels
        /\ EarnPanels \subseteq Panels
    BY DEF EarnInv, Panels
  <1>2. /\ panel[p] \in View /\ PressFits(p, panel[p], t, txs) /\ t \in Tabs
        /\ hash \in Hashes /\ txs[hash].key = key /\ txs[hash].tab = t
        /\ txs[hash].status = "ok" /\ key.kind \in {"deposit", "redeem"}
    BY <1>1, EarnPanelsAre DEF PressFits
  <1>3. /\ key.amount \in Nat /\ before \in Nat
        /\ key.kind = "redeem" => key.amount # 0 /\ key.amount <= before
    BY <1>2 DEF View, Keys, PressFits, Active
  <1>4. /\ txs \in Seq(Tx) /\ Deposits \subseteq Hashes /\ Hashes = 1..Len(txs)
        /\ ledger \in Nat /\ held.shares \in Nat
        /\ \A h \in Hashes : txs[h].tab \in Tabs
        /\ \A u \in Tabs : \A h \in rt[u].completed : h \in Hashes /\ txs[h].tab = u
    BY <1>1, SentAre
  <1>5. hash \notin rt[t].handled BY <1>2 DEF Handled
  <1>6. /\ rt' = [rt EXCEPT ![t] = [Release(t, {p}) EXCEPT
                                        !.handled = Release(t, {p}).handled \cup {hash}]]
        /\ panel' = [panel EXCEPT ![p] = Ended(Shown(panel[p]))]
        /\ ledger' = IF key.kind = "deposit" THEN ledger + key.amount
                     ELSE recordRedeem(before, before - key.amount)
    BY <1>5 DEF Handle
  <1>7. /\ Release(t, {p}) \in Tab /\ Release(t, {p}).handled = rt[t].handled
        /\ Release(t, {p}).completed = rt[t].completed
    BY <1>1, <1>2, ReleaseFits DEF Structure
  <1>8. rt' = [rt EXCEPT ![t] = r] BY <1>6, <1>7
  <1>9. r.handled = rt[t].handled \cup {hash} /\ r.completed = rt[t].completed
    BY <1>7 DEF Tab
  <1> HIDE DEF r
  <1>10. /\ \A u \in Tabs : rt'[u].completed = rt[u].completed
         /\ \A u \in Tabs \ {t} : rt'[u].handled = rt[u].handled
         /\ rt'[t].handled = rt[t].handled \cup {hash}
    BY <1>1, <1>2, <1>8, <1>9 DEF Structure, Types
  <1>11. key.kind # "deposit" => key.amount <= before BY <1>2, <1>3
  <1>12. Shown(panel[p]) \in View BY <1>2, <1>11, ShownFits
  <1>13. panel'[p].pc = "idle" /\ \A q \in EarnPanels \ {p} : panel'[q] = panel[q]
    BY <1>1, <1>6, <1>12, EndedFits DEF Structure, Types
  <1>14. /\ txs' = txs /\ tabOf' = tabOf /\ held' = held /\ astray' = astray
         /\ Hashes' = Hashes /\ Deposits' = Deposits
    BY DEF Wallet, Hashes, Deposits
  <1> HIDE DEF hash, key, before
  <1>15. ASSUME NEW h \in Hashes PROVE Handled(h)' <=> Handled(h) \/ h = hash
    BY <1>2, <1>4, <1>10, <1>14 DEF Handled
  <1>16. ASSUME NEW h, ByPanel(h)' PROVE ByPanel(h)
    BY <1>13, <1>16 DEF ByPanel
  <1>17. ASSUME NEW h, ByPanel(h), h # hash PROVE ByPanel(h)'
    <2>1. PICK q \in EarnPanels : panel[q].pc \in {"sent", "verifying"} /\ panel[q].hash = h
      BY <1>17 DEF ByPanel
    <2>2. q # p BY <1>17, <2>1 DEF hash
    <2> QED BY <1>13, <2>1, <2>2 DEF ByPanel
  <1>18. \A h \in Hashes : AtHand(h)' => AtHand(h)
    BY <1>4, <1>10, <1>14, <1>16 DEF AtHand
  <1>19. ByPanel(hash) BY DEF ByPanel, hash
  <1>20. ASSUME NEW u \in Tabs, NEW h \in rt[u].completed, InSight, txs[h].key.kind # "claim"
         PROVE  h \in rt'[u].handled
                \/ \E q \in EarnPanels : panel'[q].pc = "verifying" /\ panel'[q].hash = h
    <2>1. h \in rt[u].handled
          \/ \E q \in EarnPanels : panel[q].pc = "verifying" /\ panel[q].hash = h
      BY <1>20 DEF InSight, DoneIsHandled
    <2>2. CASE h \in rt[u].handled BY <1>10, <2>2
    <2>3. ASSUME NEW q \in EarnPanels, panel[q].pc = "verifying", panel[q].hash = h
          PROVE  h \in rt'[u].handled
                 \/ \E v \in EarnPanels : panel'[v].pc = "verifying" /\ panel'[v].hash = h
      <3>1. CASE q = p
        <4>1. h = hash /\ u = t BY <1>2, <1>4, <1>20, <2>3, <3>1 DEF hash
        <4> QED BY <1>10, <4>1
      <3>2. CASE q # p BY <1>13, <2>3, <3>2
      <3> QED BY <3>1, <3>2
    <2> QED BY <2>1, <2>2, <2>3
  <1>21. ASSUME InSight PROVE SentIsSeen' /\ DoneIsHandled'
    <2>1. SentIsSeen'
      <3> SUFFICES ASSUME NEW h \in Hashes, txs[h].status = "sent", txs[h].key.kind # "claim"
                   PROVE  \E q \in EarnPanels : panel'[q].pc = "sent" /\ panel'[q].hash = h
        BY <1>14 DEF SentIsSeen
      <3>1. PICK q \in EarnPanels : panel[q].pc = "sent" /\ panel[q].hash = h
        BY <1>21 DEF InSight, SentIsSeen
      <3>2. q # p BY <3>1
      <3> QED BY <1>13, <3>1, <3>2
    <2>2. DoneIsHandled'
      <3> SUFFICES ASSUME NEW u \in Tabs, NEW h \in rt[u].completed, txs[h].key.kind # "claim"
                   PROVE  h \in rt'[u].handled
                          \/ \E q \in EarnPanels : panel'[q].pc = "verifying" /\ panel'[q].hash = h
        BY <1>10, <1>14 DEF DoneIsHandled
      <3> QED BY <1>20, <1>21
    <2> QED BY <2>1, <2>2
  <1>22. \A q \in EarnPanels : panel'[q].pc \in Active =>
            q # p /\ panel'[q] = panel[q]
    BY <1>13 DEF Active, Submitting
  <1>23. panel[p].pc \in Active BY DEF Active
  <1>24. CASE key.kind = "deposit"
    <2>1. ledger' = ledger + key.amount BY <1>6, <1>24
    <2>2. hash \in Deposits BY <1>2, <1>24 DEF Deposits
    <2>3. hash \in ToWrite /\ hash \in Written
      BY <1>2, <1>5, <1>19, <2>2 DEF ToWrite, Written, AtHand, Handled
    <2>4. ASSUME NEW W \in SUBSET Hashes, hash \in W
          PROVE  Cardinality(TokensOf(txs, W)) = Cardinality(TokensOf(txs, W \ {hash})) + key.amount
      <3> DEFINE one == {hash}
                 rest == W \ {hash}
      <3>1. /\ one \in SUBSET (1..Len(txs)) /\ rest \in SUBSET (1..Len(txs)) /\ rest \cap one = {}
            /\ W = rest \cup one
        BY <1>2, <1>4, <2>4
      <3>2. Cardinality(TokensOf(txs, one)) = key.amount
        BY <1>2, <1>4, TokensOfOne
      <3> HIDE DEF one, rest
      <3>3. Cardinality(TokensOf(txs, rest \cup one))
                = Cardinality(TokensOf(txs, rest)) + Cardinality(TokensOf(txs, one))
        BY <1>4, <3>1, TokensSplit
      <3> QED BY <3>1, <3>2, <3>3 DEF rest
    <2>5. Backed'
      <3>1. ToWrite \in SUBSET Hashes BY <1>4 DEF ToWrite
      <3> DEFINE W == ToWrite \ {hash}
      <3>2. ToWrite' \subseteq W BY <1>4, <1>14, <1>15, <1>18 DEF ToWrite
      <3>3. W \in SUBSET (1..Len(txs)) /\ ToWrite' \in SUBSET (1..Len(txs)) BY <1>4, <3>1, <3>2
      <3>4. Cardinality(TokensOf(txs, ToWrite)) = Cardinality(TokensOf(txs, W)) + key.amount
        BY <2>3, <2>4, <3>1
      <3> HIDE DEF W
      <3>5. Cardinality(TokensOf(txs, ToWrite')) <= Cardinality(TokensOf(txs, W))
        BY <1>4, <3>2, <3>3, TokensGrow
      <3>6. /\ Cardinality(TokensOf(txs, W)) \in Nat
            /\ Cardinality(TokensOf(txs, ToWrite')) \in Nat
        BY <1>4, <3>3, TokensAre
      <3>7. Cardinality(TokensOf(txs, Deposits)) \in Nat BY <1>4, TokensAre
      <3>8. ledger + Cardinality(TokensOf(txs, ToWrite)) <= Cardinality(TokensOf(txs, Deposits))
        BY <1>1 DEF Backed
      <3>9. ledger' + Cardinality(TokensOf(txs, ToWrite')) <= Cardinality(TokensOf(txs, Deposits))
        BY <1>3, <1>4, <2>1, <3>4, <3>5, <3>6, <3>7, <3>8
      <3> QED BY <1>14, <3>9 DEF Backed
    <2>6. ASSUME ~astray' PROVE InSight'
      <3>1. InSight BY <1>1, <1>14, <2>6
      <3>2. ~Redeeming(p) BY <1>24 DEF Redeeming, key
      <3>3. \A q \in EarnPanels : ~Redeeming(q)
        BY <1>23, <3>1, <3>2 DEF InSight, RedeemAlone
      <3>4. \A q \in EarnPanels : ~Redeeming(q)'
        BY <1>22, <3>3 DEF Redeeming
      <3>5. Written' = Written \ {hash}
        BY <1>4, <1>14, <1>15, <1>16, <1>17 DEF Written
      <3>6. Written \in SUBSET Hashes BY <1>4 DEF Written
      <3>7. Cardinality(TokensOf(txs, Written)) = Cardinality(TokensOf(txs, Written')) + key.amount
        BY <2>3, <2>4, <3>5, <3>6
      <3>8. held.shares = ledger + Cardinality(TokensOf(txs, Written))
        BY <3>1, <3>3 DEF InSight, Even
      <3>9. Cardinality(TokensOf(txs, Written')) \in Nat
        <4>1. Written' \in SUBSET (1..Len(txs)) BY <1>4, <3>5, <3>6
        <4> QED BY <1>4, <4>1, TokensAre
      <3>10. held.shares = ledger' + Cardinality(TokensOf(txs, Written'))
        BY <1>3, <1>4, <2>1, <3>7, <3>8, <3>9
      <3>11. Even' BY <1>14, <3>10 DEF Even
      <3>12. RedeemAlone' /\ RedeemOk' BY <3>4 DEF RedeemAlone, RedeemOk
      <3> QED BY <1>21, <3>1, <3>11, <3>12 DEF InSight
    <2> QED BY <2>5, <2>6
  <1>25. CASE key.kind = "redeem"
    <2>1. ledger' = (ledger * (before - key.amount)) \div before
      BY <1>6, <1>25 DEF recordRedeem
    <2>2. /\ before \in Nat \ {0} /\ before - key.amount \in Nat /\ before - key.amount <= before
      BY <1>3, <1>25
    <2>3. /\ ledger' \in Nat /\ ledger' <= ledger
          /\ ledger = before => ledger' = before - key.amount
      BY <1>4, <2>1, <2>2, Scaled
    <2>4. Backed'
      <3> DEFINE D == {}
      <3>1. D \in SUBSET (Hashes \ Deposits) /\ Deposits' = Deposits \cup D BY <1>14
      <3> HIDE DEF D
      <3>2. \A h \in Deposits : AtHand(h)' => AtHand(h) /\ (Handled(h) => Handled(h)')
        BY <1>4, <1>15, <1>18
      <3>3. /\ Len(txs) <= Len(txs') /\ txs' \in Seq(Tx)
            /\ \A h \in Hashes : txs'[h].key = txs[h].key
        BY <1>4, <1>14
      <3> QED BY <1>1, <2>3, <3>1, <3>2, <3>3, BackedStays
    <2>5. ASSUME ~astray' PROVE InSight'
      <3>1. InSight BY <1>1, <1>14, <2>5
      <3>2. Redeeming(p) BY <1>23, <1>25 DEF Redeeming, key
      <3>3. \A q \in EarnPanels : panel'[q].pc \notin Active
        BY <1>22, <3>1, <3>2 DEF InSight, RedeemAlone
      <3>4. Burnt(p) BY <1>2 DEF Burnt, hash
      <3>5. ledger = before /\ held.shares = before - key.amount
        BY <3>1, <3>2, <3>4 DEF InSight, RedeemOk, before, key
      <3>6. Written' = {} BY <3>3 DEF Written, ByPanel, Active, Submitting
      <3>7. Cardinality(TokensOf(txs', Written')) = 0
        BY <3>6, FS_EmptySet DEF TokensOf
      <3>8. held'.shares = ledger' + Cardinality(TokensOf(txs', Written'))
        BY <1>14, <2>3, <3>5, <3>7
      <3>9. Even' BY <3>8 DEF Even
      <3>10. RedeemAlone' /\ RedeemOk'
        BY <3>3 DEF RedeemAlone, RedeemOk, Redeeming
      <3> QED BY <1>21, <3>1, <3>9, <3>10 DEF InSight
    <2> QED BY <2>4, <2>5
  <1> QED BY <1>2, <1>24, <1>25

LEMMA ExecuteKeeps ==
    ASSUME EarnInv, Structure', NEW hash \in Hashes, Execute(hash)
    PROVE  Backed' /\ (~astray' => InSight')
  <1> DEFINE key == txs[hash].key
  <1>1. /\ Structure /\ Backed /\ (~astray => InSight) /\ Types
        /\ EarnPanels \subseteq Panels
    BY DEF EarnInv, Structure, Panels
  <1>2. /\ txs[hash].status = "sent" /\ txs' \in Seq(Tx) /\ Len(txs') = Len(txs)
        /\ txs'[hash].key = key /\ txs'[hash].tab = txs[hash].tab
        /\ \A j \in Hashes : j # hash => txs'[j] = txs[j]
        /\ UNCHANGED <<tabOf, ledger, rt, panel, astray>>
        /\ \/ txs'[hash].status = "reverted" /\ held' = held
           \/ txs'[hash].status = "ok" /\ key.kind = "claim" /\ held'.shares = held.shares
           \/ txs'[hash].status = "ok" /\ key.kind = "deposit"
              /\ held'.shares = held.shares + key.amount
           \/ txs'[hash].status = "ok" /\ key.kind = "redeem"
              /\ held'.shares = held.shares - key.amount
    BY <1>1, ExecuteIs
  <1>3. /\ txs \in Seq(Tx) /\ Deposits \subseteq Hashes /\ Hashes = 1..Len(txs)
        /\ ledger \in Nat /\ held.shares \in Nat /\ key.amount \in Nat
        /\ \A h \in Hashes : txs[h].tab \in Tabs
        /\ hash \notin rt[txs[hash].tab].handled
        /\ \A u \in Tabs : \A h \in rt[u].completed : h \in Hashes /\ txs[h].tab = u
    BY <1>1, <1>2, SentAre
  <1>4. \A h \in Hashes : txs'[h].key = txs[h].key /\ txs'[h].tab = txs[h].tab
    BY <1>2
  <1>5. Hashes' = Hashes BY <1>2 DEF Hashes
  <1> HIDE DEF key
  <1>6. hash \notin Deposits BY <1>2 DEF Deposits
  <1>7. \A h : ByPanel(h)' <=> ByPanel(h) BY <1>2 DEF ByPanel
  <1>8. \A h \in Hashes : (Handled(h)' <=> Handled(h)) /\ (AtHand(h)' <=> AtHand(h))
    BY <1>2, <1>4, <1>7 DEF Handled, AtHand
  <1>9. ASSUME NEW D \in SUBSET (Hashes \ Deposits), Deposits' = Deposits \cup D
        PROVE  Backed'
    <2>1. /\ Len(txs) <= Len(txs') /\ ledger' \in Nat /\ ledger' <= ledger
          /\ \A h \in Hashes : txs'[h].key = txs[h].key
      BY <1>2, <1>3, <1>4
    <2>2. \A h \in Deposits : AtHand(h)' => AtHand(h) /\ (Handled(h) => Handled(h)')
      BY <1>3, <1>8
    <2> QED BY <1>1, <1>2, <1>9, <2>1, <2>2, BackedStays
  <1>10. ASSUME InSight PROVE RedeemAlone' /\ SentIsSeen' /\ DoneIsHandled'
    <2>1. RedeemAlone' BY <1>2, <1>10 DEF InSight, RedeemAlone, Redeeming
    <2>2. SentIsSeen'
      <3> SUFFICES ASSUME NEW h \in Hashes, txs'[h].status = "sent", txs'[h].key.kind # "claim"
                   PROVE  \E q \in EarnPanels : panel[q].pc = "sent" /\ panel[q].hash = h
        BY <1>2, <1>5 DEF SentIsSeen
      <3>1. h # hash BY <1>2
      <3>2. txs'[h] = txs[h] BY <1>2, <3>1
      <3> QED BY <1>10, <3>2 DEF InSight, SentIsSeen
    <2>3. DoneIsHandled'
      <3> SUFFICES ASSUME NEW u \in Tabs, NEW h \in rt[u].completed, txs'[h].key.kind # "claim"
                   PROVE  h \in rt[u].handled
                          \/ \E q \in EarnPanels : panel[q].pc = "verifying" /\ panel[q].hash = h
        BY <1>2 DEF DoneIsHandled
      <3>1. txs[h].key.kind # "claim" BY <1>3, <1>4
      <3> QED BY <1>10, <3>1 DEF InSight, DoneIsHandled
    <2> QED BY <2>1, <2>2, <2>3
  <1>11. CASE key.kind = "claim"
    <2>1. held'.shares = held.shares BY <1>2, <1>11
    <2>2. \A h \in Hashes : /\ txs'[h].key = txs[h].key /\ txs'[h].tab = txs[h].tab
                            /\ txs[h].key.kind # "claim" => txs'[h].status = txs[h].status
      <3> SUFFICES ASSUME NEW h \in Hashes, txs[h].key.kind # "claim"
                   PROVE  txs'[h].status = txs[h].status
        BY <1>4
      <3>1. h # hash BY <1>11 DEF key
      <3> QED BY <1>2, <3>1
    <2> QED BY <1>2, <2>1, <2>2, ChainKeeps
  <1>12. ASSUME InSight, key.kind # "claim"
         PROVE  \E p \in EarnPanels : /\ panel[p].pc = "sent" /\ panel[p].hash = hash
                                      /\ panel[p].key = key /\ panel[p].pc \in Active
    <2>1. PICK p \in EarnPanels : panel[p].pc = "sent" /\ panel[p].hash = hash
      BY <1>2, <1>12 DEF InSight, SentIsSeen, key
    <2>2. panel[p].key = key BY <1>1, <2>1, EarnPanelsAre DEF key
    <2> QED BY <2>1, <2>2 DEF Active, Submitting
  <1>13. ASSUME NEW p \in EarnPanels, panel[p].pc \in {"sent", "verifying"}, panel[p].hash # hash
         PROVE  Burnt(p)' <=> Burnt(p)
    <2>1. panel[p].hash \in Hashes BY <1>1, <1>13, EarnPanelsAre
    <2>2. txs'[panel[p].hash] = txs[panel[p].hash] BY <1>2, <1>13, <2>1
    <2> QED BY <1>2, <2>2 DEF Burnt
  <1>14. CASE txs'[hash].status = "reverted" /\ key.kind # "claim"
    <2>1. Deposits' = Deposits BY <1>2, <1>4, <1>5, <1>6, <1>14 DEF Deposits
    <2>2. Backed'
      <3> DEFINE D == {}
      <3>1. D \in SUBSET (Hashes \ Deposits) /\ Deposits' = Deposits \cup D BY <2>1
      <3> HIDE DEF D
      <3> QED BY <3>1, <1>9
    <2>3. ASSUME ~astray' PROVE InSight'
      <3>1. InSight BY <1>1, <1>2, <2>3
      <3>2. Written' = Written BY <1>3, <1>7, <1>8, <2>1 DEF Written
      <3>3. \A h \in Written : txs'[h].key = txs[h].key BY <1>3, <1>4 DEF Written
      <3>4. TokensOf(txs', Written') = TokensOf(txs, Written) BY <3>2, <3>3, TokensSame
      <3>5. held' = held BY <1>2, <1>14
      <3>6. Even' BY <1>2, <3>1, <3>4, <3>5 DEF InSight, Even, Redeeming
      <3>7. RedeemOk'
        <4> SUFFICES ASSUME NEW p \in EarnPanels, Redeeming(p)'
                     PROVE  IF panel'[p].pc = "verifying" /\ Handled(panel[p].hash)'
                            THEN ledger' = held'.shares
                            ELSE /\ ledger' = panel'[p].before
                                 /\ held'.shares = IF Burnt(p)'
                                      THEN panel'[p].before - panel'[p].key.amount
                                      ELSE panel'[p].before
          BY DEF RedeemOk
        <4>1. IF panel[p].pc = "verifying" /\ Handled(panel[p].hash)
              THEN ledger = held.shares
              ELSE /\ ledger = panel[p].before
                   /\ held.shares = IF Burnt(p) THEN panel[p].before - panel[p].key.amount
                                                ELSE panel[p].before
          BY <1>2, <3>1 DEF InSight, RedeemOk, Redeeming
        <4>2. Burnt(p)' <=> Burnt(p)
          BY <1>2, <1>13, <1>14 DEF Burnt
        <4>3. panel[p].pc = "verifying" => (Handled(panel[p].hash)' <=> Handled(panel[p].hash))
          <5> SUFFICES ASSUME panel[p].pc = "verifying"
                       PROVE  Handled(panel[p].hash)' <=> Handled(panel[p].hash)
            OBVIOUS
          <5>1. panel[p].hash \in Hashes BY <1>1, EarnPanelsAre
          <5> QED BY <1>2, <1>4, <5>1 DEF Handled
        <4> QED BY <1>2, <3>5, <4>1, <4>2, <4>3
      <3> QED BY <1>10, <3>1, <3>6, <3>7 DEF InSight
    <2> QED BY <2>2, <2>3
  <1>15. CASE txs'[hash].status = "ok" /\ key.kind = "deposit"
    <2> DEFINE one == {hash}
    <2>1. Deposits' = Deposits \cup one
      BY <1>2, <1>4, <1>5, <1>15 DEF Deposits, key
    <2>2. /\ one \in SUBSET (Hashes \ Deposits) /\ one \in SUBSET (1..Len(txs))
          /\ Written \in SUBSET (1..Len(txs)) /\ Written \cap one = {}
      BY <1>3, <1>6 DEF Written
    <2>3. Cardinality(TokensOf(txs, one)) = key.amount BY <1>3, TokensOfOne DEF key
    <2>4. hash \in one /\ \A h \in one : h = hash OBVIOUS
    <2> HIDE DEF one
    <2>5. Backed' BY <1>9, <2>1, <2>2
    <2>6. ASSUME ~astray' PROVE InSight'
      <3>1. InSight BY <1>1, <1>2, <2>6
      <3>2. PICK p \in EarnPanels : /\ panel[p].pc = "sent" /\ panel[p].hash = hash
                                    /\ panel[p].key = key /\ panel[p].pc \in Active
        BY <1>12, <1>15, <3>1
      <3>3. \A q \in EarnPanels : ~Redeeming(q)
        BY <1>15, <3>1, <3>2 DEF InSight, RedeemAlone, Redeeming
      <3>4. \A q \in EarnPanels : ~Redeeming(q)' BY <1>2, <3>3 DEF Redeeming
      <3>5. ByPanel(hash) /\ ~Handled(hash) BY <1>3, <3>2 DEF ByPanel, Handled
      <3>6. Written' = Written \cup one
        BY <1>3, <1>7, <1>8, <2>1, <2>4, <3>5 DEF Written
      <3>7. Cardinality(TokensOf(txs, Written \cup one))
                = Cardinality(TokensOf(txs, Written)) + Cardinality(TokensOf(txs, one))
        BY <1>3, <2>2, TokensSplit
      <3>8. \A h \in Written' : txs'[h].key = txs[h].key
        BY <1>3, <1>4, <2>4, <3>6 DEF Written
      <3>9. TokensOf(txs', Written') = TokensOf(txs, Written \cup one)
        BY <3>6, <3>8, TokensSame
      <3>10. held.shares = ledger + Cardinality(TokensOf(txs, Written))
        BY <3>1, <3>3 DEF InSight, Even
      <3>11. held'.shares = held.shares + key.amount /\ ledger' = ledger
        BY <1>2, <1>15
      <3>12. Cardinality(TokensOf(txs, Written)) \in Nat BY <1>3, <2>2, TokensAre
      <3>13. held'.shares = ledger' + Cardinality(TokensOf(txs', Written'))
        BY <1>3, <2>3, <3>7, <3>9, <3>10, <3>11, <3>12
      <3>14. Even' BY <3>13 DEF Even
      <3>15. RedeemOk' BY <3>4 DEF RedeemOk
      <3> QED BY <1>10, <3>1, <3>14, <3>15 DEF InSight
    <2> QED BY <2>5, <2>6
  <1>16. CASE txs'[hash].status = "ok" /\ key.kind = "redeem"
    <2>1. Deposits' = Deposits BY <1>2, <1>4, <1>5, <1>6, <1>16 DEF Deposits, key
    <2>2. Backed'
      <3> DEFINE D == {}
      <3>1. D \in SUBSET (Hashes \ Deposits) /\ Deposits' = Deposits \cup D BY <2>1
      <3> HIDE DEF D
      <3> QED BY <3>1, <1>9
    <2>3. ASSUME ~astray' PROVE InSight'
      <3>1. InSight BY <1>1, <1>2, <2>3
      <3>2. PICK p \in EarnPanels : /\ panel[p].pc = "sent" /\ panel[p].hash = hash
                                    /\ panel[p].key = key /\ panel[p].pc \in Active
        BY <1>12, <1>16, <3>1
      <3>3. Redeeming(p) BY <1>16, <3>2 DEF Redeeming
      <3>4. Redeeming(p)' BY <1>2, <3>3 DEF Redeeming
      <3>5. Even' BY <3>4 DEF Even
      <3>6. ledger = panel[p].before /\ held.shares = panel[p].before
        <4>1. ~Burnt(p) /\ panel[p].pc # "verifying" BY <1>2, <3>2 DEF Burnt
        <4> QED BY <3>1, <3>3, <4>1 DEF InSight, RedeemOk
      <3>7. Burnt(p)' BY <1>2, <1>16, <3>2 DEF Burnt
      <3>8. /\ ledger' = panel'[p].before /\ panel'[p].pc # "verifying"
            /\ held'.shares = panel'[p].before - panel'[p].key.amount
        BY <1>2, <1>16, <3>2, <3>6
      <3>9. \A q \in EarnPanels : Redeeming(q)' => q = p
        BY <1>2, <3>1, <3>2 DEF InSight, RedeemAlone, Redeeming
      <3>10. RedeemOk' BY <3>7, <3>8, <3>9 DEF RedeemOk
      <3> QED BY <1>10, <3>1, <3>5, <3>10 DEF InSight
    <2> QED BY <2>2, <2>3
  <1> QED BY <1>2, <1>11, <1>14, <1>15, <1>16

LEMMA EndingsKeep ==
    ASSUME EarnInv, Structure', NEW p \in Panels,
           Refused(p) \/ ReceiptLost(p) \/ Verified(p) \/ VerificationFails(p)
    PROVE  Backed' /\ (~astray' => InSight')
  <1>1. tabOf[p] \in Tabs \/ panel[p].pc = "idle" BY PanelsAre DEF EarnInv
  <1>2. CASE Refused(p)
    <2>1. /\ panel[p].pc # "idle" /\ panel[p].pc \notin Active /\ End(p)
          /\ UNCHANGED <<Wallet, ledger>>
      BY <1>2 DEF Refused, At, Active, Submitting
    <2>2. astray => astray' BY <1>2 DEF Refused
    <2> QED BY <2>1, <2>2, RefusedKeeps
  <1>3. CASE ReceiptLost(p)
    <2>1. panel[p].pc \in Submitting /\ Reject(p) /\ UNCHANGED <<Wallet, ledger>>
      BY <1>3 DEF ReceiptLost, At, Submitting
    <2>2. (astray => astray') /\ (p \in EarnPanels => astray') BY <1>3 DEF ReceiptLost
    <2> QED BY <2>1, <2>2, RejectKeeps
  <1>4. CASE VerificationFails(p)
    <2>1. panel[p].pc = "verifying" /\ End(p) /\ UNCHANGED <<Wallet, ledger>> /\ p \in EarnPanels
      BY <1>4 DEF VerificationFails, At
    <2>2. (astray => astray') /\ (panel[p].hash \notin rt[tabOf[p]].handled => astray')
      BY <1>4 DEF VerificationFails
    <2>3. txs[panel[p].hash].tab = tabOf[p] BY <2>1, EarnPanelsAre DEF EarnInv
    <2>4. ~astray' => Over(p) BY <2>1, <2>2, <2>3 DEF Over, Handled
    <2>5. panel[p].pc # "idle" BY <2>1
    <2> QED BY <2>1, <2>2, <2>4, <2>5, RefusedKeeps
  <1>5. CASE Verified(p)
    <2>1. panel[p].pc = "verifying" /\ UNCHANGED <<Wallet, astray>> /\ panel[p].pc # "idle"
      BY <1>5 DEF Verified, At
    <2>2. astray => astray' BY <2>1
    <2>3. CASE p \notin EarnPanels
      <3>1. End(p) /\ UNCHANGED <<Wallet, ledger>> BY <1>5, <2>1, <2>3 DEF Verified
      <3> QED BY <2>1, <2>2, <2>3, <3>1, RefusedKeeps
    <2>4. CASE p \in EarnPanels
      <3>1. Handle(p) /\ txs[panel[p].hash].tab = tabOf[p]
        BY <1>5, <2>1, <2>4, EarnPanelsAre DEF EarnInv, Verified
      <3>2. CASE Handled(panel[p].hash)
        <4>1. End(p) /\ UNCHANGED <<Wallet, ledger>>
          BY <2>1, <3>1, <3>2 DEF Handle, Handled
        <4>2. Over(p) BY <2>1, <3>2 DEF Over
        <4> QED BY <2>1, <2>2, <4>1, <4>2, RefusedKeeps
      <3>3. CASE ~Handled(panel[p].hash)
        BY <2>1, <2>4, <3>1, <3>3, HandledKeeps
      <3> QED BY <3>2, <3>3
    <2> QED BY <2>3, <2>4
  <1> QED BY <1>2, <1>3, <1>4, <1>5

LEMMA ReceiptKeeps ==
    ASSUME EarnInv, Structure', NEW p \in Panels, Receipt(p)
    PROVE  Backed' /\ (~astray' => InSight')
  <1>1. CASE Accepted(p) BY <1>1, AcceptedKeeps
  <1>2. CASE /\ At(p, "sent") /\ txs[panel[p].hash].status = "reverted"
             /\ Reject(p) /\ UNCHANGED <<Wallet, ledger, astray, faults>>
    <2>1. panel[p].pc \in Submitting /\ UNCHANGED <<Wallet, ledger>>
      BY <1>2 DEF At, Submitting
    <2>2. astray => astray' BY <1>2
    <2> QED BY <1>2, <2>1, <2>2, RejectKeeps
  <1> QED BY <1>1, <1>2, ReceiptIs

LEMMA EarnInvAtFirst == Init => EarnInv
  <1> SUFFICES ASSUME Init PROVE EarnInv OBVIOUS
  <1>1. Structure BY StructureAtFirst
  <1>2. /\ Hashes = {} /\ Deposits = {} /\ ledger = 0 /\ held.shares = 0
        /\ \A p \in EarnPanels : panel[p].pc = "idle"
        /\ \A t \in Tabs : rt[t].completed = {}
    BY DEF Init, Hashes, Deposits, Fresh, Runtime, Panels
  <1>3. ToWrite = {} /\ Written = {} BY <1>2 DEF ToWrite, Written
  <1>4. Cardinality(TokensOf(txs, {})) = 0 BY FS_EmptySet DEF TokensOf
  <1>5. Backed BY <1>2, <1>3, <1>4 DEF Backed
  <1>6. \A p \in EarnPanels : ~Redeeming(p) BY <1>2 DEF Redeeming, Active, Submitting
  <1>7. Even BY <1>2, <1>3, <1>4 DEF Even
  <1>8. InSight
    BY <1>2, <1>6, <1>7 DEF InSight, RedeemAlone, SentIsSeen, DoneIsHandled, RedeemOk
  <1> QED BY <1>1, <1>5, <1>8 DEF EarnInv

LEMMA EarnInvStays == EarnInv /\ [Next]_vars => EarnInv'
  <1> SUFFICES ASSUME EarnInv, [Next]_vars PROVE EarnInv' OBVIOUS
  <1>1. Structure' BY StructureStays DEF EarnInv
  <1> DEFINE Kept == Backed' /\ (~astray' => InSight')
  <1>2. ASSUME NEW p \in Panels,
               Reveal(p) \/ Deposit(p) \/ Withdraw(p) \/ Claim(p) \/ Revealed(p)
        PROVE  Kept
    BY <1>1, <1>2, StartKeeps, RevealedKeeps
  <1>3. ASSUME NEW p \in Panels, Connected(p) \/ CheckRuntime(p) \/ Decline(p)
        PROVE  Kept
    BY <1>1, <1>3, ConnectedKeeps, CheckRuntimeKeeps
  <1>4. ASSUME NEW p \in Panels, Approve(p) \/ Receipt(p) PROVE Kept
    BY <1>1, <1>4, ApproveKeeps, ReceiptKeeps
  <1>5. ASSUME NEW p \in Panels,
               Refused(p) \/ ReceiptLost(p) \/ Verified(p) \/ VerificationFails(p)
        PROVE  Kept
    BY <1>1, <1>5, EndingsKeep
  <1>6. ASSUME NEW h \in Hashes, Execute(h) PROVE Kept BY <1>1, <1>6, ExecuteKeeps
  <1>7. ASSUME NEW h \in Hashes, Lapse(h) PROVE Kept
    <2>1. /\ txs' \in Seq(Tx) /\ Len(txs') = Len(txs)
          /\ \A j \in Hashes : /\ txs'[j].key = txs[j].key /\ txs'[j].tab = txs[j].tab
                               /\ txs'[j].status = txs[j].status
          /\ UNCHANGED <<tabOf, held, claimed, ledger, rt, panel, astray>>
      BY <1>7, LapseIs DEF EarnInv, Structure
    <2> QED BY <1>1, <2>1, ChainKeeps
  <1>8. ASSUME NEW t \in Tabs, Reload(t) PROVE Kept BY <1>1, <1>8, ReloadKeeps
  <1>9. ASSUME UNCHANGED vars PROVE Kept
    <2>1. /\ txs' \in Seq(Tx) /\ txs' = txs
          /\ UNCHANGED <<tabOf, held, claimed, ledger, rt, panel, astray>>
      BY <1>9 DEF vars, EarnInv, Structure, Types
    <2>2. /\ held'.shares = held.shares /\ Len(txs') = Len(txs)
          /\ \A j \in Hashes : /\ txs'[j].key = txs[j].key /\ txs'[j].tab = txs[j].tab
                               /\ txs'[j].status = txs[j].status
      BY <2>1
    <2> QED BY <1>1, <2>1, <2>2, ChainKeeps
  <1> HIDE DEF Kept
  <1>10. Kept BY <1>2, <1>3, <1>4, <1>5, <1>6, <1>7, <1>8, <1>9 DEF Next
  <1> QED BY <1>1, <1>10 DEF EarnInv, Kept

LEMMA EarnInvHolds == Spec => []EarnInv
BY EarnInvAtFirst, EarnInvStays, PTL DEF Spec

\* No deposit is in the cost basis twice, nor one that has not been executed,
\* however often a hash is handed out and whatever is lost (EarnPanel.tsx:266).
THEOREM LedgerIsBackedHolds == Spec => []LedgerIsBacked
<1>1. EarnInv => LedgerIsBacked
  <2> SUFFICES ASSUME EarnInv PROVE LedgerIsBacked OBVIOUS
  <2>1. /\ txs \in Seq(Tx) /\ Deposits \subseteq Hashes /\ Hashes = 1..Len(txs)
        /\ ledger \in Nat
    BY SentAre DEF EarnInv
  <2>2. ToWrite \in SUBSET (1..Len(txs)) /\ Deposits \in SUBSET (1..Len(txs))
    BY <2>1 DEF ToWrite
  <2>3. /\ Cardinality(TokensOf(txs, ToWrite)) \in Nat
        /\ Cardinality(TokensOf(txs, Deposits)) \in Nat
    BY <2>1, <2>2, TokensAre
  <2>4. Tokens(Deposits) = TokensOf(txs, Deposits) BY DEF Tokens, TokensOf
  <2> QED BY <2>1, <2>3, <2>4 DEF EarnInv, Backed, LedgerIsBacked
<1> QED BY <1>1, EarnInvHolds, PTL

\* Where no transaction was lost sight of and no tabs overlapped, the cost basis
\* is the shares held, whatever has been pressed, reloaded and refused before
\* (ledger.ts:26).
THEOREM LedgerFollowsHolds == Spec => []LedgerFollows
<1>1. EarnInv => LedgerFollows
  <2> SUFFICES ASSUME EarnInv, ~astray,
                      \A p \in EarnPanels : panel[p].pc \notin {"sent", "verifying"}
               PROVE  ledger = held.shares
    BY DEF LedgerFollows
  <2>1. ledger \in Nat /\ held.shares \in Nat BY SentAre DEF EarnInv
  <2>2. InSight BY DEF EarnInv
  <2>3. Written = {} BY DEF Written, ByPanel
  <2>4. Cardinality(TokensOf(txs, Written)) = 0 BY <2>3, FS_EmptySet DEF TokensOf
  <2>5. CASE \A p \in EarnPanels : ~Redeeming(p)
    BY <2>1, <2>2, <2>4, <2>5 DEF InSight, Even
  <2>6. CASE \E p \in EarnPanels : Redeeming(p)
    <3>1. PICK p \in EarnPanels : Redeeming(p) BY <2>6
    <3>2. ~Burnt(p) /\ panel[p].pc # "verifying" BY DEF Burnt
    <3> QED BY <2>2, <3>1, <3>2 DEF InSight, RedeemOk
  <2> QED BY <2>5, <2>6
<1> QED BY <1>1, EarnInvHolds, PTL
=============================================================================
