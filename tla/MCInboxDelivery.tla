--------------------------- MODULE MCInboxDelivery ---------------------------
(***************************************************************************)
(* InboxDelivery with a few tabs.                                          *)
(***************************************************************************)
EXTENDS InboxDelivery, TLC

CONSTANTS t1, t2, b1, b2

\* Two browsers with a tab each; or two tabs of one browser.
OneTabEach == t1 :> b1 @@ t2 :> b2
OneBrowser == t1 :> b1 @@ t2 :> b1

Symmetric == Permutations(Profiles) \cup Permutations(Wallets) \cup Permutations(Intents)
=============================================================================
