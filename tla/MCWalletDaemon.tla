--------------------------- MODULE MCWalletDaemon ---------------------------
(***************************************************************************)
(* A wallet with two coins of one confirmed transaction and what it may    *)
(* build from them: `pay` spends the first and pays the wallet twice (a     *)
(* payment to itself and its change), `chained` spends the change of pay,  *)
(* `both` spends both coins, `split` and `merge` are one batch over the     *)
(* second coin, and `joined` spends the change of chained together with    *)
(* the second coin.  A stranger pays two wallet addresses at once            *)
(* (`received`), and another holder of the same keys may spend the first   *)
(* coin (`rival`).                                                         *)
(***************************************************************************)
EXTENDS WalletDaemon

MCTxs == {"funding", "pay", "chained", "joined", "both", "split", "merge",
          "received", "rival"}
MCAddresses == {"A1", "A2", "change", "other"}
MCWallet == {"A1", "A2", "change"}

MCInputs ==
    [t \in MCTxs |->
        CASE t \in {"pay", "rival"} -> {<<"funding", 1>>}
          [] t = "chained" -> {<<"pay", 2>>}
          [] t = "joined" -> {<<"chained", 2>>, <<"funding", 2>>}
          [] t = "both" -> {<<"funding", 1>>, <<"funding", 2>>}
          [] t = "split" -> {<<"funding", 2>>}
          [] t = "merge" -> {<<"split", 1>>}
          [] OTHER -> {}]

PaysChangeTo(a) ==
    [t \in MCTxs |->
        CASE t = "funding" -> <<"A1", "A1">>
          [] t = "received" -> <<"A1", "A2">>
          [] t = "pay" -> <<"A1", a>>
          [] t = "split" -> <<a>>
          [] t \in {"joined", "merge", "rival"} -> <<"other">>
          [] OTHER -> <<"other", a>>]

BatchesWithChange(a, isFresh) ==
    {[txs |-> s, change |-> a, fresh |-> isFresh] :
        s \in {<<"pay">>, <<"chained">>, <<"joined">>, <<"both">>, <<"split", "merge">>}}

\* Change goes to a change address the wallet has not used before.
FreshChangeOutputs == PaysChangeTo("change")
FreshChangeBatches == BatchesWithChange("change", TRUE)

\* The same without the batch of two.
FreshChangeSingles == {b \in FreshChangeBatches : Len(b.txs) = 1}

\* Change goes back to the address the coins came from (from_addresses).
KnownChangeOutputs == PaysChangeTo("A1")
KnownChangeBatches == BatchesWithChange("A1", FALSE)

\* The batches are such as the generator makes them.
ASSUME \A b \in Batches : Sendable(b)
=============================================================================
