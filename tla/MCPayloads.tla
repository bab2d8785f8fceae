----------------------------- MODULE MCPayloads -----------------------------
(***************************************************************************)
(* The wallets and requests of MCTransactionGenerator, and the daemons a   *)
(* payload may meet: the one that made it, one with its keys that is not   *)
(* bound to a lane or bound to another, and one of the lane without the keys. *)
(***************************************************************************)
EXTENDS Payloads, MCTransactionGenerator

MCMnemonics == {"ours"}
\* One payment, all coins, and a payment that a wallet of eight coins merges twice.
MCCarried == {[Plain EXCEPT !.amount = 28], [Plain EXCEPT !.amount = 49],
              [Plain EXCEPT !.sendAll = TRUE, !.amount = 0]}

MCDaemons ==
    {[lane |-> "lane", mnemonics |-> {"ours"}], [lane |-> "native", mnemonics |-> {"ours"}],
     [lane |-> "other lane", mnemonics |-> {"ours"}], [lane |-> "lane", mnemonics |-> {"theirs"}]}
=============================================================================
