----------------------------- MODULE UtxoManager -----------------------------
(***************************************************************************)
(* The wallet's view of its coins (daemon/src/utxo_manager.rs).            *)
(*                                                                         *)
(* The code keeps a vector sorted by amount, which the selection walks, a  *)
(* map by outpoint, and the list of transactions this daemon submitted.    *)
(* Entries of one outpoint have one amount, so the vector is modelled by    *)
(* what it holds for each outpoint, in vector order: the stable sort keeps *)
(* that order, and where entries of other outpoints stand does not matter. *)
(*                                                                         *)
(* Every caller holds the daemon's utxo_manager mutex.                     *)
(***************************************************************************)
EXTENDS Ledger

Absent == "absent"
Confirmed == "confirmed"        \* is_unconfirmed = false
Unconfirmed == "unconfirmed"    \* is_unconfirmed = true

VARIABLES
    addresses,             \* AddressManager.addresses: the addresses known so far
    utxosSortedByAmount,   \* for each outpoint, its entries in vector order
    utxosByOutpoint,       \* for each outpoint, the map's entry or Absent
    mempoolTransactions,   \* transactions this daemon submitted, in order
    replay                 \* transactions a refresh has still to re-apply

viewVars == <<utxosSortedByAmount, utxosByOutpoint>>
utxoVars == <<addresses, utxosSortedByAmount, utxosByOutpoint,
              mempoolTransactions, replay>>

UtxoTypeOK ==
    /\ addresses \subseteq WalletAddresses
    /\ utxosSortedByAmount \in [Outpoints -> Seq({Confirmed, Unconfirmed})]
    /\ utxosByOutpoint \in [Outpoints -> {Absent, Confirmed, Unconfirmed}]
    /\ mempoolTransactions \in Seq(Txs)
    /\ replay \in Seq(Txs)

UtxoInit ==
    /\ addresses = {}
    /\ utxosSortedByAmount = [o \in Outpoints |-> <<>>]
    /\ utxosByOutpoint = [o \in Outpoints |-> Absent]
    /\ mempoolTransactions = <<>>
    /\ replay = <<>>

-----------------------------------------------------------------------------
Contains(o) == utxosByOutpoint[o] # Absent
ContainsAll(t) == \A o \in InputsOf[t] : Contains(o)

\* The selection walks the vector and skips unconfirmed entries.
Selectable(o) == \E i \in DOMAIN utxosSortedByAmount[o] :
                     utxosSortedByAmount[o][i] = Confirmed

\* The outputs of t the wallet takes for its own.
PaidToWallet(t) == {o \in CreatedBy({t}) : AddressOf(o) \in addresses}

\* insert_utxo of a confirmed entry.  The binary search may land on any entry
\* of equal amount, so before or after those the outpoint already has (between
\* two of them is as good as after: a removal takes the first).
InsertInto(entries, first) ==
    IF first THEN <<Confirmed>> \o entries ELSE Append(entries, Confirmed)

\* The two containers after remove_utxo for the outpoints gone, then
\* insert_utxo for the outpoints new.
SortedAfter(gone, new, first) ==
    [o \in Outpoints |->
        LET entries == IF o \in gone THEN Tail(utxosSortedByAmount[o])
                                     ELSE utxosSortedByAmount[o]
        IN IF o \in new THEN InsertInto(entries, first) ELSE entries]

\* Mutant: remove_utxo leaves the map alone.
ByOutpointKept(gone, new) ==
    [o \in Outpoints |-> IF o \in new THEN Confirmed ELSE utxosByOutpoint[o]]

ByOutpointAfter(gone, new) ==
    [o \in Outpoints |-> IF o \in new THEN Confirmed
                         ELSE IF o \in gone THEN Absent
                         ELSE utxosByOutpoint[o]]

Apply(gone, new) ==
    /\ \E first \in BOOLEAN : utxosSortedByAmount' = SortedAfter(gone, new, first)
    /\ utxosByOutpoint' = ByOutpointAfter(gone, new)

\* remove_utxo unwraps: t can be applied only if both containers hold its inputs.
CanApply(t) == \A o \in InputsOf[t] : Contains(o) /\ utxosSortedByAmount[o] # <<>>

\* Mutants: the inputs are not removed; the list is kept newest first.
TrackOutputsOnly(t) ==
    /\ mempoolTransactions' = Append(mempoolTransactions, t)
    /\ Apply({}, PaidToWallet(t))
    /\ UNCHANGED addresses

TrackNewestFirst(t) ==
    /\ CanApply(t)
    /\ mempoolTransactions' = <<t>> \o mempoolTransactions
    /\ Apply(InputsOf[t], PaidToWallet(t))
    /\ UNCHANGED addresses

\* add_mempool_transaction
AddMempoolTransaction(t) ==
    /\ CanApply(t)
    /\ mempoolTransactions' = Append(mempoolTransactions, t)
    /\ Apply(InputsOf[t], PaidToWallet(t))
    /\ UNCHANGED addresses

\* add_mempool_transaction when an unwrap panics: t is on the list, the inputs
\* that come before the missing one are gone, no output is inserted.
AddMempoolTransactionPanics(t) ==
    /\ ~CanApply(t)
    /\ mempoolTransactions' = Append(mempoolTransactions, t)
    /\ \E gone \in SUBSET {o \in InputsOf[t] : Contains(o)} : Apply(gone, {})
    /\ UNCHANGED addresses

\* Mutants of update_utxo_set: what the mempool spends is not left out; pending
\* outputs are pushed without the unconfirmed flag; the old view is not cleared.
UpdateWithoutExclusion(utxos, sending, receiving) ==
    /\ utxosSortedByAmount' =
           [o \in Outpoints |-> IF o \in utxos THEN <<Confirmed>> ELSE <<>>]
    /\ utxosByOutpoint' =
           [o \in Outpoints |-> IF o \in utxos THEN Confirmed ELSE Absent]
    /\ replay' = mempoolTransactions
    /\ mempoolTransactions' = <<>>
    /\ UNCHANGED addresses

UpdateWithoutFlag(utxos, sending, receiving) ==
    LET times(o) == IF AddressOf(o) \in addresses THEN receiving[o[1]] ELSE 0
        found(o) == o \in utxos \ SpentBy(sending)
    IN /\ utxosSortedByAmount' =
              [o \in Outpoints |-> [i \in 1..(times(o) + (IF found(o) THEN 1 ELSE 0))
                                        |-> Confirmed]]
       /\ utxosByOutpoint' =
              [o \in Outpoints |-> IF found(o) \/ times(o) > 0 THEN Confirmed ELSE Absent]
       /\ replay' = mempoolTransactions
       /\ mempoolTransactions' = <<>>
       /\ UNCHANGED addresses

UpdateWithoutClearing(utxos, sending, receiving) ==
    LET kept(o) == o \in utxos \ SpentBy(sending) \/ Contains(o)
    IN /\ utxosSortedByAmount' =
              [o \in Outpoints |-> IF kept(o) THEN <<Confirmed>> ELSE <<>>]
       /\ utxosByOutpoint' =
              [o \in Outpoints |-> IF kept(o) THEN Confirmed ELSE Absent]
       /\ replay' = mempoolTransactions
       /\ mempoolTransactions' = <<>>
       /\ UNCHANGED addresses

\* update_utxo_set, up to the replay.  The node answered with the unspent
\* outpoints utxos, and with the transactions sending and receiving that list
\* under each queried address: receiving[t] is the number of addresses t is
\* listed under, each of which pushes all the outputs of t once more.
UpdateUtxoSet(utxos, sending, receiving) ==
    LET exclude == SpentBy(sending)
        confirmed(o) == o \in utxos \ exclude
        times(o) == IF AddressOf(o) \in addresses /\ o \notin exclude
                    THEN receiving[o[1]] ELSE 0
    IN /\ utxosSortedByAmount' =
              [o \in Outpoints |-> (IF confirmed(o) THEN <<Confirmed>> ELSE <<>>)
                                   \o [i \in 1..times(o) |-> Unconfirmed]]
       /\ utxosByOutpoint' =
              [o \in Outpoints |-> IF times(o) > 0 THEN Unconfirmed
                                   ELSE IF confirmed(o) THEN Confirmed
                                   ELSE Absent]
       /\ replay' = mempoolTransactions
       /\ mempoolTransactions' = <<>>
       /\ UNCHANGED addresses

\* Mutants of the replay: the list is restored but its transactions are not
\* applied; they are applied but not put back on the list; a settled
\* transaction stays on the list.
ReplayListsOnly ==
    /\ replay # <<>>
    /\ ContainsAll(Head(replay))
    /\ mempoolTransactions' = Append(mempoolTransactions, Head(replay))
    /\ replay' = Tail(replay)
    /\ UNCHANGED addresses
    /\ UNCHANGED viewVars

ReplayAppliesOnly ==
    /\ replay # <<>>
    /\ ContainsAll(Head(replay))
    /\ Apply(InputsOf[Head(replay)], PaidToWallet(Head(replay)))
    /\ replay' = Tail(replay)
    /\ UNCHANGED <<addresses, mempoolTransactions>>

ReplayKeepsSettled ==
    /\ replay # <<>>
    /\ ~ContainsAll(Head(replay))
    /\ mempoolTransactions' = Append(mempoolTransactions, Head(replay))
    /\ replay' = Tail(replay)
    /\ UNCHANGED addresses
    /\ UNCHANGED viewVars

\* One turn of the loop of apply_mempool_transactions_after_update.
ReplayKeeps ==
    /\ replay # <<>>
    /\ ContainsAll(Head(replay))
    /\ AddMempoolTransaction(Head(replay))
    /\ replay' = Tail(replay)

ReplayDrops ==
    /\ replay # <<>>
    /\ ~ContainsAll(Head(replay))
    /\ replay' = Tail(replay)
    /\ UNCHANGED <<addresses, mempoolTransactions>>
    /\ UNCHANGED viewVars
=============================================================================
