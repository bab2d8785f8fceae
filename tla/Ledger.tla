------------------------------- MODULE Ledger -------------------------------
(***************************************************************************)
(* Transactions, outpoints and addresses: the vocabulary the node and the  *)
(* wallet share.  Transactions are members of a fixed set: an identifier   *)
(* is a hash of the contents, so what a transaction spends and pays never  *)
(* changes.  Amounts and scripts are left out.                             *)
(***************************************************************************)
EXTENDS Naturals, Sequences, FiniteSets

CONSTANTS
    Txs,              \* every transaction that may appear
    Addresses,        \* every address a transaction may pay
    WalletAddresses,  \* the addresses derived from the wallet's keys
    InputsOf,         \* the set of outpoints a transaction spends
    OutputsOf         \* the sequence of addresses a transaction pays

\* An outpoint is a transaction and the position of one of its outputs.
Outpoints == UNION {{t} \X DOMAIN OutputsOf[t] : t \in Txs}
AddressOf(o) == OutputsOf[o[1]][o[2]]

SpentBy(S) == UNION {InputsOf[t] : t \in S}
CreatedBy(S) == {o \in Outpoints : o[1] \in S}

ASSUME LedgerAssumption ==
    /\ OutputsOf \in [Txs -> Seq(Addresses)]
    /\ InputsOf \in [Txs -> SUBSET Outpoints]
    /\ WalletAddresses \subseteq Addresses
    /\ IsFiniteSet(WalletAddresses)
=============================================================================
