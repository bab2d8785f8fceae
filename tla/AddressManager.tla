--------------------------- MODULE AddressManager ---------------------------
(***************************************************************************)
(* The address manager (daemon/src/address_manager.rs): it derives and     *)
(* hands out addresses and remembers which ones the wallet uses.  Its      *)
(* callers hold one mutex from the first to the last step of a call, so    *)
(* the steps of two calls do not mix; only a crash comes between them.     *)
(***************************************************************************)
EXTENDS Keys

CONSTANTS
    Cosigners,      \* the wallet's cosigners
    cosigner_index  \* the one this daemon signs for

ASSUME CosignerAssumption == cosigner_index \in Cosigners

VARIABLES
    addresses,   \* the addresses known so far
    lock         \* who holds the mutex: a client, "sync" or "nobody"

WalletAddress == [index : 0..MaxIndex, cosigner_index : Cosigners, keychain : Keychains]

\* The address this daemon hands out for an index.
Own(n, k) == [index |-> n, cosigner_index |-> cosigner_index, keychain |-> k]

\* Mutant: one is added to the value after the fetch_add.
NextIndexOffByOne(k) == lastUsed[k] + 2

\* The index new_address, or change_address without use_existing_change_address, draws.
NextIndex(k) == lastUsed[k] + 1

\* addresses_to_query, without the indexes no address of the model has.
AddressesToQuery(start, end) == {a \in WalletAddress : a.index >= start /\ a.index < end}

\* The loop of update_addresses_and_last_used_indexes: the addresses found
\* become known, and a counter rises to the largest index found.
UpdateAddresses(found) ==
    /\ lastUsed' \in [Keychains -> 0..MaxIndex]
    /\ \A k \in Keychains :
           LET seen == {lastUsed[k]} \cup {a.index : a \in {b \in found : b.keychain = k}}
           IN lastUsed'[k] \in seen /\ \A n \in seen : n <= lastUsed'[k]
    /\ addresses' = addresses \cup found
=============================================================================
