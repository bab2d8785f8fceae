-------------------------- MODULE MCAddressDaemon --------------------------
(***************************************************************************)
(* A wallet of two cosigners with windows of one index.  The other         *)
(* cosigner may use an address beyond the first window of the scan, before *)
(* this daemon starts or (where Payable allows it) at any time after.      *)
(***************************************************************************)
EXTENDS AddressDaemon, TLC

Cosigned == {[index |-> 2, cosigner_index |-> 1, keychain |-> "internal"]}

\* Requests differ in nothing but their name.
ClientSymmetry == Permutations(Clients)
============================================================================
