---------------------------- MODULE AddressIssuer ----------------------------
(***************************************************************************)
(* What the daemon promises of the addresses it hands out: each is new.    *)
(* Nothing is said of locks, files, restarts or the scan of the chain.     *)
(***************************************************************************)
EXTENDS Naturals

CONSTANT Issuable    \* the addresses that may be handed out

VARIABLE handed      \* how often each was

Init == handed = [a \in Issuable |-> 0]

Issue(a) ==
    /\ handed[a] = 0
    /\ handed' = [handed EXCEPT ![a] = 1]

Next == \E a \in Issuable : Issue(a)

Spec == Init /\ [][Next]_handed
=============================================================================
