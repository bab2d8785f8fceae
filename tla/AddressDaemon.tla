---------------------------- MODULE AddressDaemon ----------------------------
(***************************************************************************)
(* The daemon around its addresses: the requests that draw one             *)
(* (NewAddress, and the change address of Send and of                      *)
(* CreateUnsignedTransactions), the sync task that scans the chain for     *)
(* used addresses (sync_manager.rs), the keys file, and restarts.          *)
(*                                                                         *)
(* A crash may come between any two steps, in the middle of a save too.    *)
(* Indexes above MaxIndex carry nothing, so the scan's positions stop      *)
(* growing at ScanLimit.                                                   *)
(***************************************************************************)
EXTENDS AddressManager

CONSTANTS
    Clients,        \* concurrent requests
    RecentWindow,   \* NUM_INDEXES_TO_QUERY_FOR_RECENT_ADDRESSES
    FarWindow,      \* NUM_INDEXES_TO_QUERY_FOR_FAR_ADDRESSES
    Elsewhere,      \* addresses used by cosigners or before the keys were restored
    Payable,        \* the addresses somebody may pay while the daemon exists
    SavesFail,      \* may a write of the keys file return an error?
    MaxDrains,      \* bound on the addresses emptied in one behaviour
    MaxCrashes      \* bound on the restarts of one behaviour

ASSUME AddressDaemonAssumption ==
    /\ "sync" \notin Clients /\ "nobody" \notin Clients
    /\ RecentWindow \in Nat \ {0}
    /\ FarWindow \in Nat \ {0}
    /\ Elsewhere \subseteq WalletAddress
    /\ Payable \subseteq WalletAddress
    /\ SavesFail \in BOOLEAN
    /\ MaxDrains \in Nat
    /\ MaxCrashes \in Nat

VARIABLES
    running,         \* is the process up?
    pc,              \* where each request stands
    keychain,        \* the keychain each request draws from
    drawn,           \* the index each request drew
    pass,            \* what the sync task is doing: "far", "recent" or "refresh"
    syncStep,        \* its step within a call of collect_addresses
    scanIndex,       \* the position of collect_recent_addresses
    answer,          \* the addresses the node's last answer named
    nextSyncStart,   \* SyncManager.next_sync_start_index
    firstSyncDone,   \* SyncManager.first_sync_done
    funded,          \* the addresses with a balance
    owed,            \* history: those that had it when the process started
    handed,          \* history: how often each address was handed out
    drains, crashes  \* number of drains and of restarts so far

requestVars == <<pc, keychain, drawn>>
scanVars == <<pass, syncStep, scanIndex, answer, nextSyncStart, firstSyncDone>>
chainVars == <<funded, owed, drains>>
vars == <<keysVars, addresses, lock, running, requestVars, scanVars, chainVars,
          handed, crashes>>

ScanLimit == MaxIndex + 2 * RecentWindow + FarWindow
Capped(n) == IF n < ScanLimit THEN n ELSE ScanLimit

\* What each field of the managers and of the requests may hold; the counters
\* of keys.rs never pass the addresses that exist.
TypeOK ==
    /\ KeysTypeOK
    /\ addresses \subseteq WalletAddress
    /\ lock \in Clients \cup {"sync", "nobody"}
    /\ running \in BOOLEAN
    /\ pc \in [Clients -> {"idle", "waiting", "drawn", "saving", "saved"}]
    /\ keychain \in [Clients -> Keychains]
    /\ drawn \in [Clients -> 0..MaxIndex]
    /\ pass \in {"far", "recent", "refresh"}
    /\ syncStep \in {"query", "answered", "updated", "saving", "next"}
    /\ scanIndex \in 0..ScanLimit
    /\ answer \subseteq WalletAddress
    /\ nextSyncStart \in 0..ScanLimit
    /\ firstSyncDone \in BOOLEAN
    /\ funded \subseteq WalletAddress
    /\ owed \subseteq WalletAddress
    /\ handed \in [WalletAddress -> Nat]
    /\ drains \in 0..MaxDrains
    /\ crashes \in 0..MaxCrashes

\* A keys file made by kaswallet-create; some addresses may be in use already.
Init ==
    /\ lastUsed = [k \in Keychains |-> 0]
    /\ persisted = lastUsed
    /\ intact = TRUE
    /\ running = TRUE
    /\ addresses = {}
    /\ lock = "nobody"
    /\ pc = [c \in Clients |-> "idle"]
    /\ keychain = [c \in Clients |-> "external"]
    /\ drawn = [c \in Clients |-> 0]
    /\ pass = "recent"
    /\ syncStep = "query"
    /\ scanIndex = 0
    /\ answer = {}
    /\ nextSyncStart = 0
    /\ firstSyncDone = FALSE
    /\ funded \in SUBSET Elsewhere
    /\ owed = funded
    /\ handed = [a \in WalletAddress |-> 0]
    /\ drains = 0
    /\ crashes = 0

IsSynced == AboveLastUsed(nextSyncStart) /\ firstSyncDone

-----------------------------------------------------------------------------
(* The requests. *)

\* check_is_synced comes before the mutex.
CheckSynced(c, k) ==
    /\ running
    /\ pc[c] = "idle"
    /\ IsSynced
    /\ pc' = [pc EXCEPT ![c] = "waiting"]
    /\ keychain' = [keychain EXCEPT ![c] = k]
    /\ UNCHANGED <<keysVars, addresses, lock, running, drawn, scanVars, chainVars,
                   handed, crashes>>

\* Mutant: the keys file is not saved.
DrawUnsaved(c) ==
    /\ pc[c] = "waiting"
    /\ lock = "nobody"
    /\ lock' = c
    /\ FetchAdd(keychain[c])
    /\ drawn' = [drawn EXCEPT ![c] = NextIndex(keychain[c])]
    /\ pc' = [pc EXCEPT ![c] = "saved"]
    /\ UNCHANGED <<fileVars, addresses, running, keychain, scanVars, chainVars,
                   handed, crashes>>

\* new_address and change_address take the mutex and draw an index.
Draw(c) ==
    /\ pc[c] = "waiting"
    /\ lock = "nobody"
    /\ lock' = c
    /\ FetchAdd(keychain[c])
    /\ drawn' = [drawn EXCEPT ![c] = NextIndex(keychain[c])]
    /\ pc' = [pc EXCEPT ![c] = "drawn"]
    /\ UNCHANGED <<fileVars, addresses, running, keychain, scanVars, chainVars,
                   handed, crashes>>

\* change_address with use_existing_change_address: index 0 of the internal keychain.
DrawExisting(c) ==
    /\ pc[c] = "waiting"
    /\ keychain[c] = "internal"
    /\ lock = "nobody"
    /\ lock' = c
    /\ drawn' = [drawn EXCEPT ![c] = 0]
    /\ pc' = [pc EXCEPT ![c] = "drawn"]
    /\ UNCHANGED <<keysVars, addresses, running, keychain, scanVars, chainVars,
                   handed, crashes>>

SaveTruncates(c) ==
    /\ pc[c] = "drawn"
    /\ Truncate
    /\ pc' = [pc EXCEPT ![c] = "saving"]
    /\ UNCHANGED <<addresses, lock, running, keychain, drawn, scanVars, chainVars,
                   handed, crashes>>

SaveWrites(c) ==
    /\ pc[c] = "saving"
    /\ WriteAll
    /\ pc' = [pc EXCEPT ![c] = "saved"]
    /\ UNCHANGED <<addresses, lock, running, keychain, drawn, scanVars, chainVars,
                   handed, crashes>>

\* save or the derivation of the address returns an error: the request fails
\* and the counter keeps its new value.
RequestFails(c) ==
    /\ SavesFail
    /\ pc[c] \in {"drawn", "saving", "saved"}
    /\ lock' = "nobody"
    /\ pc' = [pc EXCEPT ![c] = "idle"]
    /\ keychain' = [keychain EXCEPT ![c] = "external"]
    /\ drawn' = [drawn EXCEPT ![c] = 0]
    /\ UNCHANGED <<keysVars, addresses, running, scanVars, chainVars, handed, crashes>>

\* The address becomes known and is handed out (index 0 never counts as new).
Reply(c) ==
    /\ pc[c] = "saved"
    /\ lock' = "nobody"
    /\ pc' = [pc EXCEPT ![c] = "idle"]
    /\ addresses' = addresses \cup {Own(drawn[c], keychain[c])}
    /\ handed' = IF drawn[c] = 0 THEN handed
                 ELSE [handed EXCEPT ![Own(drawn[c], keychain[c])] = @ + 1]
    /\ keychain' = [keychain EXCEPT ![c] = "external"]
    /\ drawn' = [drawn EXCEPT ![c] = 0]
    /\ UNCHANGED <<keysVars, running, scanVars, chainVars, crashes>>

RequestNext ==
    \E c \in Clients :
        \/ \E k \in Keychains : CheckSynced(c, k)
        \/ Draw(c) \/ DrawExisting(c)
        \/ SaveTruncates(c) \/ SaveWrites(c) \/ RequestFails(c) \/ Reply(c)

-----------------------------------------------------------------------------
(* The sync task. *)

\* Mutant: the far pass begins one index too late.
LateStart == IF pass = "far" THEN nextSyncStart + 1 ELSE scanIndex

\* Where a call of collect_addresses starts and ends.
ScanStart == IF pass = "far" THEN nextSyncStart ELSE scanIndex
ScanEnd == ScanStart + (IF pass = "far" THEN FarWindow ELSE RecentWindow)

\* collect_addresses asks for the balances of a window of addresses; the mutex
\* is held for deriving them only.
ScanQuery ==
    /\ running
    /\ pass \in {"far", "recent"}
    /\ syncStep = "query"
    /\ lock = "nobody"
    /\ answer' = funded \cap AddressesToQuery(ScanStart, ScanEnd)
    /\ syncStep' = "answered"
    /\ UNCHANGED <<keysVars, addresses, lock, running, requestVars, pass, scanIndex,
                   nextSyncStart, firstSyncDone, chainVars, handed, crashes>>

\* It takes the mutex again and applies the answer, which may be out of date.
ScanUpdate ==
    /\ syncStep = "answered"
    /\ lock = "nobody"
    /\ lock' = "sync"
    /\ UpdateAddresses(answer)
    /\ answer' = {}
    /\ syncStep' = "updated"
    /\ UNCHANGED <<fileVars, running, requestVars, pass, scanIndex, nextSyncStart,
                   firstSyncDone, chainVars, handed, crashes>>

ScanTruncates ==
    /\ syncStep = "updated"
    /\ Truncate
    /\ syncStep' = "saving"
    /\ UNCHANGED <<addresses, lock, running, requestVars, pass, scanIndex, answer,
                   nextSyncStart, firstSyncDone, chainVars, handed, crashes>>

ScanWrites ==
    /\ syncStep = "saving"
    /\ WriteAll
    /\ lock' = "nobody"
    /\ syncStep' = "next"
    /\ UNCHANGED <<addresses, running, requestVars, pass, scanIndex, answer,
                   nextSyncStart, firstSyncDone, chainVars, handed, crashes>>

\* Mutant: the far pass asks for the same window again and again.
FarStays ==
    /\ pass = "far"
    /\ syncStep = "next"
    /\ pass' = "recent"
    /\ scanIndex' = 0
    /\ syncStep' = "query"
    /\ UNCHANGED <<keysVars, addresses, lock, running, requestVars, answer,
                   nextSyncStart, firstSyncDone, chainVars, handed, crashes>>

\* collect_far_addresses moves on by its window, and the recent pass starts over.
FarDone ==
    /\ pass = "far"
    /\ syncStep = "next"
    /\ nextSyncStart' = Capped(nextSyncStart + FarWindow)
    /\ pass' = "recent"
    /\ scanIndex' = 0
    /\ syncStep' = "query"
    /\ UNCHANGED <<keysVars, addresses, lock, running, requestVars, answer,
                   firstSyncDone, chainVars, handed, crashes>>

\* Mutant: the recent pass stops after its first window.
OneWindow ==
    /\ pass = "recent"
    /\ syncStep = "next"
    /\ nextSyncStart' = IF scanIndex + RecentWindow > nextSyncStart
                        THEN Capped(scanIndex + RecentWindow) ELSE nextSyncStart
    /\ pass' = "refresh"
    /\ UNCHANGED <<syncStep, scanIndex>>
    /\ UNCHANGED <<keysVars, addresses, lock, running, requestVars, answer,
                   firstSyncDone, chainVars, handed, crashes>>

\* The test of collect_recent_addresses' loop: it goes on while its position
\* is within a window of the last used index.
RecentNext ==
    /\ pass = "recent"
    /\ syncStep = "next"
    /\ LET index == Capped(scanIndex + RecentWindow)
           finished == \A k \in Keychains : index >= lastUsed[k] + RecentWindow
       IN \/ /\ ~finished
             /\ scanIndex' = index
             /\ syncStep' = "query"
             /\ UNCHANGED <<pass, nextSyncStart>>
          \/ /\ finished
             /\ nextSyncStart' = IF index > nextSyncStart THEN index ELSE nextSyncStart
             /\ pass' = "refresh"
             /\ UNCHANGED <<scanIndex, syncStep>>
    /\ UNCHANGED <<keysVars, addresses, lock, running, requestVars, answer,
                   firstSyncDone, chainVars, handed, crashes>>

\* Mutant: the end of the first sync is not recorded.
RefreshForgets ==
    /\ running
    /\ pass = "refresh"
    /\ pass' = "far"
    /\ syncStep' = "query"
    /\ scanIndex' = 0
    /\ UNCHANGED <<keysVars, addresses, lock, running, requestVars, answer,
                   nextSyncStart, firstSyncDone, chainVars, handed, crashes>>

\* refresh_utxos (the subject of WalletDaemon), after which the loop starts over.
RefreshDone ==
    /\ running
    /\ pass = "refresh"
    /\ firstSyncDone' = TRUE
    /\ pass' = "far"
    /\ syncStep' = "query"
    /\ scanIndex' = 0
    /\ UNCHANGED <<keysVars, addresses, lock, running, requestVars, answer,
                   nextSyncStart, chainVars, handed, crashes>>

SyncNext == ScanQuery \/ ScanUpdate \/ ScanTruncates \/ ScanWrites
            \/ FarDone \/ RecentNext \/ RefreshDone

-----------------------------------------------------------------------------
(* The chain and the process. *)

\* Somebody pays an address that was handed out, or one used elsewhere.
Fund(a) ==
    /\ a \in Payable
    /\ a \in Elsewhere \/ handed[a] > 0
    /\ a \notin funded
    /\ funded' = funded \cup {a}
    /\ UNCHANGED <<keysVars, addresses, lock, running, requestVars, scanVars, owed,
                   drains, handed, crashes>>

Drain(a) ==
    /\ a \in funded
    /\ drains < MaxDrains
    /\ funded' = funded \ {a}
    /\ owed' = owed \ {a}
    /\ drains' = drains + 1
    /\ UNCHANGED <<keysVars, addresses, lock, running, requestVars, scanVars,
                   handed, crashes>>

\* The process ends: killed, or by a panic of the sync task (any error of the
\* sync ends it, so a failing save of the sync is a crash).
Crash ==
    /\ running
    /\ crashes < MaxCrashes
    /\ crashes' = crashes + 1
    /\ running' = FALSE
    /\ addresses' = {}
    /\ lock' = "nobody"
    /\ pc' = [c \in Clients |-> "idle"]
    /\ keychain' = [c \in Clients |-> "external"]
    /\ drawn' = [c \in Clients |-> 0]
    /\ pass' = "recent"
    /\ syncStep' = "query"
    /\ scanIndex' = 0
    /\ answer' = {}
    /\ nextSyncStart' = 0
    /\ firstSyncDone' = FALSE
    /\ UNCHANGED <<keysVars, chainVars, handed>>

Start ==
    /\ ~running
    /\ Load
    /\ running' = TRUE
    /\ owed' = funded
    /\ UNCHANGED <<addresses, lock, requestVars, scanVars, funded, drains, handed, crashes>>

\* load returns KeyFileMalformed and the daemon exits.
StartFails == ~running /\ ~intact /\ UNCHANGED vars

Next ==
    \/ RequestNext
    \/ SyncNext
    \/ \E a \in WalletAddress : Fund(a) \/ Drain(a)
    \/ Crash
    \/ Start
    \/ StartFails

Spec == Init /\ [][Next]_vars

\* The sync loop keeps going (its timer ticks, the node answers, the mutex is
\* granted in arrival order), and a request that holds the mutex finishes: it
\* waits for nothing but the file system.
Finish == \E c \in Clients : SaveTruncates(c) \/ SaveWrites(c) \/ Reply(c)
FairSpec == Spec /\ SF_vars(SyncNext) /\ WF_vars(Finish)

-----------------------------------------------------------------------------
(* Properties. *)

Issuer == INSTANCE AddressIssuer WITH Issuable <- WalletAddress

\* No address is handed out twice, whatever requests run at once, whichever
\* saves fail and wherever the process dies (address_manager.rs: new_address
\* and change_address draw, save, then hand out).
HandsOutNew == Issuer!Spec

\* What was handed out is on disk: a file that can be read back covers every
\* address handed out, so a restart resumes above all of them.
HandedIsDurable ==
    intact => \A a \in WalletAddress :
                  handed[a] > 0 => a.index <= persisted[a.keychain]

\* A wallet that calls itself synced knows every address below its scan
\* position that has had a balance since before the process started, however
\* requests and answers to the scan interleave (sync_manager.rs: is_synced).
SyncedKnowsOldCoins ==
    running /\ IsSynced => {a \in owed : a.index < nextSyncStart} \subseteq addresses

\* A funded address within a window of the last used index.
Recent(a) == a \in funded /\ \E k \in Keychains : a.index < lastUsed[k] + RecentWindow

\* Such an address becomes known, also when it was paid long after the scan
\* first went past it (sync_manager.rs: collect_recent_addresses starts over
\* at index 0 every time).
RecentCoinsAreFound ==
    \A a \in WalletAddress : Recent(a) ~> a \in addresses \/ a \notin funded \/ ~running

\* However large the gap before it, an address used before the process started
\* is found by the far passes (sync_manager.rs: collect_far_addresses).
OldCoinsAreFound ==
    \A a \in WalletAddress :
        a \in owed ~> a \in addresses \/ a \notin owed \/ ~running

\* Requests are refused while the scan is behind the counters, and not for
\* ever (sync_manager.rs: is_synced turns true again without a restart).
SyncedAgain == running ~> IsSynced \/ ~running
=============================================================================
