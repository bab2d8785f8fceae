---------------------------- MODULE WalletDaemon ----------------------------
(***************************************************************************)
(* The daemon around its UTXO view: the sync loop (sync_manager.rs), the   *)
(* Send, CreateUnsignedTransactions and Broadcast handlers, and the node.  *)
(*                                                                         *)
(* The sync task and the handlers run concurrently and interleave at every *)
(* await; the utxo_manager mutex is the only thing that keeps them apart.  *)
(* A crash, or any error of the sync task, ends the process and with it    *)
(* everything but the node's state and the drafts the clients hold.        *)
(***************************************************************************)
EXTENDS Kaspad, UtxoManager

CONSTANTS
    Batches,         \* what one request may generate: the transactions, where
                     \* their change goes, and whether that address is a new one
    AllowBroadcast,  \* do clients use CreateUnsignedTransactions and Broadcast?
    NewAddresses,    \* the addresses NewAddress may derive
    AnswersGetLost,  \* may the answer to a submission fail to arrive?
    MaxCrashes       \* bound on the restarts of one behaviour

ASSUME DaemonAssumption ==
    /\ Batches \subseteq [txs : Seq(Txs), change : WalletAddresses, fresh : BOOLEAN]
    /\ \A b \in Batches : b.txs # <<>>
    /\ NewAddresses \subseteq WalletAddresses
    /\ AllowBroadcast \in BOOLEAN
    /\ AnswersGetLost \in BOOLEAN
    /\ MaxCrashes \in Nat

VARIABLES
    holder,         \* who holds the utxo_manager mutex
    queue,          \* what the handler that holds it has still to submit
    syncStep,       \* where the sync task stands
    queried,        \* the address snapshot of the refresh under way
    listed,         \* the transactions the refresh's mempool query listed
    firstSyncDone,  \* SyncManager.first_sync_done
    drafts,         \* signed batches the clients hold
    submitted,      \* history: transactions the node told the wallet it took
    panicked,       \* history: did a handler panic after its submission?
    crashes         \* number of restarts so far

daemonVars == <<holder, queue, syncStep, queried, listed, firstSyncDone,
                drafts, submitted, panicked, crashes>>
vars == <<kaspadVars, utxoVars, daemonVars>>

\* What each container of the UTXO manager, each local of a handler and each
\* message may hold; the wallet never takes another's address for its own.
TypeOK ==
    /\ KaspadTypeOK
    /\ UtxoTypeOK
    /\ holder \in {"nobody", "send", "broadcast", "sync"}
    /\ queue \in Seq(Txs)
    /\ syncStep \in {"idle", "collected", "snapshot", "listed", "replaying"}
    /\ queried \subseteq WalletAddresses
    /\ listed \subseteq Txs
    /\ firstSyncDone \in BOOLEAN
    /\ drafts \subseteq Batches
    /\ submitted \subseteq Txs
    /\ panicked \in BOOLEAN
    /\ crashes \in 0..MaxCrashes

Init ==
    /\ KaspadInit
    /\ UtxoInit
    /\ holder = "nobody"
    /\ queue = <<>>
    /\ syncStep = "idle"
    /\ queried = {}
    /\ listed = {}
    /\ firstSyncDone = FALSE
    /\ drafts = {}
    /\ submitted = {}
    /\ panicked = FALSE
    /\ crashes = 0

-----------------------------------------------------------------------------
(* The sync task. *)

\* Mutants: an address with a balance is taken without a look at the window of
\* derived addresses; what the pass found is not kept.
CollectAnyAddress ==
    /\ syncStep = "idle"
    /\ addresses' = addresses \cup {a \in Addresses : UtxosByAddresses({a}) # {}}
    /\ syncStep' = "collected"
    /\ UNCHANGED <<kaspadVars, viewVars, mempoolTransactions, replay>>
    /\ UNCHANGED <<holder, queue, queried, listed, firstSyncDone, drafts,
                   submitted, panicked, crashes>>

CollectNothing ==
    /\ syncStep = "idle"
    /\ syncStep' = "collected"
    /\ UNCHANGED <<kaspadVars, utxoVars>>
    /\ UNCHANGED <<holder, queue, queried, listed, firstSyncDone, drafts,
                   submitted, panicked, crashes>>

\* collect_far_addresses and collect_recent_addresses: every address with a
\* balance becomes known.  (Which indexes a pass reaches is the concern of the
\* address manager, not of the UTXO view.)
SyncCollect ==
    /\ syncStep = "idle"
    /\ addresses' = addresses \cup {a \in WalletAddresses : UtxosByAddresses({a}) # {}}
    /\ syncStep' = "collected"
    /\ UNCHANGED <<kaspadVars, viewVars, mempoolTransactions, replay>>
    /\ UNCHANGED <<holder, queue, queried, listed, firstSyncDone, drafts,
                   submitted, panicked, crashes>>

\* refresh_utxos copies the known addresses before it asks for the mutex.
SyncSnapshot ==
    /\ syncStep = "collected"
    /\ queried' = addresses
    /\ syncStep' = "snapshot"
    /\ UNCHANGED <<kaspadVars, utxoVars>>
    /\ UNCHANGED <<holder, queue, listed, firstSyncDone, drafts, submitted,
                   panicked, crashes>>

\* refresh_utxos takes the mutex, then asks for the mempool entries.
SyncListMempool ==
    /\ syncStep = "snapshot"
    /\ holder = "nobody"
    /\ holder' = "sync"
    /\ listed' = MempoolListing
    /\ syncStep' = "listed"
    /\ UNCHANGED <<kaspadVars, utxoVars>>
    /\ UNCHANGED <<queue, queried, firstSyncDone, drafts, submitted, panicked, crashes>>

\* refresh_utxos asks for the UTXOs and rebuilds the view from both answers.
SyncUpdate ==
    /\ syncStep = "listed"
    /\ UpdateUtxoSet(UtxosByAddresses(queried),
                     UNION {Sending(listed, a) : a \in queried},
                     [t \in Txs |-> Cardinality({a \in queried : t \in Receiving(listed, a)})])
    /\ syncStep' = "replaying"
    /\ listed' = {}
    /\ queried' = {}
    /\ UNCHANGED kaspadVars
    /\ UNCHANGED <<holder, queue, firstSyncDone, drafts, submitted, panicked, crashes>>

SyncReplay ==
    /\ syncStep = "replaying"
    /\ ReplayKeeps \/ ReplayDrops
    /\ UNCHANGED <<kaspadVars, daemonVars>>

\* The mutex is released; the sync loop may start over.
SyncDone ==
    /\ syncStep = "replaying"
    /\ replay = <<>>
    /\ holder' = "nobody"
    /\ syncStep' = "idle"
    /\ firstSyncDone' = TRUE
    /\ UNCHANGED <<kaspadVars, utxoVars>>
    /\ UNCHANGED <<queue, queried, listed, drafts, submitted, panicked, crashes>>

SyncNext == SyncCollect \/ SyncSnapshot \/ SyncListMempool \/ SyncUpdate
            \/ SyncReplay \/ SyncDone

-----------------------------------------------------------------------------
(* The handlers. *)

\* The generator can build b: each input is a selectable coin of the view or
\* an output of an earlier transaction of b (the split transactions a merge spends).
CanGenerate(b) ==
    /\ firstSyncDone
    /\ \A i \in DOMAIN b.txs : \A o \in InputsOf[b.txs[i]] :
           Selectable(o) \/ \E j \in 1..(i - 1) : o[1] = b.txs[j]

\* What is meant for one batch: each transaction spends something, no two spend
\* the same, and what one spends of another's is the change of an earlier one
\* (TransactionGenerator: SubmittableInOrder).
Sendable(b) ==
    \A i \in DOMAIN b.txs :
        /\ InputsOf[b.txs[i]] # {}
        /\ \A j \in DOMAIN b.txs :
               /\ i # j => InputsOf[b.txs[i]] \cap InputsOf[b.txs[j]] = {}
               /\ \A o \in InputsOf[b.txs[i]] :
                      o[1] = b.txs[j] => j < i /\ AddressOf(o) = b.change

\* create_unsigned_transactions_from_description.  Change goes to the first of
\* the request's from_addresses, which must be known, or to an address of its
\* own, which change_address makes known.
Generate(b) ==
    /\ holder = "nobody"
    /\ CanGenerate(b)
    /\ b.fresh \/ b.change \in addresses
    /\ addresses' = addresses \cup {b.change}
    /\ UNCHANGED <<kaspadVars, viewVars, mempoolTransactions, replay>>
    /\ UNCHANGED <<syncStep, queried, listed, firstSyncDone, submitted, panicked, crashes>>

\* Send holds the mutex from here until its last submission.
Send(b) ==
    /\ Generate(b)
    /\ holder' = "send"
    /\ queue' = b.txs
    /\ UNCHANGED drafts

\* CreateUnsignedTransactions, signed by the client afterwards.
CreateUnsigned(b) ==
    /\ AllowBroadcast
    /\ Generate(b)
    /\ drafts' = drafts \cup {b}
    /\ UNCHANGED <<holder, queue>>

\* Broadcast does not check that the wallet is synced.
Broadcast(b) ==
    /\ b \in drafts
    /\ holder = "nobody"
    /\ holder' = "broadcast"
    /\ queue' = b.txs
    /\ UNCHANGED <<kaspadVars, utxoVars>>
    /\ UNCHANGED <<syncStep, queried, listed, firstSyncDone, drafts, submitted,
                   panicked, crashes>>

\* submit_transactions, one turn of its loop: the mutex goes back after the last.
Release(rest) ==
    /\ queue' = rest
    /\ holder' = IF rest = <<>> THEN "nobody" ELSE holder

Submitted(t) ==
    /\ EnterPool(t)
    /\ submitted' = submitted \cup {t}
    /\ UNCHANGED replay
    /\ UNCHANGED <<syncStep, queried, listed, firstSyncDone, drafts, crashes>>

SubmitAccepted ==
    /\ queue # <<>>
    /\ Submitted(Head(queue))
    /\ AddMempoolTransaction(Head(queue))
    /\ Release(Tail(queue))
    /\ UNCHANGED panicked

\* The node took the transaction, add_mempool_transaction panics, the request
\* is aborted and the guard dropped.
SubmitPanics ==
    /\ queue # <<>>
    /\ Submitted(Head(queue))
    /\ AddMempoolTransactionPanics(Head(queue))
    /\ Release(<<>>)
    /\ panicked' = TRUE

\* The node rejects: the error is returned, later transactions are not submitted.
SubmitRejected ==
    /\ queue # <<>>
    /\ ~AcceptsSubmission(Head(queue))
    /\ Release(<<>>)
    /\ UNCHANGED <<kaspadVars, utxoVars>>
    /\ UNCHANGED <<syncStep, queried, listed, firstSyncDone, drafts, submitted,
                   panicked, crashes>>

\* The node took the transaction and its answer is lost: the handler sees an
\* error of the transport and treats it as a rejection.
SubmitUnanswered ==
    /\ AnswersGetLost
    /\ queue # <<>>
    /\ EnterPool(Head(queue))
    /\ Release(<<>>)
    /\ UNCHANGED utxoVars
    /\ UNCHANGED <<syncStep, queried, listed, firstSyncDone, drafts, submitted,
                   panicked, crashes>>

SubmitStep == SubmitAccepted \/ SubmitPanics \/ SubmitRejected \/ SubmitUnanswered

\* new_address needs the utxo_manager mutex of nobody.
NewAddress(a) ==
    /\ firstSyncDone
    /\ addresses' = addresses \cup {a}
    /\ UNCHANGED <<kaspadVars, viewVars, mempoolTransactions, replay>>
    /\ UNCHANGED daemonVars

HandlerNext ==
    \/ \E b \in Batches : Send(b) \/ CreateUnsigned(b) \/ Broadcast(b)
    \/ \E a \in NewAddresses : NewAddress(a)
    \/ SubmitStep

-----------------------------------------------------------------------------
\* The process dies and starts again: addresses, view and list start empty.
Crash ==
    /\ crashes < MaxCrashes
    /\ crashes' = crashes + 1
    /\ addresses' = {}
    /\ utxosSortedByAmount' = [o \in Outpoints |-> <<>>]
    /\ utxosByOutpoint' = [o \in Outpoints |-> Absent]
    /\ mempoolTransactions' = <<>>
    /\ replay' = <<>>
    /\ holder' = "nobody"
    /\ queue' = <<>>
    /\ syncStep' = "idle"
    /\ queried' = {}
    /\ listed' = {}
    /\ firstSyncDone' = FALSE
    /\ UNCHANGED <<kaspadVars, drafts, submitted, panicked>>

NodeNext == KaspadNext /\ UNCHANGED <<utxoVars, daemonVars>>

Next == SyncNext \/ HandlerNext \/ NodeNext \/ Crash

Spec == Init /\ [][Next]_vars

-----------------------------------------------------------------------------
(* Properties. *)

Members(s) == {s[i] : i \in DOMAIN s}

\* The daemon's own transactions it still has on record, in replay order.
Tracked == mempoolTransactions \o replay

\* No remove_utxo of the replay can panic, and a coin picked by outpoint is
\* one the walk over the vector would offer too: the map never holds an entry
\* the vector lacks, nor a confirmed one where the vector has only pending ones.
ViewAgrees ==
    \A o \in Outpoints :
        /\ Contains(o) => utxosSortedByAmount[o] # <<>>
        /\ utxosByOutpoint[o] = Confirmed => Selectable(o)

\* Whatever the sync learns, and in whatever order: a coin spent by a
\* transaction of this wallet that the node holds or has accepted is never
\* offered again to a handler (common.rs: the input removal that keeps the
\* wallet's view consistent across rapid back-to-back submits).
SpentStaysSpent ==
    holder # "sync" =>
        \A t \in submitted \cap (pool \cup accepted) :
            \A o \in InputsOf[t] : ~Selectable(o)

\* The selection never meets one coin twice among those it may spend, so it
\* cannot build a transaction that spends a coin twice: as long as the node has
\* evicted nothing, or if it does not list its pool.  Otherwise a refresh may list
\* a payment without the evicted transaction on its change, and both be mined before
\* the refresh asks for the UTXOs: the replay applies the second to the view that
\* has its outputs, and its change is there twice until the next refresh.
NoCoinTwice ==
    evictions = 0 \/ ~ReportsPool =>
        \A o \in Outpoints :
            Cardinality({i \in DOMAIN utxosSortedByAmount[o] :
                             utxosSortedByAmount[o][i] = Confirmed}) <= 1

\* While nobody else spends the wallet's coins and the node evicts nothing,
\* the node accepts every transaction Send builds (utxo_manager.rs: a chained
\* Send referencing an output of a tracked transaction is safe by design).
EverySendAccepted ==
    holder = "send" /\ queue # <<>> => AcceptsSubmission(Head(queue))

\* The replay meets a transaction only after those it spends from: one pass
\* over the list restores a whole chain of unconfirmed transactions.
ParentsFirst ==
    \A i, j \in DOMAIN Tracked :
        i < j => \A o \in InputsOf[Tracked[i]] : o[1] # Tracked[j]

\* The replay takes a transaction off the list only once it is settled
\* (utxo_manager.rs: either accepted or double-spent); while the node's pool
\* holds it, it stays tracked.
PendingStaysTracked ==
    [][ crashes' = crashes =>
            \A t \in Members(Tracked) : t \in pool => t \in Members(Tracked') ]_vars

\* Every transaction the node takes from this daemon is applied to the view in
\* full, whichever request it came from (common.rs: mempool-track every
\* successful submit; remove_utxo unwraps what it looks up).
SubmissionsApplied == ~panicked

\* The sync loop keeps going: its timer ticks, the node answers (an error ends
\* the process instead), and the mutex it waits for is granted in arrival
\* order.  A handler that holds the mutex gets the node's answer.
Fairness == SF_vars(SyncNext) /\ WF_vars(SubmitStep)
FairSpec == Spec /\ Fairness

\* A transaction of this wallet that consensus accepted leaves the replay list
\* in the end: the list does not grow with the daemon's lifetime.
AcceptedIsForgotten ==
    \A t \in Txs : t \in accepted ~> t \notin Members(Tracked)

\* An accepted coin of the wallet shows up in the view a refresh leaves
\* behind, or it is spent.
CoinsShowUp ==
    \A o \in Outpoints :
        AddressOf(o) \in WalletAddresses =>
            (o \in Unspent(accepted)
                ~> \/ Contains(o) /\ holder # "sync"
                   \/ o \in SpentBy(accepted \cup pool))

\* A coin the selection offers although no transaction of the node backs it:
\* its parent was double-spent or evicted.
Phantom(o) == Selectable(o) /\ o \notin Unspent(accepted) \cup CreatedBy(pool)

\* Such a coin is not offered for ever (utxo_manager.rs: every sync drops what
\* was double-spent, and a chained Send is safe by design).
PhantomsDisappear == \A o \in Outpoints : Phantom(o) ~> holder # "sync" /\ ~Phantom(o)

=============================================================================
