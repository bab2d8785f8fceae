------------------------------- MODULE Kaspad -------------------------------
(***************************************************************************)
(* The node the daemon talks to.  It is external to the repository: this   *)
(* is what the daemon relies on when it submits a transaction and when it  *)
(* asks for the UTXOs or the mempool entries of its addresses.             *)
(***************************************************************************)
EXTENDS Ledger

CONSTANTS
    Genesis,      \* transactions accepted before the daemon first starts
    Foreign,      \* transactions made by anybody else
    ReportsPool,  \* do mempool queries list transactions of the pool proper?
    MaxEvictions  \* bound on the evictions of one behaviour

ASSUME KaspadAssumption ==
    /\ Genesis \subseteq Txs
    /\ Foreign \subseteq Txs \ Genesis
    /\ ReportsPool \in BOOLEAN
    /\ MaxEvictions \in Nat

\* What consensus has accepted is a chain: it spends its own outputs, once.
ASSUME GenesisAssumption ==
    /\ SpentBy(Genesis) \subseteq CreatedBy(Genesis)
    /\ \A t, u \in Genesis : t # u => InputsOf[t] \cap InputsOf[u] = {}

VARIABLES
    accepted,   \* transactions accepted by consensus
    pool,       \* transactions in the node's mempool
    relayed,    \* transactions the network has seen
    evictions   \* number of evictions so far

kaspadVars == <<accepted, pool, relayed, evictions>>

KaspadTypeOK ==
    /\ accepted \subseteq Txs
    /\ pool \subseteq Txs
    /\ relayed \subseteq Txs
    /\ evictions \in 0..MaxEvictions

KaspadInit ==
    /\ accepted = Genesis
    /\ pool = {}
    /\ relayed = {}
    /\ evictions = 0

-----------------------------------------------------------------------------
\* The consensus UTXO set once the transactions acc are accepted.
Unspent(acc) == CreatedBy(acc) \ SpentBy(acc)

\* What a submission must satisfy with allow_orphan = false: every input is
\* an unspent output of consensus or of the pool, and the pool holds no rival.
AcceptsSubmission(t) ==
    /\ t \notin accepted \cup pool
    /\ InputsOf[t] \subseteq (Unspent(accepted) \cup CreatedBy(pool)) \ SpentBy(pool)

\* The transactions of P that stay valid once acc is accepted: the largest
\* subset whose inputs are unspent or created within it.
StillValid(P, acc) ==
    UNION {S \in SUBSET P : SpentBy(S) \subseteq Unspent(acc) \cup CreatedBy(S)}

\* A transaction enters the pool (relayed by a peer or submitted by the daemon).
EnterPool(t) ==
    /\ AcceptsSubmission(t)
    /\ pool' = pool \cup {t}
    /\ relayed' = relayed \cup {t}
    /\ UNCHANGED <<accepted, evictions>>

ForeignPayment(t) == t \in Foreign /\ EnterPool(t)

\* A block accepts t, which this node's pool may or may not hold; rivals of t
\* and their descendants leave the pool.
Mine(t) ==
    /\ t \in relayed \cup Foreign
    /\ t \notin accepted
    /\ InputsOf[t] \subseteq Unspent(accepted)
    /\ accepted' = accepted \cup {t}
    /\ pool' = StillValid(pool \ {t}, accepted')
    /\ relayed' = relayed \cup {t}
    /\ UNCHANGED evictions

\* The pool drops t (capacity, fee competition) and everything that needs it.
Evict(t) ==
    /\ t \in pool
    /\ evictions < MaxEvictions
    /\ pool' = StillValid(pool \ {t}, accepted)
    /\ evictions' = evictions + 1
    /\ UNCHANGED <<accepted, relayed>>

KaspadNext == \E t \in Txs : ForeignPayment(t) \/ Mine(t) \/ Evict(t)

-----------------------------------------------------------------------------
\* get_mempool_entries_by_addresses: the transactions a mempool query can list.
MempoolListing == IF ReportsPool THEN pool ELSE {}

\* Of the transactions P, those under `sending`, and under `receiving`, of an address a.
Sending(P, a) == {t \in P : \E o \in InputsOf[t] : AddressOf(o) = a}
Receiving(P, a) == {t \in P : \E i \in DOMAIN OutputsOf[t] : OutputsOf[t][i] = a}

\* get_utxos_by_addresses
UtxosByAddresses(As) == {o \in Unspent(accepted) : AddressOf(o) \in As}
=============================================================================
