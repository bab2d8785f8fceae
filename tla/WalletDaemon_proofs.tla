------------------------ MODULE WalletDaemon_proofs ------------------------
(***************************************************************************)
(* Type correctness of the daemon and the agreement of the two containers  *)
(* of the UTXO view, for every set of transactions and every environment   *)
(* WalletDaemon allows (crashes, evictions, broadcasts, either node).      *)
(***************************************************************************)
EXTENDS WalletDaemon, FiniteSetTheorems, TLAPS

Entries == {Confirmed, Unconfirmed}

\* Concatenation of two sequences of entries.
LEMMA ConcatEntries ==
    ASSUME NEW p \in Seq(Entries), NEW q \in Seq(Entries)
    PROVE  /\ p \o q \in Seq(Entries)
           /\ Len(p \o q) = Len(p) + Len(q)
           /\ Len(p) > 0 => (p \o q)[1] = p[1]
OBVIOUS

\* Inserting one entry before or after the others keeps a sequence of entries.
LEMMA InsertIntoType ==
    ASSUME NEW s \in Seq(Entries), NEW first \in BOOLEAN
    PROVE  /\ InsertInto(s, first) \in Seq(Entries)
           /\ InsertInto(s, first) # <<>>
           /\ \E i \in DOMAIN InsertInto(s, first) : InsertInto(s, first)[i] = Confirmed
<1>1. CASE first
  <2>1. <<Confirmed>> \in Seq(Entries) BY DEF Entries
  <2>2. /\ <<Confirmed>> \o s \in Seq(Entries)
        /\ Len(<<Confirmed>> \o s) = 1 + Len(s)
        /\ (<<Confirmed>> \o s)[1] = Confirmed
    BY <2>1
  <2>3. 1 \in DOMAIN (<<Confirmed>> \o s) BY <2>2
  <2> QED BY <1>1, <2>2, <2>3 DEF InsertInto
<1>2. CASE ~first
  <2>1. Confirmed \in Entries BY DEF Entries
  <2>2. /\ Append(s, Confirmed) \in Seq(Entries)
        /\ Len(Append(s, Confirmed)) = Len(s) + 1
        /\ Append(s, Confirmed)[Len(s) + 1] = Confirmed
    BY <2>1
  <2>3. Len(s) + 1 \in DOMAIN Append(s, Confirmed) BY <2>2
  <2> QED BY <1>2, <2>2, <2>3 DEF InsertInto
<1> QED BY <1>1, <1>2

\* The containers after a step that removes gone and inserts new: both keep
\* their type and agree, provided the vector holds what is removed.
LEMMA ApplyAgrees ==
    ASSUME UtxoTypeOK, ViewAgrees, NEW gone, NEW new,
           \A o \in gone \cap Outpoints : utxosSortedByAmount[o] # <<>>,
           Apply(gone, new)
    PROVE  /\ utxosSortedByAmount' \in [Outpoints -> Seq(Entries)]
           /\ utxosByOutpoint' \in [Outpoints -> {Absent, Confirmed, Unconfirmed}]
           /\ ViewAgrees'
<1>1. PICK first \in BOOLEAN : utxosSortedByAmount' = SortedAfter(gone, new, first)
  BY DEF Apply
<1>2. utxosByOutpoint' = ByOutpointAfter(gone, new) BY DEF Apply
<1>3. utxosByOutpoint' \in [Outpoints -> {Absent, Confirmed, Unconfirmed}]
  BY <1>2 DEF ByOutpointAfter, UtxoTypeOK
<1>4. ASSUME NEW o \in Outpoints
      PROVE  /\ utxosSortedByAmount'[o] \in Seq(Entries)
             /\ Contains(o)' => utxosSortedByAmount'[o] # <<>>
             /\ utxosByOutpoint'[o] = Confirmed => Selectable(o)'
  <2> DEFINE left == IF o \in gone THEN Tail(utxosSortedByAmount[o])
                                   ELSE utxosSortedByAmount[o]
  <2>1. utxosSortedByAmount[o] \in Seq(Entries) BY DEF UtxoTypeOK, Entries
  <2>2. left \in Seq(Entries)
    <3>1. CASE o \in gone
      <4>1. utxosSortedByAmount[o] # <<>> BY <3>1
      <4> QED BY <2>1, <4>1, <3>1
    <3> QED BY <3>1, <2>1
  <2>3. utxosSortedByAmount'[o] = IF o \in new THEN InsertInto(left, first) ELSE left
    BY <1>1 DEF SortedAfter
  <2>4. utxosByOutpoint'[o] = IF o \in new THEN Confirmed
                              ELSE IF o \in gone THEN Absent ELSE utxosByOutpoint[o]
    BY <1>2 DEF ByOutpointAfter
  <2>5. CASE o \in new
    <3> HIDE DEF left
    <3>1. utxosSortedByAmount'[o] = InsertInto(left, first) BY <2>3, <2>5
    <3> QED BY <3>1, <2>2, InsertIntoType DEF Selectable
  <2>6. CASE o \notin new
    <3>1. CASE o \in gone
      <4>1. utxosByOutpoint'[o] = Absent BY <2>4, <2>6, <3>1
      <4>2. Absent # Confirmed BY DEF Absent, Confirmed
      <4> QED BY <2>2, <2>3, <2>6, <4>1, <4>2 DEF Contains
    <3>2. CASE o \notin gone
      <4>1. /\ utxosSortedByAmount'[o] = utxosSortedByAmount[o]
            /\ utxosByOutpoint'[o] = utxosByOutpoint[o]
        BY <2>3, <2>4, <2>6, <3>2
      <4> QED BY <4>1, <2>1 DEF ViewAgrees, Contains, Selectable
    <3> QED BY <3>1, <3>2
  <2> QED BY <2>5, <2>6
<1>5. utxosSortedByAmount' \in [Outpoints -> Seq(Entries)]
  <2>1. utxosSortedByAmount' = [o \in Outpoints |-> utxosSortedByAmount'[o]]
    BY <1>1 DEF SortedAfter
  <2> QED BY <2>1, <1>4
<1>6. ViewAgrees' BY <1>4 DEF ViewAgrees
<1> QED BY <1>3, <1>5, <1>6

\* The inductive invariant: agreement of the containers needs their types only.
Inv == TypeOK /\ ViewAgrees

\* add_mempool_transaction keeps the view well formed, and its unwraps succeed
\* as soon as the map holds the inputs.
LEMMA TrackAgrees ==
    ASSUME Inv, NEW t \in Txs, AddMempoolTransaction(t)
    PROVE  /\ addresses' = addresses
           /\ mempoolTransactions' \in Seq(Txs)
           /\ utxosSortedByAmount' \in [Outpoints -> Seq(Entries)]
           /\ utxosByOutpoint' \in [Outpoints -> {Absent, Confirmed, Unconfirmed}]
           /\ ViewAgrees'
<1>1. \A o \in InputsOf[t] \cap Outpoints : utxosSortedByAmount[o] # <<>>
  BY DEF AddMempoolTransaction, CanApply
<1>2. Apply(InputsOf[t], PaidToWallet(t)) BY DEF AddMempoolTransaction
<1>3. UtxoTypeOK /\ ViewAgrees BY DEF Inv, TypeOK
<1>4. mempoolTransactions' \in Seq(Txs)
  BY <1>3 DEF AddMempoolTransaction, UtxoTypeOK
<1> QED BY <1>1, <1>2, <1>3, <1>4, ApplyAgrees DEF AddMempoolTransaction

\* Even a panic half-way leaves a well formed view.
LEMMA PanicAgrees ==
    ASSUME Inv, NEW t \in Txs, AddMempoolTransactionPanics(t)
    PROVE  /\ addresses' = addresses
           /\ mempoolTransactions' \in Seq(Txs)
           /\ utxosSortedByAmount' \in [Outpoints -> Seq(Entries)]
           /\ utxosByOutpoint' \in [Outpoints -> {Absent, Confirmed, Unconfirmed}]
           /\ ViewAgrees'
<1>1. PICK gone \in SUBSET {o \in InputsOf[t] : Contains(o)} : Apply(gone, {})
  BY DEF AddMempoolTransactionPanics
<1>2. UtxoTypeOK /\ ViewAgrees BY DEF Inv, TypeOK
<1>3. \A o \in gone \cap Outpoints : utxosSortedByAmount[o] # <<>>
  BY <1>2 DEF ViewAgrees
<1>4. mempoolTransactions' \in Seq(Txs)
  BY <1>2 DEF AddMempoolTransactionPanics, UtxoTypeOK
<1> QED BY <1>1, <1>2, <1>3, <1>4, ApplyAgrees DEF AddMempoolTransactionPanics

\* A rebuilt view is well formed whatever the node answered.
LEMMA UpdateAgrees ==
    ASSUME Inv, NEW utxos, NEW sending, NEW receiving \in [Txs -> Nat],
           UpdateUtxoSet(utxos, sending, receiving)
    PROVE  UtxoTypeOK' /\ ViewAgrees'
<1> DEFINE confirmed(o) == o \in utxos \ SpentBy(sending)
           times(o) == IF AddressOf(o) \in addresses /\ o \notin SpentBy(sending)
                       THEN receiving[o[1]] ELSE 0
           first(o) == IF confirmed(o) THEN <<Confirmed>> ELSE <<>>
           pending(o) == [i \in 1..times(o) |-> Unconfirmed]
           kind(o) == IF times(o) > 0 THEN Unconfirmed
                      ELSE IF confirmed(o) THEN Confirmed ELSE Absent
<1>1. /\ utxosSortedByAmount' = [o \in Outpoints |-> first(o) \o pending(o)]
      /\ utxosByOutpoint' = [o \in Outpoints |-> kind(o)]
      /\ replay' = mempoolTransactions
      /\ mempoolTransactions' = <<>>
      /\ addresses' = addresses
  BY DEF UpdateUtxoSet
<1>2. ASSUME NEW o \in Outpoints
      PROVE  /\ first(o) \o pending(o) \in Seq(Entries)
             /\ kind(o) # Absent => first(o) \o pending(o) # <<>>
             /\ kind(o) = Confirmed => (first(o) \o pending(o))[1] = Confirmed
                                       /\ 1 \in DOMAIN (first(o) \o pending(o))
  <2>1. o[1] \in Txs BY DEF Outpoints
  <2>2. times(o) \in Nat BY <2>1
  <2>3. Confirmed \in Entries /\ Unconfirmed \in Entries BY DEF Entries
  <2>4. pending(o) \in Seq(Entries) /\ Len(pending(o)) = times(o)
    <3> HIDE DEF times
    <3> QED BY <2>2, <2>3
  <2>5. first(o) \in Seq(Entries) /\ Len(first(o)) = (IF confirmed(o) THEN 1 ELSE 0)
    BY <2>3
  <2>6. /\ first(o) \o pending(o) \in Seq(Entries)
        /\ Len(first(o) \o pending(o)) = Len(first(o)) + Len(pending(o))
    BY <2>4, <2>5, ConcatEntries
  <2>7. kind(o) # Absent => confirmed(o) \/ times(o) > 0 OBVIOUS
  <2>8. kind(o) = Confirmed => confirmed(o)
    BY DEF Confirmed, Unconfirmed, Absent
  <2>9. confirmed(o) => (first(o) \o pending(o))[1] = Confirmed
    <3>1. SUFFICES ASSUME confirmed(o) PROVE (first(o) \o pending(o))[1] = Confirmed
      OBVIOUS
    <3>2. first(o) = <<Confirmed>> BY <3>1
    <3>3. first(o)[1] = Confirmed /\ Len(first(o)) = 1 BY <3>2
    <3> QED BY <2>4, <2>5, <3>3, ConcatEntries
  <2> HIDE DEF first, pending, times, kind, confirmed
  <2>10. Len(first(o) \o pending(o)) = (IF confirmed(o) THEN 1 ELSE 0) + times(o)
    BY <2>4, <2>5, <2>6
  <2>11. confirmed(o) \/ times(o) > 0 => Len(first(o) \o pending(o)) > 0
    BY <2>2, <2>10
  <2> QED BY <2>6, <2>7, <2>8, <2>9, <2>11
<1> HIDE DEF first, pending, kind, times, confirmed
<1>3. utxosSortedByAmount' \in [Outpoints -> Seq(Entries)] BY <1>1, <1>2
<1>4. utxosByOutpoint' \in [Outpoints -> {Absent, Confirmed, Unconfirmed}]
  BY <1>1 DEF kind
<1>5. ViewAgrees'
  <2> SUFFICES ASSUME NEW o \in Outpoints
               PROVE  /\ Contains(o)' => utxosSortedByAmount'[o] # <<>>
                      /\ utxosByOutpoint'[o] = Confirmed => Selectable(o)'
    BY DEF ViewAgrees
  <2>1. utxosSortedByAmount'[o] = first(o) \o pending(o) /\ utxosByOutpoint'[o] = kind(o)
    BY <1>1
  <2> QED BY <1>2, <2>1 DEF Contains, Selectable
<1> QED BY <1>1, <1>3, <1>4, <1>5 DEF UtxoTypeOK, Inv, TypeOK, Entries

\* Transactions leave the pool only by eviction or acceptance.
LEMMA StillValidSubset ==
    ASSUME NEW P, NEW acc PROVE StillValid(P, acc) \subseteq P
BY DEF StillValid

\* No step of the node changes the type of its state.
LEMMA KaspadType ==
    ASSUME KaspadTypeOK, NEW t \in Txs, ForeignPayment(t) \/ EnterPool(t) \/ Mine(t) \/ Evict(t)
    PROVE  KaspadTypeOK'
<1>1. CASE ForeignPayment(t) \/ EnterPool(t)
  BY <1>1 DEF ForeignPayment, EnterPool, KaspadTypeOK
<1>2. CASE Mine(t)
  <2>1. pool' \subseteq pool \ {t} BY <1>2, StillValidSubset DEF Mine
  <2> QED BY <1>2, <2>1 DEF Mine, KaspadTypeOK
<1>3. CASE Evict(t)
  <2>1. pool' \subseteq pool \ {t} BY <1>3, StillValidSubset DEF Evict
  <2>2. evictions' \in 0..MaxEvictions
    BY <1>3, KaspadAssumption DEF Evict, KaspadTypeOK
  <2> QED BY <1>3, <2>1, <2>2 DEF Evict, KaspadTypeOK
<1> QED BY <1>1, <1>2, <1>3

\* The empty view a process starts with is well formed.
LEMMA EmptyView ==
    ASSUME NEW sorted, sorted = [o \in Outpoints |-> <<>>],
           NEW byOutpoint, byOutpoint = [o \in Outpoints |-> Absent]
    PROVE  /\ sorted \in [Outpoints -> Seq({Confirmed, Unconfirmed})]
           /\ byOutpoint \in [Outpoints -> {Absent, Confirmed, Unconfirmed}]
           /\ \A o \in Outpoints : byOutpoint[o] = Absent /\ byOutpoint[o] # Confirmed
BY DEF Absent, Confirmed

\* The process starts with a well formed state.
LEMMA InitInv == Init => Inv
<1> SUFFICES ASSUME Init PROVE Inv OBVIOUS
<1>1. KaspadTypeOK
  <2>1. 0 \in 0..MaxEvictions BY KaspadAssumption
  <2> QED BY <2>1, KaspadAssumption DEF Init, KaspadInit, KaspadTypeOK
<1>2. UtxoTypeOK /\ ViewAgrees
  BY EmptyView DEF Init, UtxoInit, UtxoTypeOK, ViewAgrees, Contains
<1>3. 0 \in 0..MaxCrashes BY DaemonAssumption
<1>4. firstSyncDone \in BOOLEAN /\ panicked \in BOOLEAN BY Zenon DEF Init
<1> QED BY <1>1, <1>2, <1>3, <1>4 DEF Init, Inv, TypeOK

\* No step of the sync task breaks the invariant.
LEMMA SyncInv == ASSUME Inv, SyncNext PROVE Inv'
<1> USE DEF Inv
<1>1. CASE SyncCollect
  BY <1>1 DEF SyncCollect, TypeOK, KaspadTypeOK, UtxoTypeOK, ViewAgrees, Contains,
     Selectable, kaspadVars, viewVars
<1>2. CASE SyncSnapshot
  BY <1>2 DEF SyncSnapshot, TypeOK, KaspadTypeOK, UtxoTypeOK, ViewAgrees, Contains,
     Selectable, kaspadVars, utxoVars
<1>3. CASE SyncListMempool
  BY <1>3 DEF SyncListMempool, MempoolListing, TypeOK, KaspadTypeOK, UtxoTypeOK,
     ViewAgrees, Contains, Selectable, kaspadVars, utxoVars
<1>4. CASE SyncUpdate
  <2> DEFINE rec == [t \in Txs |-> Cardinality({a \in queried : t \in Receiving(listed, a)})]
  <2>1. rec \in [Txs -> Nat]
    <3> SUFFICES ASSUME NEW t \in Txs
                 PROVE  Cardinality({a \in queried : t \in Receiving(listed, a)}) \in Nat
      OBVIOUS
    <3>1. {a \in queried : t \in Receiving(listed, a)} \subseteq WalletAddresses
      BY DEF TypeOK
    <3> QED BY <3>1, LedgerAssumption, FS_Subset, FS_CardinalityType
  <2>2. UpdateUtxoSet(UtxosByAddresses(queried),
                      UNION {Sending(listed, a) : a \in queried}, rec)
    BY <1>4 DEF SyncUpdate
  <2>3. UtxoTypeOK' /\ ViewAgrees' BY <2>1, <2>2, UpdateAgrees
  <2> QED BY <1>4, <2>3 DEF SyncUpdate, TypeOK, KaspadTypeOK, kaspadVars
<1>5. CASE SyncReplay
  <2>1. CASE ReplayKeeps
    <3>1. replay \in Seq(Txs) /\ replay # <<>> BY <2>1 DEF ReplayKeeps, TypeOK, UtxoTypeOK
    <3>2. Head(replay) \in Txs /\ Tail(replay) \in Seq(Txs) BY <3>1
    <3>3. AddMempoolTransaction(Head(replay)) /\ replay' = Tail(replay)
      BY <2>1 DEF ReplayKeeps
    <3>4. /\ addresses' = addresses
          /\ mempoolTransactions' \in Seq(Txs)
          /\ utxosSortedByAmount' \in [Outpoints -> Seq(Entries)]
          /\ utxosByOutpoint' \in [Outpoints -> {Absent, Confirmed, Unconfirmed}]
          /\ ViewAgrees'
      BY <3>2, <3>3, TrackAgrees
    <3> QED BY <1>5, <3>2, <3>3, <3>4
        DEF SyncReplay, TypeOK, KaspadTypeOK, UtxoTypeOK, kaspadVars, daemonVars, Entries
  <2>2. CASE ReplayDrops
    <3>1. replay \in Seq(Txs) /\ replay # <<>> BY <2>2 DEF ReplayDrops, TypeOK, UtxoTypeOK
    <3>2. Tail(replay) \in Seq(Txs) BY <3>1
    <3> QED BY <1>5, <2>2, <3>2
        DEF ReplayDrops, SyncReplay, TypeOK, KaspadTypeOK, UtxoTypeOK, ViewAgrees, Contains,
            Selectable, kaspadVars, daemonVars, viewVars
  <2> QED BY <1>5, <2>1, <2>2 DEF SyncReplay
<1>6. CASE SyncDone
  BY <1>6 DEF SyncDone, TypeOK, KaspadTypeOK, UtxoTypeOK, ViewAgrees, Contains,
     Selectable, kaspadVars, utxoVars
<1> QED BY <1>1, <1>2, <1>3, <1>4, <1>5, <1>6 DEF SyncNext

\* No step of a handler does, whether its submission is accepted, rejected or panics.
LEMMA HandlerInv == ASSUME Inv, HandlerNext PROVE Inv'
<1> USE DEF Inv
<1>1. ASSUME NEW b \in Batches, Send(b) \/ CreateUnsigned(b) \/ Broadcast(b)
      PROVE  Inv'
  <2>1. b.txs \in Seq(Txs) /\ b.change \in WalletAddresses BY DaemonAssumption
  <2>2. CASE Send(b)
    BY <2>1, <2>2 DEF Send, Generate, TypeOK, KaspadTypeOK, UtxoTypeOK, ViewAgrees,
       Contains, Selectable, kaspadVars, viewVars
  <2>3. CASE CreateUnsigned(b)
    BY <2>1, <2>3 DEF CreateUnsigned, Generate, TypeOK, KaspadTypeOK, UtxoTypeOK,
       ViewAgrees, Contains, Selectable, kaspadVars, viewVars
  <2>4. CASE Broadcast(b)
    BY <2>1, <2>4 DEF Broadcast, TypeOK, KaspadTypeOK, UtxoTypeOK, ViewAgrees,
       Contains, Selectable, kaspadVars, utxoVars
  <2> QED BY <1>1, <2>2, <2>3, <2>4
<1>2. ASSUME queue # <<>> PROVE Head(queue) \in Txs /\ Tail(queue) \in Seq(Txs)
  BY <1>2 DEF TypeOK
<1>3. ASSUME NEW rest \in Seq(Txs), Release(rest)
      PROVE  queue' \in Seq(Txs) /\ holder' \in {"nobody", "send", "broadcast", "sync"}
  BY <1>3 DEF Release, TypeOK
<1>4. ASSUME NEW t \in Txs, Submitted(t)
      PROVE  /\ KaspadTypeOK'
             /\ submitted' \subseteq Txs
             /\ syncStep' \in {"idle", "collected", "snapshot", "listed", "replaying"}
             /\ queried' \subseteq WalletAddresses
             /\ listed' \subseteq Txs
             /\ firstSyncDone' \in BOOLEAN
             /\ drafts' \subseteq Batches
             /\ crashes' \in 0..MaxCrashes
             /\ replay' \in Seq(Txs)
  <2>1. KaspadTypeOK' BY <1>4, KaspadType DEF Submitted, TypeOK
  <2> QED BY <1>4, <2>1 DEF Submitted, TypeOK, UtxoTypeOK
<1>5. CASE SubmitAccepted
  <2>1. /\ AddMempoolTransaction(Head(queue)) /\ Submitted(Head(queue))
        /\ queue # <<>> /\ Release(Tail(queue)) /\ panicked' = panicked
    BY <1>5 DEF SubmitAccepted
  <2>2. /\ addresses' = addresses
        /\ mempoolTransactions' \in Seq(Txs)
        /\ utxosSortedByAmount' \in [Outpoints -> Seq(Entries)]
        /\ utxosByOutpoint' \in [Outpoints -> {Absent, Confirmed, Unconfirmed}]
        /\ ViewAgrees'
    BY <1>2, <2>1, TrackAgrees
  <2>3. queue' \in Seq(Txs) /\ holder' \in {"nobody", "send", "broadcast", "sync"}
    BY <1>2, <1>3, <2>1
  <2>4. panicked' \in BOOLEAN BY <2>1 DEF TypeOK
  <2>5. UtxoTypeOK' BY <1>2, <1>4, <2>1, <2>2 DEF TypeOK, UtxoTypeOK, Entries
  <2>6. TypeOK' BY <1>2, <1>4, <2>1, <2>3, <2>4, <2>5 DEF TypeOK
  <2> QED BY <2>2, <2>6
<1>6. CASE SubmitPanics
  <2>1. /\ AddMempoolTransactionPanics(Head(queue)) /\ Submitted(Head(queue))
        /\ queue # <<>> /\ Release(<<>>) /\ panicked' = TRUE
    BY <1>6 DEF SubmitPanics
  <2>2. /\ addresses' = addresses
        /\ mempoolTransactions' \in Seq(Txs)
        /\ utxosSortedByAmount' \in [Outpoints -> Seq(Entries)]
        /\ utxosByOutpoint' \in [Outpoints -> {Absent, Confirmed, Unconfirmed}]
        /\ ViewAgrees'
    BY <1>2, <2>1, PanicAgrees
  <2>3. panicked' \in BOOLEAN BY <2>1, Zenon
  <2>4. <<>> \in Seq(Txs) OBVIOUS
  <2>5. queue' \in Seq(Txs) /\ holder' \in {"nobody", "send", "broadcast", "sync"}
    BY <1>3, <2>1, <2>4
  <2>6. UtxoTypeOK' BY <1>2, <1>4, <2>1, <2>2 DEF TypeOK, UtxoTypeOK, Entries
  <2>7. /\ KaspadTypeOK' /\ submitted' \subseteq Txs
        /\ syncStep' \in {"idle", "collected", "snapshot", "listed", "replaying"}
        /\ queried' \subseteq WalletAddresses
        /\ listed' \subseteq Txs
        /\ firstSyncDone' \in BOOLEAN
        /\ drafts' \subseteq Batches
        /\ crashes' \in 0..MaxCrashes
    BY <1>2, <1>4, <2>1
  <2>8. TypeOK' BY <2>3, <2>5, <2>6, <2>7, Zenon DEF TypeOK
  <2> QED BY <2>2, <2>8
<1>7. CASE SubmitRejected
  <2>1. Release(<<>>) /\ <<>> \in Seq(Txs) BY <1>7 DEF SubmitRejected
  <2>2. queue' \in Seq(Txs) /\ holder' \in {"nobody", "send", "broadcast", "sync"}
    BY <1>3, <2>1
  <2>3. KaspadTypeOK' /\ UtxoTypeOK'
    BY <1>7 DEF SubmitRejected, TypeOK, KaspadTypeOK, UtxoTypeOK, kaspadVars, utxoVars
  <2>4. ViewAgrees'
    BY <1>7 DEF SubmitRejected, ViewAgrees, Contains, Selectable, utxoVars
  <2> QED BY <1>7, <2>2, <2>3, <2>4 DEF SubmitRejected, TypeOK
<1>8. CASE SubmitUnanswered
  <2>1. EnterPool(Head(queue)) /\ Release(<<>>) /\ <<>> \in Seq(Txs) /\ queue # <<>>
    BY <1>8 DEF SubmitUnanswered
  <2>2. queue' \in Seq(Txs) /\ holder' \in {"nobody", "send", "broadcast", "sync"}
    BY <1>3, <2>1
  <2>3. KaspadTypeOK' BY <1>2, <2>1, KaspadType DEF TypeOK
  <2>4. UtxoTypeOK' /\ ViewAgrees'
    BY <1>8 DEF SubmitUnanswered, TypeOK, UtxoTypeOK, ViewAgrees, Contains, Selectable,
       utxoVars
  <2> QED BY <1>8, <2>2, <2>3, <2>4 DEF SubmitUnanswered, TypeOK
<1>9. ASSUME NEW a \in NewAddresses, NewAddress(a) PROVE Inv'
  <2>1. a \in WalletAddresses BY DaemonAssumption
  <2>2. UtxoTypeOK' /\ ViewAgrees'
    BY <1>9, <2>1 DEF NewAddress, TypeOK, UtxoTypeOK, ViewAgrees, Contains, Selectable,
       viewVars
  <2> QED BY <1>9, <2>2 DEF NewAddress, TypeOK, KaspadTypeOK, kaspadVars, daemonVars
<1> QED BY <1>1, <1>5, <1>6, <1>7, <1>8, <1>9 DEF HandlerNext, SubmitStep

\* The node touches nothing of the daemon's.
LEMMA NodeInv == ASSUME Inv, NodeNext PROVE Inv'
<1>1. PICK t \in Txs : ForeignPayment(t) \/ Mine(t) \/ Evict(t) BY DEF NodeNext, KaspadNext
<1>2. KaspadTypeOK' BY <1>1, KaspadType DEF Inv, TypeOK
<1> QED BY <1>2 DEF NodeNext, Inv, TypeOK, UtxoTypeOK, ViewAgrees, Contains, Selectable,
    utxoVars, daemonVars

\* A restart leaves an empty view, whatever it interrupts.
LEMMA CrashInv == ASSUME Inv, Crash PROVE Inv'
<1>1. /\ utxosSortedByAmount' \in [Outpoints -> Seq({Confirmed, Unconfirmed})]
      /\ utxosByOutpoint' \in [Outpoints -> {Absent, Confirmed, Unconfirmed}]
      /\ \A o \in Outpoints : utxosByOutpoint'[o] = Absent /\ utxosByOutpoint'[o] # Confirmed
  BY EmptyView DEF Crash
<1>2. UtxoTypeOK' BY <1>1 DEF Crash, UtxoTypeOK
<1>3. ViewAgrees' BY <1>1 DEF ViewAgrees, Contains
<1>4. crashes' \in 0..MaxCrashes BY DaemonAssumption DEF Crash, Inv, TypeOK
<1>5. firstSyncDone' = FALSE /\ panicked' = panicked BY DEF Crash
<1>6. firstSyncDone' \in BOOLEAN /\ panicked' \in BOOLEAN BY <1>5, Zenon DEF Inv, TypeOK
<1>7. KaspadTypeOK' BY DEF Crash, Inv, TypeOK, KaspadTypeOK, kaspadVars
<1> QED BY <1>2, <1>3, <1>4, <1>6, <1>7 DEF Crash, Inv, TypeOK

\* The invariant is inductive.
LEMMA StepInv == Inv /\ [Next]_vars => Inv'
<1> SUFFICES ASSUME Inv, [Next]_vars PROVE Inv' OBVIOUS
<1>1. CASE UNCHANGED vars
  BY <1>1 DEF Inv, TypeOK, KaspadTypeOK, UtxoTypeOK, ViewAgrees, Contains, Selectable,
     vars, kaspadVars, utxoVars, daemonVars
<1> QED BY <1>1, SyncInv, HandlerInv, NodeInv, CrashInv DEF Next

\* The state of the daemon and of the node stays well typed, whatever they do.
THEOREM TypeCorrect == Spec => []TypeOK
BY InitInv, StepInv, PTL DEF Spec, Inv

\* The map never holds an outpoint the vector lacks, so the unwraps of the
\* replay cannot panic and end the sync task; nor does it call confirmed what
\* the vector only has as pending.  This holds with every environment: after
\* crashes, evictions, double spends and broadcasts that panic half-way.
THEOREM ViewsAlwaysAgree == Spec => []ViewAgrees
BY InitInv, StepInv, PTL DEF Spec, Inv

=============================================================================
