------------------------ MODULE WalletSpends_proofs ------------------------
(***************************************************************************)
(* What the view offers, what the replay keeps, and in which order, when   *)
(* the node leaves its pool out of the mempool queries, as the call asks   *)
(* it to.  Then everything rests on the list of the wallet's own            *)
(* transactions and its replay.                                             *)
(***************************************************************************)
EXTENDS WalletDaemon_proofs

\* The daemon whose mempool queries list nothing, that is not restarted, and
\* whose requests are Send with change at addresses it already knows.  Anybody
\* else may spend from its keys, the node may evict, and answers may get lost.
ReplayOnly ==
    /\ ReportsPool = FALSE
    /\ MaxCrashes = 0
    /\ AllowBroadcast = FALSE
    /\ NewAddresses = {}
    /\ \A b \in Batches : ~b.fresh /\ Sendable(b)

-----------------------------------------------------------------------------
(* The node. *)

\* Consensus spends what it has created, once; the pool spends what consensus
\* or the pool has created.
NodeOK ==
    /\ SpentBy(pool) \subseteq Unspent(accepted) \cup CreatedBy(pool)
    /\ SpentBy(accepted) \subseteq CreatedBy(accepted)
    /\ \A t, u \in accepted : t # u => InputsOf[t] \cap InputsOf[u] = {}
    /\ pool \cap accepted = {}

LEMMA InputsAreOutpoints ==
    ASSUME NEW t \in Txs
    PROVE  InputsOf[t] \subseteq Outpoints
BY LedgerAssumption

\* What stays in the pool supports itself.
LEMMA StillValidSupported ==
    ASSUME NEW P, NEW acc
    PROVE  /\ StillValid(P, acc) \subseteq P
           /\ SpentBy(StillValid(P, acc)) \subseteq Unspent(acc) \cup CreatedBy(StillValid(P, acc))
<1>1. ASSUME NEW o \in SpentBy(StillValid(P, acc))
      PROVE  o \in Unspent(acc) \cup CreatedBy(StillValid(P, acc))
  <2>1. PICK t \in StillValid(P, acc) : o \in InputsOf[t]
    BY DEF SpentBy
  <2>2. PICK S \in SUBSET P : t \in S /\ SpentBy(S) \subseteq Unspent(acc) \cup CreatedBy(S)
    BY <2>1 DEF StillValid
  <2>3. S \subseteq StillValid(P, acc)
    BY <2>2 DEF StillValid
  <2>4. o \in Unspent(acc) \cup CreatedBy(S)
    BY <2>1, <2>2 DEF SpentBy
  <2> QED BY <2>3, <2>4 DEF CreatedBy
<1> QED BY <1>1 DEF StillValid

LEMMA InitNodeOK == KaspadInit => NodeOK
BY GenesisAssumption DEF KaspadInit, NodeOK, SpentBy

LEMMA EnterPoolNodeOK ==
    ASSUME KaspadTypeOK, NodeOK, NEW t \in Txs, EnterPool(t)
    PROVE  NodeOK'
<1>1. /\ t \notin accepted \cup pool
      /\ InputsOf[t] \subseteq Unspent(accepted) \cup CreatedBy(pool)
      /\ pool' = pool \cup {t} /\ accepted' = accepted
  BY DEF EnterPool, AcceptsSubmission
<1>2. SpentBy(pool') = SpentBy(pool) \cup InputsOf[t]
  BY <1>1 DEF SpentBy
<1>3. CreatedBy(pool) \subseteq CreatedBy(pool')
  BY <1>1 DEF CreatedBy
<1> QED BY <1>1, <1>2, <1>3 DEF NodeOK

LEMMA MineNodeOK ==
    ASSUME KaspadTypeOK, NodeOK, NEW t \in Txs, Mine(t)
    PROVE  NodeOK'
<1>1. /\ t \notin accepted /\ InputsOf[t] \subseteq Unspent(accepted)
      /\ accepted' = accepted \cup {t}
      /\ pool' = StillValid(pool \ {t}, accepted')
  BY DEF Mine
<1>2. /\ pool' \subseteq pool \ {t}
      /\ SpentBy(pool') \subseteq Unspent(accepted') \cup CreatedBy(pool')
  BY <1>1, StillValidSupported
<1>3. SpentBy(accepted') = SpentBy(accepted) \cup InputsOf[t]
  BY <1>1 DEF SpentBy
<1>4. CreatedBy(accepted) \subseteq CreatedBy(accepted')
  BY <1>1 DEF CreatedBy
<1>5. InputsOf[t] \subseteq CreatedBy(accepted) /\ InputsOf[t] \cap SpentBy(accepted) = {}
  BY <1>1 DEF Unspent
<1>6. \A u \in accepted : InputsOf[t] \cap InputsOf[u] = {}
  BY <1>5 DEF SpentBy
<1>7. \A u, v \in accepted' : u # v => InputsOf[u] \cap InputsOf[v] = {}
  BY <1>1, <1>6 DEF NodeOK
<1>8. SpentBy(accepted') \subseteq CreatedBy(accepted')
  BY <1>3, <1>4, <1>5 DEF NodeOK
<1>9. pool' \cap accepted' = {}
  BY <1>1, <1>2 DEF NodeOK
<1> QED BY <1>2, <1>7, <1>8, <1>9 DEF NodeOK

LEMMA EvictNodeOK ==
    ASSUME NodeOK, NEW t \in Txs, Evict(t)
    PROVE  NodeOK'
<1>1. pool' = StillValid(pool \ {t}, accepted) /\ accepted' = accepted
  BY DEF Evict
<1>2. /\ pool' \subseteq pool
      /\ SpentBy(pool') \subseteq Unspent(accepted) \cup CreatedBy(pool')
  BY <1>1, StillValidSupported
<1> QED BY <1>1, <1>2 DEF NodeOK

\* Transactions of D can never be accepted once B is: each spends what B has
\* spent, or an output of another of them.
Dead(B, D) ==
    /\ D \cap (pool \cup accepted) = {}
    /\ \A d \in D : \E o \in InputsOf[d] : o \in SpentBy(B) \/ o[1] \in D

LEMMA DeadStaysOut ==
    ASSUME NodeOK, NEW B \in SUBSET accepted, NEW D \in SUBSET Txs,
           SpentBy(B) \subseteq CreatedBy(B), Dead(B, D),
           NEW t \in Txs, InputsOf[t] \subseteq Unspent(accepted) \cup CreatedBy(pool)
    PROVE  t \notin D
<1> SUFFICES ASSUME t \in D PROVE FALSE
  OBVIOUS
<1>1. PICK o \in InputsOf[t] : o \in SpentBy(B) \/ o[1] \in D
  BY DEF Dead
<1>2. o[1] \in accepted \cup pool
  BY DEF Unspent, CreatedBy
<1>3. o \in SpentBy(B)
  BY <1>1, <1>2 DEF Dead
<1>4. o[1] \in accepted /\ o \in SpentBy(accepted)
  BY <1>3 DEF CreatedBy, SpentBy
<1>5. o \notin Unspent(accepted) /\ o \notin CreatedBy(pool)
  BY <1>4 DEF Unspent, CreatedBy, NodeOK
<1> QED BY <1>5

\* A step of the node, or a submission to it.
NodeStep(t) == EnterPool(t) \/ ForeignPayment(t) \/ Mine(t) \/ Evict(t)

LEMMA NodeStepFacts ==
    ASSUME KaspadTypeOK, NodeOK, NEW t \in Txs, NodeStep(t)
    PROVE  /\ NodeOK'
           /\ accepted \subseteq accepted'
           /\ \A B \in SUBSET accepted, D \in SUBSET Txs :
                  SpentBy(B) \subseteq CreatedBy(B) /\ Dead(B, D)
                      => D \cap (pool' \cup accepted') = {}
<1>1. CASE EnterPool(t) \/ ForeignPayment(t)
  <2>1. EnterPool(t)
    BY <1>1 DEF ForeignPayment
  <2>2. /\ InputsOf[t] \subseteq Unspent(accepted) \cup CreatedBy(pool)
        /\ pool' = pool \cup {t} /\ accepted' = accepted
    BY <2>1 DEF EnterPool, AcceptsSubmission
  <2>3. NodeOK'
    BY <2>1, EnterPoolNodeOK
  <2> QED BY <2>2, <2>3, DeadStaysOut DEF Dead
<1>2. CASE Mine(t)
  <2>1. /\ InputsOf[t] \subseteq Unspent(accepted) \cup CreatedBy(pool)
        /\ accepted' = accepted \cup {t}
        /\ pool' \subseteq pool
    BY <1>2, StillValidSupported DEF Mine
  <2>2. NodeOK'
    BY <1>2, MineNodeOK
  <2> QED BY <2>1, <2>2, DeadStaysOut DEF Dead
<1>3. CASE Evict(t)
  <2>1. accepted' = accepted /\ pool' \subseteq pool
    BY <1>3, StillValidSupported DEF Evict
  <2>2. NodeOK'
    BY <1>3, EvictNodeOK
  <2> QED BY <2>1, <2>2 DEF Dead
<1> QED BY <1>1, <1>2, <1>3 DEF NodeStep

-----------------------------------------------------------------------------
(* The invariant. *)

\* With nothing listed the view has one entry, a confirmed one, or none for
\* each outpoint, and both containers say the same.
View == {o \in Outpoints : utxosSortedByAmount[o] # <<>>}

ViewIsSet ==
    \A o \in Outpoints :
        \/ utxosSortedByAmount[o] = <<>> /\ utxosByOutpoint[o] = Absent
        \/ utxosSortedByAmount[o] = <<Confirmed>> /\ utxosByOutpoint[o] = Confirmed

\* Who holds the mutex, and what is empty while he does not.
Control ==
    /\ holder \in {"nobody", "send", "sync"}
    /\ drafts = {} /\ listed = {}
    /\ holder = "sync" <=> syncStep \in {"listed", "replaying"}
    /\ holder # "send" => queue = <<>>
    /\ syncStep # "replaying" => replay = <<>>
    /\ syncStep \in {"snapshot", "listed"} => queried = addresses

\* No two transactions of the sequence s spend the same.
Rivalless(s) ==
    \A i, j \in DOMAIN s : i # j => InputsOf[s[i]] \cap InputsOf[s[j]] = {}

\* What Send has still to submit spends coins of the view and change of what it
\* submits earlier.
Queue ==
    /\ Rivalless(queue)
    /\ \A i \in DOMAIN queue :
           /\ InputsOf[queue[i]] # {}
           /\ \A o \in InputsOf[queue[i]] :
                  \/ o \in View
                  \/ \E j \in 1..(i - 1) : o[1] = queue[j] /\ AddressOf(o) \in addresses

\* The transactions of s spend from B, from D, or from earlier ones of s.
Chain(s, B, D) ==
    /\ Rivalless(s)
    /\ \A i \in DOMAIN s :
           /\ InputsOf[s[i]] # {}
           /\ \A o \in InputsOf[s[i]] :
                  /\ AddressOf(o) \in addresses
                  /\ o[1] \in B \cup D \/ \E j \in 1..(i - 1) : s[j] = o[1]
                  /\ \A j \in DOMAIN s : i < j => o[1] # s[j]

\* A coin of the view is an output of B or of the list that neither spends.
Coins(B) ==
    \A o \in View :
        /\ AddressOf(o) \in addresses
        /\ o \in CreatedBy(B \cup Members(mempoolTransactions))
        /\ o \notin SpentBy(B \cup Members(mempoolTransactions))

\* What the replay has still to meet and B has not settled can be applied when
\* its turn comes, or never will be accepted.
Replayable(B, D) ==
    \A i \in DOMAIN replay :
        replay[i] \notin B =>
            \A o \in InputsOf[replay[i]] :
                \/ o \in View
                \/ o \in SpentBy(B)
                \/ o[1] \in D
                \/ \E j \in 1..(i - 1) : replay[j] = o[1] /\ replay[j] \notin B

\* B is what consensus had accepted when the view was last rebuilt, D what the
\* replay dropped as double-spent since the daemon started.
History(B, D) ==
    /\ Genesis \subseteq B
    /\ SpentBy(B) \subseteq CreatedBy(B)
    /\ Dead(B, D)
    /\ Coins(B)
    /\ Chain(Tracked, B, D)
    /\ Replayable(B, D)
    /\ submitted \subseteq B \cup Members(Tracked) \cup D

Base == TypeOK /\ ViewIsSet /\ NodeOK /\ Control /\ Queue

SpendInv == Base /\ \E B \in SUBSET accepted, D \in SUBSET Txs : History(B, D)

-----------------------------------------------------------------------------
(* Sequences. *)

LEMMA SeqFacts ==
    ASSUME NEW s \in Seq(Txs)
    PROVE  /\ DOMAIN s = 1..Len(s) /\ Len(s) \in Nat
           /\ \A i \in DOMAIN s : s[i] \in Txs
           /\ Members(s) \subseteq Txs
           /\ s = <<>> => Members(s) = {}
           /\ s # <<>> => /\ Len(s) > 0 /\ Head(s) = s[1] /\ Head(s) \in Txs
                          /\ 1 \in DOMAIN s
                          /\ Tail(s) \in Seq(Txs) /\ Len(Tail(s)) = Len(s) - 1
                          /\ DOMAIN Tail(s) = 1..(Len(s) - 1)
                          /\ \A i \in DOMAIN Tail(s) : Tail(s)[i] = s[i + 1]
BY DEF Members

LEMMA AppendFacts ==
    ASSUME NEW s \in Seq(Txs), NEW t \in Txs
    PROVE  /\ Append(s, t) \in Seq(Txs)
           /\ DOMAIN Append(s, t) = 1..(Len(s) + 1)
           /\ \A i \in DOMAIN s : Append(s, t)[i] = s[i]
           /\ Append(s, t)[Len(s) + 1] = t
           /\ Members(Append(s, t)) = Members(s) \cup {t}
<1>1. /\ Append(s, t) \in Seq(Txs)
      /\ DOMAIN Append(s, t) = 1..(Len(s) + 1)
      /\ \A i \in 1..Len(s) : Append(s, t)[i] = s[i]
      /\ Append(s, t)[Len(s) + 1] = t
      /\ DOMAIN s = 1..Len(s) /\ Len(s) \in Nat
  OBVIOUS
<1>2. 1..(Len(s) + 1) = 1..Len(s) \cup {Len(s) + 1}
  BY <1>1
<1> QED BY <1>1, <1>2 DEF Members

LEMMA ConcatFacts ==
    ASSUME NEW s \in Seq(Txs), NEW r \in Seq(Txs)
    PROVE  /\ s \o r \in Seq(Txs)
           /\ DOMAIN (s \o r) = 1..(Len(s) + Len(r))
           /\ Len(s \o r) = Len(s) + Len(r)
           /\ \A i \in DOMAIN s : (s \o r)[i] = s[i]
           /\ \A i \in DOMAIN r : (s \o r)[Len(s) + i] = r[i]
           /\ Members(s \o r) = Members(s) \cup Members(r)
<1>1. /\ s \o r \in Seq(Txs)
      /\ Len(s \o r) = Len(s) + Len(r)
      /\ DOMAIN (s \o r) = 1..(Len(s) + Len(r))
      /\ DOMAIN s = 1..Len(s) /\ Len(s) \in Nat
      /\ DOMAIN r = 1..Len(r) /\ Len(r) \in Nat
      /\ \A i \in 1..Len(s) : (s \o r)[i] = s[i]
      /\ \A i \in 1..Len(r) : (s \o r)[Len(s) + i] = r[i]
  OBVIOUS
<1>2. ASSUME NEW i \in 1..(Len(s) + Len(r)) PROVE (s \o r)[i] \in Members(s) \cup Members(r)
  <2>1. CASE i \in 1..Len(s) BY <1>1, <2>1 DEF Members
  <2>2. CASE i \notin 1..Len(s)
    <3>1. i - Len(s) \in 1..Len(r) /\ i = Len(s) + (i - Len(s)) BY <1>1, <2>2
    <3> QED BY <1>1, <3>1 DEF Members
  <2> QED BY <2>1, <2>2
<1>3. \A i \in 1..Len(r) : Len(s) + i \in 1..(Len(s) + Len(r))
  BY <1>1
<1>4. \A i \in 1..Len(s) : i \in 1..(Len(s) + Len(r))
  BY <1>1
<1>5. Members(s) \cup Members(r) \subseteq Members(s \o r)
  BY <1>1, <1>3, <1>4 DEF Members
<1> QED BY <1>1, <1>2, <1>5 DEF Members

\* One turn of the replay that keeps its transaction leaves the record as it is.
LEMMA TurnKeeps ==
    ASSUME NEW s \in Seq(Txs), NEW r \in Seq(Txs), r # <<>>
    PROVE  Append(s, Head(r)) \o Tail(r) = s \o r
OBVIOUS

\* One that drops it removes one index.
LEMMA TurnDrops ==
    ASSUME NEW s \in Seq(Txs), NEW r \in Seq(Txs), r # <<>>
    PROVE  /\ s \o Tail(r) \in Seq(Txs)
           /\ DOMAIN (s \o Tail(r)) = 1..(Len(s) + Len(r) - 1)
           /\ \A i \in 1..(Len(s) + Len(r) - 1) :
                  (s \o Tail(r))[i] = (s \o r)[IF i <= Len(s) THEN i ELSE i + 1]
           /\ (s \o r)[Len(s) + 1] = Head(r)
           /\ Members(s \o r) = Members(s \o Tail(r)) \cup {Head(r)}
<1>1. /\ Tail(r) \in Seq(Txs) /\ Len(Tail(r)) = Len(r) - 1 /\ Len(r) > 0
      /\ Len(r) \in Nat /\ Len(s) \in Nat
      /\ \A i \in DOMAIN Tail(r) : Tail(r)[i] = r[i + 1]
      /\ Head(r) = r[1]
      /\ DOMAIN Tail(r) = 1..(Len(r) - 1)
      /\ DOMAIN r = 1..Len(r)
      /\ DOMAIN s = 1..Len(s)
  BY SeqFacts
<1>2. /\ s \o Tail(r) \in Seq(Txs)
      /\ DOMAIN (s \o Tail(r)) = 1..(Len(s) + Len(r) - 1)
      /\ \A i \in 1..Len(s) : (s \o Tail(r))[i] = s[i]
      /\ \A i \in 1..(Len(r) - 1) : (s \o Tail(r))[Len(s) + i] = r[i + 1]
      /\ Members(s \o Tail(r)) = Members(s) \cup Members(Tail(r))
  <2> DEFINE rest == Tail(r)
  <2>1. rest \in Seq(Txs) /\ Len(rest) = Len(r) - 1 BY <1>1
  <2>2. \A i \in 1..(Len(r) - 1) : rest[i] = r[i + 1] BY <1>1
  <2>3. DOMAIN rest = 1..(Len(r) - 1) BY <1>1
  <2> HIDE DEF rest
  <2>4. /\ s \o rest \in Seq(Txs)
        /\ DOMAIN (s \o rest) = 1..(Len(s) + Len(rest))
        /\ \A i \in DOMAIN s : (s \o rest)[i] = s[i]
        /\ \A i \in DOMAIN rest : (s \o rest)[Len(s) + i] = rest[i]
        /\ Members(s \o rest) = Members(s) \cup Members(rest)
    BY <2>1, ConcatFacts
  <2>5. Len(s) + Len(rest) = Len(s) + Len(r) - 1 BY <1>1, <2>1
  <2>6. /\ s \o rest \in Seq(Txs)
        /\ DOMAIN (s \o rest) = 1..(Len(s) + Len(r) - 1)
        /\ \A i \in 1..Len(s) : (s \o rest)[i] = s[i]
        /\ \A i \in 1..(Len(r) - 1) : (s \o rest)[Len(s) + i] = r[i + 1]
        /\ Members(s \o rest) = Members(s) \cup Members(rest)
    BY <1>1, <2>2, <2>3, <2>4, <2>5
  <2> QED BY <2>6 DEF rest
<1>3. /\ \A i \in 1..Len(s) : (s \o r)[i] = s[i]
      /\ \A i \in 1..Len(r) : (s \o r)[Len(s) + i] = r[i]
      /\ Members(s \o r) = Members(s) \cup Members(r)
  BY <1>1, ConcatFacts
<1>4. ASSUME NEW i \in 1..(Len(s) + Len(r) - 1)
      PROVE  (s \o Tail(r))[i] = (s \o r)[IF i <= Len(s) THEN i ELSE i + 1]
  <2>1. CASE i <= Len(s) BY <1>1, <1>2, <1>3, <2>1
  <2>2. CASE ~(i <= Len(s))
    <3>1. i - Len(s) \in 1..(Len(r) - 1) /\ i = Len(s) + (i - Len(s))
      BY <1>1, <2>2
    <3>2. (i - Len(s)) + 1 \in 1..Len(r) /\ i + 1 = Len(s) + ((i - Len(s)) + 1)
      BY <1>1, <2>2
    <3>3. (s \o Tail(r))[Len(s) + (i - Len(s))] = r[(i - Len(s)) + 1]
      BY <1>2, <3>1
    <3>4. (s \o r)[Len(s) + ((i - Len(s)) + 1)] = r[(i - Len(s)) + 1]
      BY <1>3, <3>2
    <3> QED BY <2>2, <3>1, <3>2, <3>3, <3>4
  <2> QED BY <2>1, <2>2
<1>5. Members(r) = Members(Tail(r)) \cup {Head(r)}
  <2>1. ASSUME NEW i \in 1..Len(r) PROVE r[i] \in Members(Tail(r)) \cup {Head(r)}
    <3>1. CASE i = 1 BY <1>1, <3>1
    <3>2. CASE i # 1
      <4>1. i - 1 \in 1..(Len(r) - 1) /\ i = (i - 1) + 1 BY <1>1, <3>2
      <4> QED BY <1>1, <4>1 DEF Members
    <3> QED BY <3>1, <3>2
  <2>2. ASSUME NEW i \in 1..(Len(r) - 1) PROVE Tail(r)[i] \in Members(r)
    <3>1. i + 1 \in 1..Len(r) BY <1>1
    <3> QED BY <1>1, <3>1 DEF Members
  <2>3. Head(r) \in Members(r) BY <1>1 DEF Members
  <2> QED BY <1>1, <2>1, <2>2, <2>3 DEF Members
<1>6. (s \o r)[Len(s) + 1] = Head(r) BY <1>1, <1>3
<1> QED BY <1>1, <1>2, <1>3, <1>4, <1>5, <1>6

-----------------------------------------------------------------------------
(* The record of the wallet's transactions. *)

\* A transaction that spends what the record and B left unspent extends it.
LEMMA ChainAppend ==
    ASSUME NEW s \in Seq(Txs), NEW t \in Txs, NEW B, NEW D,
           Chain(s, B, D),
           InputsOf[t] # {}, t \notin B \cup D \cup Members(s),
           \A o \in InputsOf[t] :
               /\ AddressOf(o) \in addresses
               /\ o[1] \in B \cup D \cup Members(s)
               /\ o \notin SpentBy(Members(s))
    PROVE  Chain(Append(s, t), B, D)
<1> DEFINE a == Append(s, t)
           n == Len(s) + 1
<1>1. /\ DOMAIN a = 1..n /\ DOMAIN s = 1..Len(s) /\ Len(s) \in Nat
      /\ \A i \in 1..Len(s) : a[i] = s[i]
      /\ a[n] = t
      /\ \A i \in 1..n : i \in 1..Len(s) \/ i = n
      /\ \A i \in 1..Len(s) : i \in 1..n /\ i # n /\ s[i] \in Members(s)
  BY AppendFacts, SeqFacts DEF Members
<1> HIDE DEF a, n
<1>2. \A i \in 1..Len(s) : InputsOf[s[i]] \cap InputsOf[t] = {}
  BY <1>1 DEF SpentBy
<1>3. Rivalless(a)
  <2> SUFFICES ASSUME NEW i \in 1..n, NEW j \in 1..n, i # j
               PROVE  InputsOf[a[i]] \cap InputsOf[a[j]] = {}
    BY <1>1 DEF Rivalless
  <2>1. CASE i \in 1..Len(s) /\ j \in 1..Len(s)
    BY <1>1, <2>1 DEF Chain, Rivalless
  <2>2. CASE i = n
    <3>1. j \in 1..Len(s) BY <1>1, <2>2
    <3> QED BY <1>1, <1>2, <2>2, <3>1
  <2>3. CASE j = n
    <3>1. i \in 1..Len(s) BY <1>1, <2>3
    <3> QED BY <1>1, <1>2, <2>3, <3>1
  <2> QED BY <1>1, <2>1, <2>2, <2>3
<1>4. ASSUME NEW i \in 1..n, NEW o \in InputsOf[a[i]]
      PROVE  /\ AddressOf(o) \in addresses
             /\ o[1] \in B \cup D \/ \E j \in 1..(i - 1) : a[j] = o[1]
             /\ \A j \in 1..n : i < j => o[1] # a[j]
  <2>1. CASE i \in 1..Len(s)
    <3>1. /\ AddressOf(o) \in addresses
          /\ o[1] \in B \cup D \/ \E j \in 1..(i - 1) : s[j] = o[1]
          /\ \A j \in 1..Len(s) : i < j => o[1] # s[j]
      BY <1>1, <2>1, <1>4 DEF Chain
    <3>2. \A j \in 1..(i - 1) : j \in 1..Len(s) BY <1>1, <2>1
    <3>3. o[1] \in B \cup D \cup Members(s) BY <1>1, <3>1, <3>2
    <3>4. o[1] # t BY <3>3
    <3> QED BY <1>1, <3>1, <3>2, <3>4
  <2>2. CASE i = n
    <3>1. /\ AddressOf(o) \in addresses
          /\ o[1] \in B \cup D \cup Members(s)
      BY <1>1, <1>4, <2>2
    <3>2. \A j \in 1..Len(s) : j \in 1..(n - 1) BY <1>1 DEF n
    <3>3. o[1] \in Members(s) => \E j \in 1..Len(s) : a[j] = o[1]
      BY <1>1 DEF Members
    <3>4. \A j \in 1..n : ~(i < j) BY <1>1, <2>2 DEF n
    <3> QED BY <2>2, <3>1, <3>2, <3>3, <3>4
  <2> QED BY <1>1, <2>1, <2>2
<1>5. \A i \in 1..n : InputsOf[a[i]] # {}
  BY <1>1 DEF Chain
<1>6. Chain(a, B, D)
  BY <1>1, <1>3, <1>4, <1>5 DEF Chain
<1> QED BY <1>6 DEF a

\* A transaction that leaves the record becomes part of B \cup D.
LEMMA ChainDrop ==
    ASSUME NEW s \in Seq(Txs), NEW r \in Seq(Txs), r # <<>>, NEW B, NEW D, NEW E,
           Chain(s \o r, B, D), D \subseteq E, Head(r) \in B \cup E
    PROVE  Chain(s \o Tail(r), B, E)
<1> DEFINE k == Len(s) + 1
           n == Len(s) + Len(r)
           f(i) == IF i < k THEN i ELSE i + 1
           a == s \o r
           c == s \o Tail(r)
<1>1. Len(s) \in Nat /\ Len(r) \in Nat /\ Len(r) > 0
  BY SeqFacts
<1>2. \A i \in 1..(n - 1) : f(i) \in 1..n /\ (i < k => f(i) = i) /\ (f(i) # k)
  BY <1>1
<1>3. \A i, j \in 1..(n - 1) : /\ i # j => f(i) # f(j)
                               /\ i < j => f(i) < f(j)
  BY <1>1
<1>4. \A i \in 1..(n - 1) : \A j \in 1..(f(i) - 1) :
          j = k \/ \E l \in 1..(i - 1) : f(l) = j
  <2> SUFFICES ASSUME NEW i \in 1..(n - 1), NEW j \in 1..(f(i) - 1), j # k
               PROVE  \E l \in 1..(i - 1) : f(l) = j
    OBVIOUS
  <2>1. CASE j < k
    <3>1. j \in 1..(i - 1) /\ f(j) = j
      BY <1>1, <2>1
    <3> QED BY <3>1
  <2>2. CASE j > k
    <3>1. j - 1 \in 1..(i - 1) /\ f(j - 1) = j
      BY <1>1, <2>2
    <3> QED BY <3>1
  <2> QED BY <1>1, <2>1, <2>2
<1>5. /\ DOMAIN c = 1..(n - 1) /\ DOMAIN a = 1..n
      /\ \A i \in 1..(n - 1) : c[i] = a[f(i)]
      /\ a[k] = Head(r)
  <2>1. \A i \in 1..(n - 1) : i <= Len(s) <=> i < k BY <1>1
  <2> QED BY <2>1, TurnDrops, ConcatFacts
<1>8. \A i \in 1..(n - 1) : \A l \in 1..(i - 1) : l \in 1..(n - 1)
  BY <1>1
<1> HIDE DEF k, n, f, a, c
<1>6. /\ Rivalless(a)
      /\ \A i \in 1..n : InputsOf[a[i]] # {}
      /\ \A i \in 1..n : \A o \in InputsOf[a[i]] :
             /\ AddressOf(o) \in addresses
             /\ o[1] \in B \cup D \/ \E j \in 1..(i - 1) : a[j] = o[1]
             /\ \A j \in 1..n : i < j => o[1] # a[j]
  <2>1. Chain(a, B, D) BY DEF a
  <2>2. DOMAIN a = 1..n BY <1>5
  <2>3. ASSUME NEW i \in 1..n
        PROVE  /\ InputsOf[a[i]] # {}
               /\ \A o \in InputsOf[a[i]] :
                      /\ AddressOf(o) \in addresses
                      /\ o[1] \in B \cup D \/ \E j \in 1..(i - 1) : a[j] = o[1]
                      /\ \A j \in DOMAIN a : i < j => o[1] # a[j]
    <3>1. i \in DOMAIN a BY <2>2
    <3> QED BY <2>1, <3>1 DEF Chain
  <2>4. Rivalless(a) BY <2>1 DEF Chain
  <2> QED BY <2>2, <2>3, <2>4
<1>7. Rivalless(c)
  BY <1>2, <1>3, <1>5, <1>6 DEF Rivalless
<1>9. ASSUME NEW i \in 1..(n - 1), NEW o \in InputsOf[c[i]]
      PROVE  /\ AddressOf(o) \in addresses
             /\ o[1] \in B \cup E \/ \E j \in 1..(i - 1) : c[j] = o[1]
             /\ \A j \in 1..(n - 1) : i < j => o[1] # c[j]
  <2>1. c[i] = a[f(i)] /\ f(i) \in 1..n BY <1>2, <1>5
  <2>2. AddressOf(o) \in addresses BY <1>6, <1>9, <2>1
  <2>3. \A j \in 1..(n - 1) : i < j => o[1] # c[j]
    BY <1>2, <1>3, <1>5, <1>6, <1>9, <2>1
  <2>4. CASE o[1] \in B \cup D BY <2>2, <2>3, <2>4
  <2>5. CASE o[1] \notin B \cup D
    <3>1. PICK j \in 1..(f(i) - 1) : a[j] = o[1] BY <1>6, <1>9, <2>1, <2>5
    <3>2. CASE j = k BY <1>5, <2>2, <2>3, <3>1, <3>2
    <3>3. CASE j # k
      <4>1. PICK l \in 1..(i - 1) : f(l) = j BY <1>4, <3>3
      <4>2. c[l] = o[1] BY <1>5, <1>8, <3>1, <4>1
      <4> QED BY <2>2, <2>3, <4>2
    <3> QED BY <3>2, <3>3
  <2> QED BY <2>4, <2>5
<1>10. \A i \in 1..(n - 1) : InputsOf[c[i]] # {}
  BY <1>2, <1>5, <1>6
<1>11. Chain(c, B, E)
  <2>1. DOMAIN c = 1..(n - 1) BY <1>5
  <2>2. ASSUME NEW i \in DOMAIN c
        PROVE  /\ InputsOf[c[i]] # {}
               /\ \A o \in InputsOf[c[i]] :
                      /\ AddressOf(o) \in addresses
                      /\ o[1] \in B \cup E \/ \E j \in 1..(i - 1) : c[j] = o[1]
                      /\ \A j \in DOMAIN c : i < j => o[1] # c[j]
    <3>1. i \in 1..(n - 1) BY <2>1
    <3>2. InputsOf[c[i]] # {} BY <1>10, <3>1
    <3>3. \A o \in InputsOf[c[i]] :
             /\ AddressOf(o) \in addresses
             /\ o[1] \in B \cup E \/ \E j \in 1..(i - 1) : c[j] = o[1]
             /\ \A j \in 1..(n - 1) : i < j => o[1] # c[j]
      BY <1>9, <3>1
    <3> QED BY <2>1, <3>2, <3>3
  <2> QED BY <1>7, <2>2 DEF Chain
<1> QED BY <1>11 DEF c

\* More addresses, a larger B or a larger D leave a chain a chain.
LEMMA ChainGrows ==
    ASSUME NEW s, NEW B, NEW D, NEW C, NEW E, Chain(s, B, D),
           B \subseteq C, D \subseteq E, addresses \subseteq addresses'
    PROVE  Chain(s, C, E)'
BY DEF Chain, Rivalless

-----------------------------------------------------------------------------
(* The view. *)

\* Taking coins of the view out and putting others in keeps it a set.
LEMMA ApplySet ==
    ASSUME UtxoTypeOK, ViewIsSet, NEW gone, NEW new, gone \subseteq View,
           new \subseteq Outpoints, new \cap View = {}, Apply(gone, new)
    PROVE  ViewIsSet' /\ View' = (View \ gone) \cup new
<1>1. PICK first \in BOOLEAN : utxosSortedByAmount' = SortedAfter(gone, new, first)
  BY DEF Apply
<1>2. utxosByOutpoint' = ByOutpointAfter(gone, new)
  BY DEF Apply
<1>3. ASSUME NEW o \in Outpoints
      PROVE  /\ \/ utxosSortedByAmount'[o] = <<>> /\ utxosByOutpoint'[o] = Absent
                \/ utxosSortedByAmount'[o] = <<Confirmed>> /\ utxosByOutpoint'[o] = Confirmed
             /\ utxosSortedByAmount'[o] # <<>> <=> o \in (View \ gone) \cup new
  <2> DEFINE left == IF o \in gone THEN Tail(utxosSortedByAmount[o])
                                   ELSE utxosSortedByAmount[o]
  <2>1. utxosSortedByAmount'[o] = IF o \in new THEN InsertInto(left, first) ELSE left
    BY <1>1 DEF SortedAfter
  <2>2. utxosByOutpoint'[o] = IF o \in new THEN Confirmed
                              ELSE IF o \in gone THEN Absent ELSE utxosByOutpoint[o]
    BY <1>2 DEF ByOutpointAfter
  <2>3. CASE o \in new
    <3>1. o \notin gone /\ utxosSortedByAmount[o] = <<>>
      BY <2>3 DEF View, ViewIsSet
    <3>2. InsertInto(<<>>, first) = <<Confirmed>>
      BY DEF InsertInto
    <3>3. utxosSortedByAmount'[o] = <<Confirmed>> /\ utxosByOutpoint'[o] = Confirmed
      BY <2>1, <2>2, <2>3, <3>1, <3>2
    <3> QED BY <2>3, <3>3
  <2>4. CASE o \notin new /\ o \in gone
    <3>1. utxosSortedByAmount[o] = <<Confirmed>>
      BY <2>4 DEF View, ViewIsSet
    <3>2. utxosSortedByAmount'[o] = <<>> /\ utxosByOutpoint'[o] = Absent
      BY <2>1, <2>2, <2>4, <3>1
    <3> QED BY <2>4, <3>2
  <2>5. CASE o \notin new /\ o \notin gone
    <3>1. /\ utxosSortedByAmount'[o] = utxosSortedByAmount[o]
          /\ utxosByOutpoint'[o] = utxosByOutpoint[o]
      BY <2>1, <2>2, <2>5
    <3> QED BY <2>5, <3>1 DEF View, ViewIsSet
  <2> QED BY <2>3, <2>4, <2>5
<1>4. View' = {o \in Outpoints : utxosSortedByAmount'[o] # <<>>}
  BY DEF View
<1>5. View \subseteq Outpoints
  BY DEF View
<1> QED BY <1>3, <1>4, <1>5 DEF ViewIsSet

\* With nothing listed, update_utxo_set leaves exactly what the node reports.
LEMMA UpdateSet ==
    ASSUME NEW utxos \in SUBSET Outpoints, NEW sending, NEW receiving,
           sending = {}, receiving = [t \in Txs |-> 0],
           UpdateUtxoSet(utxos, sending, receiving)
    PROVE  ViewIsSet' /\ View' = utxos
<1> DEFINE confirmed(o) == o \in utxos \ SpentBy(sending)
           times(o) == IF AddressOf(o) \in addresses /\ o \notin SpentBy(sending)
                       THEN receiving[o[1]] ELSE 0
           pending(o) == [i \in 1..times(o) |-> Unconfirmed]
<1>1. /\ utxosSortedByAmount' =
             [o \in Outpoints |-> (IF confirmed(o) THEN <<Confirmed>> ELSE <<>>) \o pending(o)]
      /\ utxosByOutpoint' = [o \in Outpoints |-> IF times(o) > 0 THEN Unconfirmed
                                                 ELSE IF confirmed(o) THEN Confirmed ELSE Absent]
  BY DEF UpdateUtxoSet
<1>2. ASSUME NEW o \in Outpoints
      PROVE  /\ utxosSortedByAmount'[o] = IF o \in utxos THEN <<Confirmed>> ELSE <<>>
             /\ utxosByOutpoint'[o] = IF o \in utxos THEN Confirmed ELSE Absent
  <2>1. o[1] \in Txs BY DEF Outpoints
  <2>2. times(o) = 0 BY <2>1
  <2>3. pending(o) = <<>> BY <2>2
  <2>4. confirmed(o) <=> o \in utxos BY DEF SpentBy
  <2> HIDE DEF pending, confirmed, times
  <2>5. <<Confirmed>> \o pending(o) = <<Confirmed>> /\ <<>> \o pending(o) = <<>>
    BY <2>3
  <2>6. /\ utxosSortedByAmount'[o] = (IF confirmed(o) THEN <<Confirmed>> ELSE <<>>) \o pending(o)
        /\ utxosByOutpoint'[o] = IF times(o) > 0 THEN Unconfirmed
                                 ELSE IF confirmed(o) THEN Confirmed ELSE Absent
    BY <1>1
  <2>7. ~(times(o) > 0) BY <2>2
  <2> QED BY <2>4, <2>5, <2>6, <2>7
<1>3. View' = {o \in Outpoints : utxosSortedByAmount'[o] # <<>>}
  BY DEF View
<1> QED BY <1>2, <1>3 DEF ViewIsSet

\* A transaction that can be applied is on no list yet and B has not settled it.
LEMMA AppliedIsNew ==
    ASSUME NEW B, NEW t \in Txs, Coins(B), InputsOf[t] # {}, InputsOf[t] \subseteq View
    PROVE  t \notin B \cup Members(mempoolTransactions)
BY DEF Coins, SpentBy

\* add_mempool_transaction moves the coins of the view as it should.
LEMMA TrackMovesCoins ==
    ASSUME UtxoTypeOK, ViewIsSet, NEW B, SpentBy(B) \subseteq CreatedBy(B), Coins(B),
           NEW t \in Txs, InputsOf[t] # {}, InputsOf[t] \subseteq View,
           \A u \in Members(mempoolTransactions) : \A o \in InputsOf[u] : o[1] # t,
           AddMempoolTransaction(t)
    PROVE  /\ ViewIsSet'
           /\ View' = (View \ InputsOf[t]) \cup PaidToWallet(t)
           /\ Coins(B)'
<1> DEFINE M == Members(mempoolTransactions)
<1>1. t \notin B \cup M
  BY AppliedIsNew
<1>2. /\ Apply(InputsOf[t], PaidToWallet(t)) /\ addresses' = addresses
      /\ mempoolTransactions' = Append(mempoolTransactions, t)
  BY DEF AddMempoolTransaction
<1>3. PaidToWallet(t) \subseteq Outpoints
      /\ \A o \in PaidToWallet(t) : o[1] = t /\ AddressOf(o) \in addresses
  BY DEF PaidToWallet, CreatedBy
<1>4. PaidToWallet(t) \cap View = {}
  BY <1>1, <1>3 DEF Coins, CreatedBy
<1>5. ViewIsSet' /\ View' = (View \ InputsOf[t]) \cup PaidToWallet(t)
  BY <1>2, <1>3, <1>4, ApplySet
<1>6. Members(mempoolTransactions') = M \cup {t}
  BY <1>2, AppendFacts DEF UtxoTypeOK
<1> DEFINE N == B \cup M \cup {t}
<1>7. ASSUME NEW o \in View \ InputsOf[t]
      PROVE  AddressOf(o) \in addresses /\ o \in CreatedBy(N) /\ o \notin SpentBy(N)
  BY DEF Coins, CreatedBy, SpentBy
<1>8. ASSUME NEW o \in PaidToWallet(t)
      PROVE  AddressOf(o) \in addresses /\ o \in CreatedBy(N) /\ o \notin SpentBy(N)
  <2>1. o \in CreatedBy(N) /\ AddressOf(o) \in addresses
    BY <1>3 DEF CreatedBy
  <2>2. o \notin SpentBy(B) BY <1>1, <1>3 DEF CreatedBy
  <2>3. o \notin SpentBy(M) BY <1>3 DEF SpentBy
  <2>4. o \notin InputsOf[t] BY <1>4
  <2> QED BY <2>1, <2>2, <2>3, <2>4 DEF SpentBy
<1>9. B \cup Members(mempoolTransactions') = N
  BY <1>6
<1> HIDE DEF M, N
<1>10. Coins(B)' = \A o \in View' : /\ AddressOf(o) \in addresses'
                                    /\ o \in CreatedBy(N)
                                    /\ o \notin SpentBy(N)
  BY <1>9 DEF Coins, Members
<1> QED BY <1>2, <1>5, <1>7, <1>8, <1>10

-----------------------------------------------------------------------------
(* The steps. *)

\* A step that only learns addresses.
LEMMA HistoryStays ==
    ASSUME NEW B, NEW D, History(B, D), Dead(B, D)',
           UNCHANGED <<utxosSortedByAmount, mempoolTransactions, replay, submitted>>,
           addresses \subseteq addresses'
    PROVE  History(B, D)'
<1>1. View' = View /\ Tracked' = Tracked
  BY DEF View, Tracked
<1>2. Coins(B)'
  BY <1>1 DEF History, Coins, Members
<1>3. Chain(Tracked, B, D)'
  <2>1. Chain(Tracked, B, D)
    BY DEF History
  <2> DEFINE s == Tracked
  <2>2. s' = s
    BY <1>1
  <2> QED BY <2>1, <2>2 DEF Chain, Rivalless
<1>4. Replayable(B, D)'
  BY <1>1 DEF History, Replayable
<1>5. (submitted \subseteq B \cup Members(Tracked) \cup D)'
  BY <1>1 DEF History, Members
<1> QED BY <1>2, <1>3, <1>4, <1>5 DEF History

LEMMA ViewIsSetStays ==
    ASSUME ViewIsSet, UNCHANGED viewVars
    PROVE  ViewIsSet' /\ View' = View
BY DEF ViewIsSet, View, viewVars

LEMMA QueueStays ==
    ASSUME Queue, View' = View, queue' = queue, addresses \subseteq addresses'
    PROVE  Queue'
BY DEF Queue, Rivalless

LEMMA NoQueue == ASSUME queue = <<>> PROVE Queue
BY DEF Queue, Rivalless

\* A step of the daemon that leaves the node, the view and the lists alone.
LEMMA QuietStep ==
    ASSUME SpendInv, TypeOK', Control', Queue', addresses \subseteq addresses',
           UNCHANGED <<kaspadVars, viewVars, mempoolTransactions, replay, submitted>>
    PROVE  SpendInv'
<1>1. PICK B \in SUBSET accepted, D \in SUBSET Txs : History(B, D)
  BY DEF SpendInv
<1>2. NodeOK'
  BY DEF SpendInv, Base, NodeOK, kaspadVars
<1>3. ViewIsSet'
  BY ViewIsSetStays DEF SpendInv, Base
<1>4. Dead(B, D)'
  BY <1>1 DEF History, Dead, kaspadVars
<1>5. History(B, D)'
  BY <1>1, <1>4, HistoryStays DEF viewVars
<1>6. B \in SUBSET accepted'
  BY DEF kaspadVars
<1> QED BY <1>2, <1>3, <1>5, <1>6 DEF SpendInv, Base

\* A step of the node, or a submission the handler takes for a failure.
LEMMA NodeStepKeeps ==
    ASSUME SpendInv, TypeOK', Control', Queue', UNCHANGED <<utxoVars, submitted>>,
           NEW t \in Txs, NodeStep(t)
    PROVE  SpendInv'
<1>1. PICK B \in SUBSET accepted, D \in SUBSET Txs : History(B, D)
  BY DEF SpendInv
<1>2. KaspadTypeOK /\ NodeOK
  BY DEF SpendInv, Base, TypeOK
<1>3. NodeOK' /\ accepted \subseteq accepted' /\ D \cap (pool' \cup accepted') = {}
  BY <1>1, <1>2, NodeStepFacts DEF History
<1>4. ViewIsSet'
  BY ViewIsSetStays DEF SpendInv, Base, utxoVars, viewVars
<1>5. Dead(B, D)'
  BY <1>1, <1>3 DEF History, Dead
<1>6. History(B, D)'
  BY <1>1, <1>5, HistoryStays DEF utxoVars
<1>7. B \in SUBSET accepted'
  BY <1>3
<1> QED BY <1>3, <1>4, <1>6, <1>7 DEF SpendInv, Base

LEMMA InitSpend == ASSUME ReplayOnly, Init PROVE SpendInv
<1>1. TypeOK
  BY InitInv DEF Inv
<1>2. ViewIsSet /\ View = {}
  BY DEF Init, UtxoInit, ViewIsSet, View
<1>3. NodeOK
  BY InitNodeOK DEF Init
<1>4. Control
  BY DEF Init, UtxoInit, Control
<1>5. Queue
  BY NoQueue DEF Init
<1>6. Genesis \in SUBSET accepted /\ {} \in SUBSET Txs
  BY DEF Init, KaspadInit
<1>7. Tracked = <<>> /\ Members(Tracked) = {}
  BY DEF Init, UtxoInit, Tracked, Members
<1>8. History(Genesis, {})
  <2>1. SpentBy(Genesis) \subseteq CreatedBy(Genesis) BY GenesisAssumption
  <2>2. Dead(Genesis, {}) BY DEF Dead
  <2>3. Coins(Genesis) BY <1>2 DEF Coins
  <2>4. Chain(Tracked, Genesis, {}) BY <1>7 DEF Chain, Rivalless
  <2>5. Replayable(Genesis, {}) BY DEF Init, UtxoInit, Replayable
  <2>6. submitted = {} BY DEF Init
  <2> QED BY <2>1, <2>2, <2>3, <2>4, <2>5, <2>6 DEF History
<1> QED BY <1>1, <1>2, <1>3, <1>4, <1>5, <1>6, <1>8 DEF SpendInv, Base

\* The steps of the sync task that touch neither view nor lists.
LEMMA SyncQuiet ==
    ASSUME ReplayOnly, SpendInv, TypeOK',
           SyncCollect \/ SyncSnapshot \/ SyncListMempool \/ SyncDone
    PROVE  SpendInv'
<1> USE DEF SpendInv, Base
<1>1. Control'
  <2>1. CASE SyncCollect BY <2>1 DEF SyncCollect, Control
  <2>2. CASE SyncSnapshot BY <2>2 DEF SyncSnapshot, Control, utxoVars
  <2>3. CASE SyncListMempool
    <3>1. listed' = {} BY <2>3 DEF SyncListMempool, MempoolListing, ReplayOnly
    <3> QED BY <2>3, <3>1 DEF SyncListMempool, Control, utxoVars
  <2>4. CASE SyncDone BY <2>4 DEF SyncDone, Control, utxoVars
  <2> QED BY <2>1, <2>2, <2>3, <2>4
<1>2. /\ UNCHANGED <<kaspadVars, viewVars, mempoolTransactions, replay, submitted, queue>>
      /\ addresses \subseteq addresses'
  BY DEF SyncCollect, SyncSnapshot, SyncListMempool, SyncDone, utxoVars, viewVars
<1>3. Queue'
  BY <1>2, ViewIsSetStays, QueueStays
<1> QED BY <1>1, <1>2, <1>3, QuietStep

\* The rebuilt view starts the record over: B is what is accepted now.
LEMMA SyncUpdateKeeps ==
    ASSUME ReplayOnly, SpendInv, TypeOK', SyncUpdate
    PROVE  SpendInv'
<1>1. PICK B \in SUBSET accepted, D \in SUBSET Txs : History(B, D)
  BY DEF SpendInv
<1>2. /\ listed = {} /\ queried = addresses /\ queue = <<>> /\ holder = "sync"
      /\ replay = <<>> /\ drafts = {}
  BY DEF SpendInv, Base, Control, SyncUpdate
<1> DEFINE utxos == UtxosByAddresses(queried)
           sending == UNION {Sending(listed, a) : a \in queried}
           receiving == [t \in Txs |-> Cardinality({a \in queried : t \in Receiving(listed, a)})]
<1>3. sending = {}
  BY <1>2 DEF Sending
<1>4. receiving = [t \in Txs |-> 0]
  <2>1. \A t \in Txs : {a \in queried : t \in Receiving(listed, a)} = {}
    BY <1>2 DEF Receiving
  <2> QED BY <2>1, FS_EmptySet
<1>5. utxos \in SUBSET Outpoints
  BY DEF UtxosByAddresses, Unspent, CreatedBy
<1>6. /\ UpdateUtxoSet(utxos, sending, receiving)
      /\ UNCHANGED <<kaspadVars, holder, queue, submitted, drafts>>
      /\ syncStep' = "replaying" /\ listed' = {}
  BY DEF SyncUpdate
<1> HIDE DEF utxos, sending, receiving
<1>7. ViewIsSet' /\ View' = utxos
  BY <1>3, <1>4, <1>5, <1>6, UpdateSet
<1>8. /\ replay' = mempoolTransactions /\ mempoolTransactions' = <<>>
      /\ addresses' = addresses
  BY <1>6 DEF UpdateUtxoSet
<1>9. mempoolTransactions \in Seq(Txs)
  BY DEF SpendInv, Base, TypeOK, UtxoTypeOK
<1>10. Tracked = mempoolTransactions /\ Tracked' = mempoolTransactions
  BY <1>2, <1>8, <1>9 DEF Tracked
<1>11. NodeOK /\ NodeOK' /\ accepted' = accepted /\ pool' = pool
  BY <1>6 DEF SpendInv, Base, NodeOK, kaspadVars
<1>12. Control'
  BY <1>2, <1>6, <1>8 DEF Control
<1>13. Queue'
  BY <1>2, <1>6, NoQueue DEF Queue, Rivalless
<1>14. Dead(accepted, D)'
  BY <1>1, <1>11 DEF History, Dead, SpentBy
<1>15. Coins(accepted)'
  <2>1. Members(mempoolTransactions') = {}
    BY <1>8 DEF Members
  <2>2. \A o \in utxos : /\ AddressOf(o) \in addresses
                         /\ o \in CreatedBy(accepted) /\ o \notin SpentBy(accepted)
    BY <1>2 DEF utxos, UtxosByAddresses, Unspent
  <2> QED BY <1>7, <1>8, <1>11, <2>1, <2>2 DEF Coins, Members
<1>16. Chain(mempoolTransactions, B, D)
  BY <1>1, <1>10 DEF History
<1>17. Chain(Tracked, accepted, D)'
  <2>1. Chain(mempoolTransactions, accepted, D)
    BY <1>16 DEF Chain
  <2> QED BY <1>8, <1>10, <1>11, <2>1 DEF Chain, Rivalless
<1>18. Replayable(accepted, D)'
  <2> DEFINE r == mempoolTransactions
  <2> SUFFICES ASSUME NEW i \in DOMAIN r, r[i] \notin accepted, NEW o \in InputsOf[r[i]]
               PROVE  \/ o \in utxos \/ o \in SpentBy(accepted) \/ o[1] \in D
                      \/ \E j \in 1..(i - 1) : r[j] = o[1] /\ r[j] \notin accepted
    BY <1>7, <1>8, <1>11 DEF Replayable
  <2>1. /\ AddressOf(o) \in addresses
        /\ o[1] \in B \cup D \/ \E j \in 1..(i - 1) : r[j] = o[1]
    BY <1>16 DEF Chain
  <2>2. o \in Outpoints
    <3>1. r[i] \in Txs BY <1>9, SeqFacts
    <3> QED BY <3>1, InputsAreOutpoints
  <2>3. CASE o[1] \in accepted
    BY <1>2, <2>1, <2>2, <2>3 DEF utxos, UtxosByAddresses, Unspent, CreatedBy
  <2>4. CASE o[1] \notin accepted
    BY <2>1, <2>4
  <2> QED BY <2>3, <2>4
<1>19. (submitted \subseteq accepted \cup Members(Tracked) \cup D)'
  BY <1>1, <1>6, <1>10, <1>11 DEF History, Members
<1>20. Genesis \subseteq accepted /\ SpentBy(accepted) \subseteq CreatedBy(accepted)
  BY <1>1, <1>11 DEF History, NodeOK
<1>21. \E C \in SUBSET accepted', E \in SUBSET Txs : History(C, E)'
  <2>1. accepted \in SUBSET accepted' BY <1>11
  <2> DEFINE C == accepted
  <2>2. accepted' = C BY <1>11
  <2>3. /\ Dead(C, D)' /\ Coins(C)' /\ Chain(Tracked, C, D)' /\ Replayable(C, D)'
        /\ submitted' \subseteq C \cup Members(Tracked)' \cup D
    BY <1>11, <1>14, <1>15, <1>17, <1>18, <1>19
       DEF Dead, Coins, Chain, Replayable
  <2> QED BY <1>20, <2>1, <2>2, <2>3 DEF History
<1> QED BY <1>7, <1>11, <1>12, <1>13, <1>21 DEF SpendInv, Base

\* The replay applies the head of its list and keeps it.
LEMMA ReplayKeepsKeeps ==
    ASSUME ReplayOnly, SpendInv, TypeOK', SyncReplay, ReplayKeeps
    PROVE  SpendInv' /\ Tracked' = Tracked
<1>1. PICK B \in SUBSET accepted, D \in SUBSET Txs : History(B, D)
  BY DEF SpendInv
<1> DEFINE h == Head(replay)
           mt == mempoolTransactions
<1>2. UtxoTypeOK /\ mt \in Seq(Txs) /\ replay \in Seq(Txs) /\ replay # <<>>
  BY DEF SpendInv, Base, TypeOK, UtxoTypeOK, ReplayKeeps
<1>3. /\ h \in Txs /\ h = replay[1] /\ 1 \in DOMAIN replay
      /\ AddMempoolTransaction(h) /\ replay' = Tail(replay)
      /\ mempoolTransactions' = Append(mt, h) /\ addresses' = addresses
  BY <1>2, SeqFacts DEF ReplayKeeps, AddMempoolTransaction
<1>4. Tracked' = Tracked
  BY <1>2, <1>3, TurnKeeps DEF Tracked
<1>5. /\ UNCHANGED <<accepted, pool, submitted, queue, holder, syncStep, drafts, listed>>
      /\ syncStep = "replaying"
  BY DEF SyncReplay, kaspadVars, daemonVars
<1>6. InputsOf[h] \subseteq View
  BY <1>3, InputsAreOutpoints DEF AddMempoolTransaction, CanApply, View
<1> DEFINE k == Len(mt) + 1
<1>7. /\ k \in DOMAIN Tracked /\ Tracked[k] = h
      /\ \A i \in DOMAIN mt : i \in DOMAIN Tracked /\ Tracked[i] = mt[i] /\ i < k
      /\ \A i \in DOMAIN replay : Len(mt) + i \in DOMAIN Tracked
                                  /\ Tracked[Len(mt) + i] = replay[i]
  <2>1. /\ DOMAIN Tracked = 1..(Len(mt) + Len(replay))
        /\ \A i \in DOMAIN mt : Tracked[i] = mt[i]
        /\ \A i \in DOMAIN replay : Tracked[Len(mt) + i] = replay[i]
    BY <1>2, ConcatFacts DEF Tracked
  <2>2. /\ DOMAIN mt = 1..Len(mt) /\ Len(mt) \in Nat
        /\ DOMAIN replay = 1..Len(replay) /\ Len(replay) \in Nat
    BY <1>2, SeqFacts
  <2> HIDE DEF mt
  <2> QED BY <1>3, <2>1, <2>2
<1>8. Chain(Tracked, B, D)
  BY <1>1 DEF History
<1>9. InputsOf[h] # {} /\ \A u \in Members(mt) : \A o \in InputsOf[u] : o[1] # h
  <2>1. InputsOf[h] # {} BY <1>7, <1>8 DEF Chain
  <2>2. ASSUME NEW i \in DOMAIN mt, NEW o \in InputsOf[mt[i]] PROVE o[1] # h
    BY <1>7, <1>8 DEF Chain
  <2> QED BY <2>1, <2>2 DEF Members
<1> HIDE DEF h, k
<1>10. /\ ViewIsSet' /\ View' = (View \ InputsOf[h]) \cup PaidToWallet(h)
       /\ Coins(B)'
  BY <1>1, <1>2, <1>3, <1>6, <1>9, TrackMovesCoins DEF History, SpendInv, Base
<1>11. NodeOK' /\ Dead(B, D)'
  BY <1>1, <1>5 DEF SpendInv, Base, NodeOK, History, Dead
<1>12. Control' /\ queue = <<>>
  BY <1>3, <1>5 DEF SpendInv, Base, Control
<1>13. Queue'
  BY <1>5, <1>12, NoQueue DEF Queue, Rivalless
<1>14. Chain(Tracked, B, D)'
  <2> DEFINE s == Tracked
  <2>1. s' = s BY <1>4
  <2> QED BY <1>3, <1>8, <2>1 DEF Chain, Rivalless
<1>15. Replayable(B, D)'
  <2> DEFINE r == Tail(replay)
  <2>1. /\ DOMAIN replay = 1..Len(replay) /\ Len(replay) \in Nat
        /\ DOMAIN r = 1..(Len(replay) - 1)
        /\ \A i \in DOMAIN r : r[i] = replay[i + 1]
    BY <1>2, SeqFacts
  <2> HIDE DEF r
  <2> SUFFICES ASSUME NEW i \in DOMAIN r, r[i] \notin B, NEW o \in InputsOf[r[i]]
               PROVE  \/ o \in View' \/ o \in SpentBy(B) \/ o[1] \in D
                      \/ \E j \in 1..(i - 1) : r[j] = o[1] /\ r[j] \notin B
    BY <1>3 DEF Replayable, r
  <2>2. i + 1 \in DOMAIN replay /\ r[i] = replay[i + 1] /\ i \in Nat /\ i >= 1
    BY <2>1
  <2>3. \/ o \in View \/ o \in SpentBy(B) \/ o[1] \in D
        \/ \E j \in 1..((i + 1) - 1) : replay[j] = o[1] /\ replay[j] \notin B
    BY <1>1, <2>2 DEF History, Replayable
  <2>4. Len(mt) + (i + 1) \in DOMAIN Tracked /\ Tracked[Len(mt) + (i + 1)] = r[i]
    BY <1>7, <2>2
  <2>5. AddressOf(o) \in addresses
    BY <1>8, <2>4 DEF Chain
  <2>6. CASE o \in View
    <3>1. Len(mt) + (i + 1) # k
      <4>1. Len(mt) \in Nat BY <1>2, SeqFacts
      <4> QED BY <2>2, <4>1 DEF k
    <3>2. o \notin InputsOf[h]
      BY <1>7, <1>8, <2>4, <3>1 DEF Chain, Rivalless
    <3> QED BY <1>10, <2>6, <3>2
  <2>7. CASE \E j \in 1..((i + 1) - 1) : replay[j] = o[1] /\ replay[j] \notin B
    <3>1. PICK j \in 1..((i + 1) - 1) : replay[j] = o[1] /\ replay[j] \notin B
      BY <2>7
    <3>2. CASE j = 1
      <4>1. o[1] = h BY <1>3, <3>1, <3>2
      <4>2. o \in Outpoints
        <5>1. r[i] \in Txs BY <1>2, <2>2, SeqFacts
        <5> QED BY <5>1, InputsAreOutpoints
      <4>3. o \in PaidToWallet(h)
        BY <2>5, <4>1, <4>2 DEF PaidToWallet, CreatedBy
      <4> QED BY <1>10, <4>3
    <3>3. CASE j # 1
      <4>1. j - 1 \in 1..(i - 1) /\ j - 1 \in DOMAIN r /\ (j - 1) + 1 = j
        BY <2>1, <2>2, <3>1, <3>3
      <4>2. r[j - 1] = replay[j] BY <2>1, <4>1
      <4> QED BY <3>1, <4>1, <4>2
    <3> QED BY <3>2, <3>3
  <2> QED BY <2>3, <2>6, <2>7
<1>16. (submitted \subseteq B \cup Members(Tracked) \cup D)'
  BY <1>1, <1>4, <1>5 DEF History, Members
<1>17. History(B, D)'
  BY <1>1, <1>10, <1>11, <1>14, <1>15, <1>16 DEF History
<1>18. B \in SUBSET accepted'
  BY <1>5
<1> QED BY <1>4, <1>10, <1>11, <1>12, <1>13, <1>17, <1>18 DEF SpendInv, Base

\* What the replay drops is settled: accepted when the view was rebuilt, or
\* never to be accepted.  The node's pool does not hold it.
LEMMA ReplayDropsKeeps ==
    ASSUME ReplayOnly, SpendInv, TypeOK', SyncReplay, ReplayDrops
    PROVE  /\ SpendInv'
           /\ \A t \in Members(Tracked) : t \in pool => t \in Members(Tracked')
<1>1. PICK B \in SUBSET accepted, D \in SUBSET Txs : History(B, D)
  BY DEF SpendInv
<1> DEFINE mt == mempoolTransactions
<1>2. UtxoTypeOK /\ mt \in Seq(Txs) /\ replay \in Seq(Txs) /\ replay # <<>>
  BY DEF SpendInv, Base, TypeOK, UtxoTypeOK, ReplayDrops
<1>3. Head(replay) \in Txs
  BY <1>2, SeqFacts
<1>4. PICK h \in Txs : h = Head(replay)
  BY <1>3
<1>5. D \cup {h} \in SUBSET Txs
  OBVIOUS
<1>6. PICK E \in SUBSET Txs : E = IF h \in B THEN D ELSE D \cup {h}
  BY <1>5
<1>7. /\ h \in Txs /\ h = replay[1] /\ 1 \in DOMAIN replay
      /\ replay' = Tail(replay) /\ mempoolTransactions' = mt
      /\ UNCHANGED <<addresses, utxosSortedByAmount, utxosByOutpoint>>
  BY <1>2, <1>4, SeqFacts DEF ReplayDrops, viewVars
<1>8. /\ UNCHANGED <<accepted, pool, submitted, queue, holder, syncStep, drafts, listed>>
      /\ syncStep = "replaying"
  BY DEF SyncReplay, kaspadVars, daemonVars
<1>9. ViewIsSet' /\ View' = View
  BY <1>7, ViewIsSetStays DEF SpendInv, Base, viewVars
<1>10. NodeOK /\ NodeOK'
  BY <1>8 DEF SpendInv, Base, NodeOK
<1>11. PICK p \in InputsOf[h] : p \notin View
  <2>1. PICK p \in InputsOf[h] : ~Contains(p)
    BY <1>4 DEF ReplayDrops, ContainsAll
  <2>2. p \in Outpoints BY <1>7, InputsAreOutpoints
  <2> QED BY <2>1, <2>2 DEF SpendInv, Base, ViewIsSet, Contains, View, Absent, Confirmed
<1>12. h \notin B => /\ p \in SpentBy(B) \/ p[1] \in D
                    /\ h \notin pool \cup accepted
  <2> SUFFICES ASSUME h \notin B
               PROVE  (p \in SpentBy(B) \/ p[1] \in D) /\ h \notin pool \cup accepted
    OBVIOUS
  <2>1. p \in SpentBy(B) \/ p[1] \in D
    <3>1. \/ p \in View \/ p \in SpentBy(B) \/ p[1] \in D
          \/ \E j \in 1..(1 - 1) : replay[j] = p[1] /\ replay[j] \notin B
      BY <1>1, <1>7 DEF History, Replayable
    <3> QED BY <1>11, <3>1
  <2>2. h \in accepted => p \in SpentBy(accepted) /\ p[1] \in accepted
    BY <1>10, <1>11 DEF NodeOK, SpentBy, CreatedBy
  <2>3. h \in pool => \/ p[1] \in accepted /\ p \notin SpentBy(accepted)
                      \/ p[1] \in pool
    BY <1>10, <1>11 DEF NodeOK, SpentBy, CreatedBy, Unspent
  <2>4. CASE p[1] \in D
    BY <1>1, <2>2, <2>3, <2>4 DEF History, Dead
  <2>5. CASE p \in SpentBy(B)
    <3>1. PICK u \in B : p \in InputsOf[u] BY <2>5 DEF SpentBy
    <3>2. u \in accepted /\ u # h BY <1>1, <3>1
    <3>3. h \notin accepted BY <1>10, <1>11, <3>1, <3>2 DEF NodeOK
    <3>4. p \in SpentBy(accepted) /\ p[1] \in accepted
      BY <1>10, <3>1, <3>2 DEF NodeOK, SpentBy, CreatedBy
    <3>5. h \notin pool BY <1>10, <2>3, <3>4 DEF NodeOK
    <3> QED BY <2>1, <3>3, <3>5
  <2> QED BY <2>1, <2>4, <2>5
<1>13. Dead(B, E)'
  <2>1. E \cap (pool \cup accepted) = {}
    BY <1>1, <1>12, <1>6 DEF History, Dead
  <2>2. ASSUME NEW d \in E PROVE \E o \in InputsOf[d] : o \in SpentBy(B) \/ o[1] \in E
    <3>1. CASE d \in D BY <1>1, <1>6, <3>1 DEF History, Dead
    <3>2. CASE d \notin D
      <4>1. d = h /\ h \notin B BY <1>6, <3>2
      <4>2. h \in E BY <4>1
      <4> QED BY <1>11, <1>12, <1>6, <4>1
    <3> QED BY <3>1, <3>2
  <2> QED BY <1>8, <2>1, <2>2 DEF Dead
<1>14. Coins(B)'
  BY <1>1, <1>7, <1>9 DEF History, Coins, Members
<1>15. Members(Tracked) = Members(Tracked') \cup {h}
  BY <1>2, <1>7, <1>4, TurnDrops DEF Tracked
<1>16. Chain(Tracked, B, E)'
  <2> DEFINE s == mt \o Tail(replay)
  <2>1. Chain(s, B, E)
    <3>1. Chain(mt \o replay, B, D) BY <1>1 DEF History, Tracked
    <3>2. D \subseteq E /\ Head(replay) \in B \cup E BY <1>4, <1>6
    <3> QED BY <1>2, <3>1, <3>2, ChainDrop
  <2>2. Tracked' = s BY <1>7 DEF Tracked
  <2> HIDE DEF s
  <2> QED BY <1>7, <2>1, <2>2 DEF Chain, Rivalless
<1>17. Replayable(B, E)'
  <2> DEFINE r == Tail(replay)
  <2>1. /\ DOMAIN replay = 1..Len(replay) /\ Len(replay) \in Nat
        /\ DOMAIN r = 1..(Len(replay) - 1)
        /\ \A i \in DOMAIN r : r[i] = replay[i + 1]
    BY <1>2, SeqFacts
  <2> HIDE DEF r
  <2> SUFFICES ASSUME NEW i \in DOMAIN r, r[i] \notin B, NEW o \in InputsOf[r[i]]
               PROVE  \/ o \in View \/ o \in SpentBy(B) \/ o[1] \in E
                      \/ \E j \in 1..(i - 1) : r[j] = o[1] /\ r[j] \notin B
    BY <1>7, <1>9 DEF Replayable, r
  <2>2. i + 1 \in DOMAIN replay /\ r[i] = replay[i + 1] /\ i \in Nat /\ i >= 1
    BY <2>1
  <2>3. \/ o \in View \/ o \in SpentBy(B) \/ o[1] \in D
        \/ \E j \in 1..((i + 1) - 1) : replay[j] = o[1] /\ replay[j] \notin B
    BY <1>1, <2>2 DEF History, Replayable
  <2>4. CASE \E j \in 1..((i + 1) - 1) : replay[j] = o[1] /\ replay[j] \notin B
    <3>1. PICK j \in 1..((i + 1) - 1) : replay[j] = o[1] /\ replay[j] \notin B
      BY <2>4
    <3>2. CASE j = 1
      BY <1>7, <1>6, <3>1, <3>2
    <3>3. CASE j # 1
      <4>1. j - 1 \in 1..(i - 1) /\ j - 1 \in DOMAIN r /\ (j - 1) + 1 = j
        BY <2>1, <2>2, <3>1, <3>3
      <4>2. r[j - 1] = replay[j] BY <2>1, <4>1
      <4> QED BY <3>1, <4>1, <4>2
    <3> QED BY <3>2, <3>3
  <2> QED BY <1>6, <2>3, <2>4
<1>18. submitted \subseteq B \cup Members(Tracked') \cup E
  BY <1>1, <1>15, <1>6 DEF History
<1>19. E \in SUBSET Txs /\ B \in SUBSET accepted'
  BY <1>7, <1>8
<1>20. History(B, E)'
  BY <1>1, <1>8, <1>13, <1>14, <1>16, <1>17, <1>18 DEF History, Members
<1>21. Control' /\ queue = <<>>
  BY <1>2, <1>7, <1>8 DEF SpendInv, Base, Control
<1>22. Queue'
  BY <1>8, <1>21, NoQueue DEF Queue, Rivalless
<1>23. SpendInv'
  BY <1>9, <1>10, <1>19, <1>20, <1>21, <1>22 DEF SpendInv, Base
<1>24. h \notin pool
  BY <1>1, <1>10, <1>12 DEF NodeOK
<1> QED BY <1>15, <1>23, <1>24

\* A new request leaves a queue that spends from the view only.
LEMMA SendKeeps ==
    ASSUME ReplayOnly, SpendInv, TypeOK', NEW b \in Batches, Send(b)
    PROVE  SpendInv'
<1>1. /\ holder = "nobody" /\ holder' = "send" /\ queue' = b.txs
      /\ UNCHANGED <<syncStep, queried, listed, drafts, submitted>>
      /\ UNCHANGED <<kaspadVars, viewVars, mempoolTransactions, replay>>
  BY DEF Send, Generate
<1>2. b.change \in addresses /\ addresses' = addresses /\ Sendable(b)
  BY DEF Send, Generate, ReplayOnly
<1>3. Control'
  BY <1>1, <1>2 DEF SpendInv, Base, Control
<1>4. View' = View
  BY <1>1, ViewIsSetStays DEF SpendInv, Base
<1>5. b.txs \in Seq(Txs)
  BY DaemonAssumption
<1>6. ASSUME NEW i \in DOMAIN b.txs
      PROVE  /\ InputsOf[b.txs[i]] # {}
             /\ \A o \in InputsOf[b.txs[i]] :
                    \/ o \in View
                    \/ \E j \in 1..(i - 1) : o[1] = b.txs[j] /\ AddressOf(o) \in addresses
  <2>1. InputsOf[b.txs[i]] # {}
    BY <1>2 DEF Sendable
  <2>2. ASSUME NEW o \in InputsOf[b.txs[i]]
        PROVE  \/ o \in View
               \/ \E j \in 1..(i - 1) : o[1] = b.txs[j] /\ AddressOf(o) \in addresses
    <3>1. Selectable(o) \/ \E j \in 1..(i - 1) : o[1] = b.txs[j]
      BY DEF Send, Generate, CanGenerate
    <3>2. CASE Selectable(o)
      <4>1. o \in Outpoints
        <5>1. b.txs[i] \in Txs BY <1>5, SeqFacts
        <5> QED BY <5>1, InputsAreOutpoints
      <4>2. utxosSortedByAmount[o] # <<>> BY <3>2 DEF Selectable
      <4> QED BY <4>1, <4>2 DEF View
    <3>3. CASE \E j \in 1..(i - 1) : o[1] = b.txs[j]
      <4>1. PICK j \in 1..(i - 1) : o[1] = b.txs[j] BY <3>3
      <4>2. j \in DOMAIN b.txs
        <5>1. DOMAIN b.txs = 1..Len(b.txs) /\ Len(b.txs) \in Nat BY <1>5, SeqFacts
        <5> QED BY <4>1, <5>1
      <4>3. AddressOf(o) = b.change BY <1>2, <4>1, <4>2 DEF Sendable
      <4> QED BY <1>2, <4>1, <4>3
    <3> QED BY <3>1, <3>2, <3>3
  <2> QED BY <2>1, <2>2
<1>7. Rivalless(b.txs)
  BY <1>2 DEF Sendable, Rivalless
<1>8. Queue'
  <2> DEFINE q == b.txs
  <2>1. /\ Rivalless(q)
        /\ \A i \in DOMAIN q :
             /\ InputsOf[q[i]] # {}
             /\ \A o \in InputsOf[q[i]] :
                    \/ o \in View
                    \/ \E j \in 1..(i - 1) : o[1] = q[j] /\ AddressOf(o) \in addresses
    BY <1>6, <1>7
  <2>2. queue' = q BY <1>1
  <2> HIDE DEF q
  <2> QED BY <1>2, <1>4, <2>1, <2>2 DEF Queue, Rivalless
<1> QED BY <1>1, <1>2, <1>3, <1>8, QuietStep

\* While Send holds the mutex, the head of its queue spends coins of the view.
LEMMA HeadOfQueue ==
    ASSUME SpendInv, queue # <<>>
    PROVE  /\ holder = "send" /\ replay = <<>> /\ drafts = {} /\ listed = {}
           /\ Tracked = mempoolTransactions
           /\ queue \in Seq(Txs) /\ Head(queue) \in Txs /\ Head(queue) = queue[1]
           /\ InputsOf[Head(queue)] # {} /\ InputsOf[Head(queue)] \subseteq View
           /\ CanApply(Head(queue))
<1>1. holder = "send" /\ replay = <<>> /\ drafts = {} /\ listed = {}
  BY DEF SpendInv, Base, Control
<1>2. mempoolTransactions \in Seq(Txs) /\ queue \in Seq(Txs)
  BY DEF SpendInv, Base, TypeOK, UtxoTypeOK
<1>3. Tracked = mempoolTransactions
  BY <1>1, <1>2 DEF Tracked
<1>4. Head(queue) \in Txs /\ Head(queue) = queue[1] /\ 1 \in DOMAIN queue
  BY <1>2, SeqFacts
<1>5. InputsOf[queue[1]] # {} /\ InputsOf[queue[1]] \subseteq View
  BY <1>4 DEF SpendInv, Base, Queue
<1>6. CanApply(Head(queue))
  BY <1>4, <1>5 DEF CanApply, SpendInv, Base, ViewIsSet, View, Contains, Absent, Confirmed
<1> QED BY <1>1, <1>2, <1>3, <1>4, <1>5, <1>6

\* Whatever ends a request leaves the mutex free and nothing to submit.
LEMMA ReleasedControl ==
    ASSUME SpendInv, queue # <<>>, NEW rest \in Seq(Txs), Release(rest),
           UNCHANGED <<addresses, replay, syncStep, queried, listed, drafts>>
    PROVE  Control'
BY HeadOfQueue DEF SpendInv, Base, Control, Release

\* The node takes a transaction, and the handler applies it to the view.
LEMMA SubmitAcceptedKeeps ==
    ASSUME ReplayOnly, SpendInv, TypeOK', SubmitAccepted
    PROVE  SpendInv' /\ Members(Tracked) \subseteq Members(Tracked')
<1>1. PICK B \in SUBSET accepted, D \in SUBSET Txs : History(B, D)
  BY DEF SpendInv
<1>2. queue # <<>>
  BY DEF SubmitAccepted
<1>3. PICK t \in Txs : t = Head(queue)
  BY <1>2, HeadOfQueue
<1>4. /\ t = queue[1] /\ InputsOf[t] # {} /\ InputsOf[t] \subseteq View
      /\ replay = <<>> /\ Tracked = mempoolTransactions /\ queue \in Seq(Txs)
  BY <1>2, <1>3, HeadOfQueue
<1>5. /\ EnterPool(t) /\ AddMempoolTransaction(t) /\ Release(Tail(queue))
      /\ submitted' = submitted \cup {t} /\ replay' = replay
      /\ UNCHANGED <<syncStep, queried, listed, drafts>>
  BY <1>3 DEF SubmitAccepted, Submitted
<1>6. /\ mempoolTransactions \in Seq(Txs) /\ UtxoTypeOK /\ KaspadTypeOK /\ NodeOK /\ ViewIsSet
      /\ addresses' = addresses /\ mempoolTransactions' = Append(mempoolTransactions, t)
  BY <1>5 DEF AddMempoolTransaction, SpendInv, Base, TypeOK, UtxoTypeOK
<1>7. /\ NodeOK' /\ accepted \subseteq accepted' /\ D \cap (pool' \cup accepted') = {}
      /\ t \notin D
  <2>1. NodeStep(t) BY <1>5 DEF NodeStep
  <2>2. t \in pool' BY <1>5 DEF EnterPool
  <2> QED BY <1>1, <1>6, <2>1, <2>2, NodeStepFacts DEF History
<1>8. t \notin B \cup D \cup Members(mempoolTransactions)
  BY <1>1, <1>4, <1>7, AppliedIsNew DEF History
<1>9. Chain(mempoolTransactions, B, D)
  BY <1>1, <1>4 DEF History
<1>10. \A u \in Members(mempoolTransactions) : \A o \in InputsOf[u] : o[1] # t
  <2>1. ASSUME NEW i \in DOMAIN mempoolTransactions,
               NEW o \in InputsOf[mempoolTransactions[i]]
        PROVE  o[1] # t
    <3>1. \/ o[1] \in B \cup D
          \/ \E j \in 1..(i - 1) : mempoolTransactions[j] = o[1]
      BY <1>9 DEF Chain
    <3>2. \A j \in 1..(i - 1) : j \in DOMAIN mempoolTransactions
      <4>1. /\ DOMAIN mempoolTransactions = 1..Len(mempoolTransactions)
            /\ Len(mempoolTransactions) \in Nat
        BY <1>6, SeqFacts
      <4> QED BY <4>1
    <3> QED BY <1>8, <3>1, <3>2 DEF Members
  <2> QED BY <2>1 DEF Members
<1>11. /\ ViewIsSet' /\ View' = (View \ InputsOf[t]) \cup PaidToWallet(t)
       /\ Coins(B)'
  BY <1>1, <1>4, <1>5, <1>6, <1>10, TrackMovesCoins DEF History
<1>12. Dead(B, D)'
  BY <1>1, <1>7 DEF History, Dead
<1>13. Chain(Append(mempoolTransactions, t), B, D)
  <2>1. \A o \in InputsOf[t] :
           /\ AddressOf(o) \in addresses
           /\ o[1] \in B \cup D \cup Members(mempoolTransactions)
           /\ o \notin SpentBy(Members(mempoolTransactions))
    BY <1>1, <1>4 DEF History, Coins, CreatedBy, SpentBy
  <2> QED BY <1>4, <1>6, <1>8, <1>9, <2>1, ChainAppend
<1>14. Tracked' = Append(mempoolTransactions, t)
       /\ Members(Tracked') = Members(Tracked) \cup {t}
  <2>1. /\ Append(mempoolTransactions, t) \in Seq(Txs)
        /\ Members(Append(mempoolTransactions, t)) = Members(mempoolTransactions) \cup {t}
    BY <1>6, AppendFacts
  <2>2. Tracked' = Append(mempoolTransactions, t) \o <<>>
    BY <1>4, <1>5, <1>6 DEF Tracked
  <2> QED BY <1>4, <2>1, <2>2
<1>15. Chain(Tracked, B, D)'
  <2> DEFINE s == Append(mempoolTransactions, t)
  <2>1. Chain(s, B, D) /\ Tracked' = s BY <1>13, <1>14
  <2> HIDE DEF s
  <2> QED BY <1>6, <2>1 DEF Chain, Rivalless
<1>16. Replayable(B, D)'
  BY <1>4, <1>5 DEF Replayable
<1>17. submitted' \subseteq B \cup Members(Tracked') \cup D
  BY <1>1, <1>5, <1>14 DEF History
<1>18. History(B, D)'
  BY <1>1, <1>11, <1>12, <1>15, <1>16, <1>17 DEF History, Members
<1>19. /\ Tail(queue) \in Seq(Txs) /\ queue' = Tail(queue)
       /\ DOMAIN queue = 1..Len(queue) /\ Len(queue) \in Nat
       /\ DOMAIN Tail(queue) = 1..(Len(queue) - 1)
       /\ \A i \in DOMAIN Tail(queue) : Tail(queue)[i] = queue[i + 1]
  BY <1>2, <1>4, <1>5, SeqFacts DEF Release
<1>20. Control'
  BY <1>2, <1>5, <1>6, <1>19, ReleasedControl
<1>21. Queue'
  <2> DEFINE q == Tail(queue)
  <2>1. /\ DOMAIN q = 1..(Len(queue) - 1)
        /\ \A i \in DOMAIN q : /\ q[i] = queue[i + 1]
                               /\ i \in Nat /\ i >= 1
                               /\ i + 1 \in DOMAIN queue /\ i + 1 # 1
    BY <1>19
  <2>2. queue' = q BY <1>19
  <2> HIDE DEF q
  <2>3. Queue BY DEF SpendInv, Base
  <2>4. \A i, j \in DOMAIN q : i # j => i + 1 # j + 1
    BY <2>1
  <2>5. Rivalless(q)
    BY <2>1, <2>3, <2>4 DEF Queue, Rivalless
  <2>6. ASSUME NEW i \in DOMAIN q
        PROVE  /\ InputsOf[q[i]] # {}
               /\ \A o \in InputsOf[q[i]] :
                      \/ o \in View'
                      \/ \E j \in 1..(i - 1) : o[1] = q[j] /\ AddressOf(o) \in addresses
    <3>1. InputsOf[q[i]] # {} BY <2>1, <2>3 DEF Queue
    <3>2. ASSUME NEW o \in InputsOf[q[i]]
          PROVE  \/ o \in View'
                 \/ \E j \in 1..(i - 1) : o[1] = q[j] /\ AddressOf(o) \in addresses
      <4>1. \/ o \in View
            \/ \E j \in 1..((i + 1) - 1) : o[1] = queue[j] /\ AddressOf(o) \in addresses
        BY <2>1, <2>3 DEF Queue
      <4>2. CASE o \in View
        <5>1. 1 \in DOMAIN queue BY <2>1, <1>19
        <5>2. o \notin InputsOf[t]
          BY <1>4, <2>1, <2>3, <5>1 DEF Queue, Rivalless
        <5> QED BY <1>11, <4>2, <5>2
      <4>3. CASE \E j \in 1..((i + 1) - 1) : o[1] = queue[j] /\ AddressOf(o) \in addresses
        <5>1. PICK j \in 1..((i + 1) - 1) : o[1] = queue[j] /\ AddressOf(o) \in addresses
          BY <4>3
        <5>2. CASE j = 1
          <6>1. o \in Outpoints
            <7>1. q[i] \in Txs BY <1>4, <2>1, SeqFacts
            <7> QED BY <7>1, InputsAreOutpoints
          <6>2. o \in PaidToWallet(t)
            BY <1>4, <5>1, <5>2, <6>1 DEF PaidToWallet, CreatedBy
          <6> QED BY <1>11, <6>2
        <5>3. CASE j # 1
          <6>1. j - 1 \in 1..(i - 1) /\ j - 1 \in DOMAIN q /\ (j - 1) + 1 = j
            BY <1>19, <2>1, <5>1, <5>3
          <6>2. q[j - 1] = queue[j] BY <2>1, <6>1
          <6> QED BY <5>1, <6>1, <6>2
        <5> QED BY <5>2, <5>3
      <4> QED BY <4>1, <4>2, <4>3
    <3> QED BY <3>1, <3>2
  <2> QED BY <1>6, <2>2, <2>5, <2>6 DEF Queue, Rivalless
<1>22. B \in SUBSET accepted'
  BY <1>7
<1> QED BY <1>7, <1>11, <1>14, <1>18, <1>20, <1>21, <1>22 DEF SpendInv, Base

\* A rejected submission, and one whose answer is lost, end the request.
LEMMA SubmitFailsKeeps ==
    ASSUME ReplayOnly, SpendInv, TypeOK', SubmitRejected \/ SubmitUnanswered
    PROVE  SpendInv'
<1>1. /\ queue # <<>> /\ Release(<<>>)
      /\ UNCHANGED <<utxoVars, syncStep, queried, listed, drafts, submitted>>
  BY DEF SubmitRejected, SubmitUnanswered
<1>2. /\ queue' = <<>> /\ addresses' = addresses /\ replay' = replay
      /\ <<>> \in Seq(Txs)
  BY <1>1 DEF Release, utxoVars
<1>3. Control'
  BY <1>1, <1>2, ReleasedControl
<1>4. Queue'
  BY <1>2, NoQueue DEF Queue, Rivalless
<1>5. CASE SubmitRejected
  BY <1>1, <1>3, <1>4, <1>5, QuietStep DEF SubmitRejected, utxoVars, viewVars
<1>6. CASE SubmitUnanswered
  <2>1. NodeStep(Head(queue)) /\ Head(queue) \in Txs
    BY <1>1, <1>6, HeadOfQueue DEF SubmitUnanswered, NodeStep
  <2> QED BY <1>1, <1>3, <1>4, <2>1, NodeStepKeeps
<1> QED BY <1>5, <1>6

\* The invariant is inductive, and no step forgets what the pool holds.
LEMMA StepSpend ==
    ASSUME ReplayOnly, SpendInv, [Next]_vars
    PROVE  /\ SpendInv'
           /\ \A t \in Members(Tracked) : t \in pool => t \in Members(Tracked')
<1>1. TypeOK' /\ ViewAgrees'
  <2>1. ViewAgrees
    <3> SUFFICES ASSUME NEW o \in Outpoints
                 PROVE  /\ Contains(o) => utxosSortedByAmount[o] # <<>>
                        /\ utxosByOutpoint[o] = Confirmed => Selectable(o)
      BY DEF ViewAgrees
    <3>1. CASE utxosSortedByAmount[o] = <<>> /\ utxosByOutpoint[o] = Absent
      BY <3>1 DEF Contains, Absent, Confirmed
    <3>2. CASE utxosSortedByAmount[o] = <<Confirmed>> /\ utxosByOutpoint[o] = Confirmed
      <4>1. 1 \in DOMAIN utxosSortedByAmount[o] /\ utxosSortedByAmount[o][1] = Confirmed
        BY <3>2
      <4>2. utxosSortedByAmount[o] # <<>> BY <3>2
      <4> QED BY <4>1, <4>2 DEF Selectable
    <3> QED BY <3>1, <3>2 DEF SpendInv, Base, ViewIsSet
  <2>2. Inv
    BY <2>1 DEF SpendInv, Base, Inv
  <2> QED BY <2>2, StepInv DEF Inv
<1>2. ASSUME UNCHANGED <<mempoolTransactions, replay>>
      PROVE  \A t \in Members(Tracked) : t \in Members(Tracked')
  <2>1. Tracked' = Tracked BY <1>2 DEF Tracked
  <2> QED BY <2>1
<1>3. CASE SyncCollect \/ SyncSnapshot \/ SyncListMempool \/ SyncDone
  <2>1. SpendInv' BY <1>1, <1>3, SyncQuiet
  <2> QED BY <1>2, <1>3, <2>1
      DEF SyncCollect, SyncSnapshot, SyncListMempool, SyncDone, utxoVars
<1>4. CASE SyncUpdate
  <2>1. SpendInv' BY <1>1, <1>4, SyncUpdateKeeps
  <2>2. replay = <<>> /\ mempoolTransactions \in Seq(Txs)
    BY <1>4 DEF SyncUpdate, SpendInv, Base, Control, TypeOK, UtxoTypeOK
  <2>3. replay' = mempoolTransactions /\ mempoolTransactions' = <<>>
    BY <1>4 DEF SyncUpdate, UpdateUtxoSet
  <2>4. Tracked' = Tracked BY <2>2, <2>3 DEF Tracked
  <2> QED BY <2>1, <2>4
<1>5. CASE SyncReplay
  <2>1. CASE ReplayKeeps
    <3>1. SpendInv' /\ Tracked' = Tracked BY <1>1, <1>5, <2>1, ReplayKeepsKeeps
    <3> QED BY <3>1
  <2>2. CASE ReplayDrops
    BY <1>1, <1>5, <2>2, ReplayDropsKeeps
  <2> QED BY <1>5, <2>1, <2>2 DEF SyncReplay
<1>6. ASSUME NEW b \in Batches, Send(b)
      PROVE  SpendInv' /\ UNCHANGED <<mempoolTransactions, replay>>
  BY <1>1, <1>6, SendKeeps DEF Send, Generate
<1>7. ASSUME NEW b \in Batches PROVE ~CreateUnsigned(b) /\ ~Broadcast(b)
  BY DEF CreateUnsigned, Broadcast, ReplayOnly, SpendInv, Base, Control
<1>8. ASSUME NEW a \in NewAddresses PROVE FALSE
  BY DEF ReplayOnly
<1>9. CASE SubmitAccepted
  <2>1. SpendInv' /\ Members(Tracked) \subseteq Members(Tracked')
    BY <1>1, <1>9, SubmitAcceptedKeeps
  <2> QED BY <2>1
<1>10. CASE SubmitPanics
  <2>1. queue # <<>> /\ ~CanApply(Head(queue))
    BY <1>10 DEF SubmitPanics, AddMempoolTransactionPanics
  <2> QED BY <2>1, HeadOfQueue
<1>11. CASE SubmitRejected \/ SubmitUnanswered
  <2>1. SpendInv' BY <1>1, <1>11, SubmitFailsKeeps
  <2> QED BY <1>2, <1>11, <2>1 DEF SubmitRejected, SubmitUnanswered, utxoVars
<1>12. CASE NodeNext
  <2>1. PICK t \in Txs : NodeStep(t) BY <1>12 DEF NodeNext, KaspadNext, NodeStep
  <2>2. UNCHANGED <<utxoVars, daemonVars>> BY <1>12 DEF NodeNext
  <2>3. Control' BY <2>2 DEF SpendInv, Base, Control, utxoVars, daemonVars
  <2>4. Queue'
    <3>1. UNCHANGED viewVars BY <2>2 DEF utxoVars, viewVars
    <3>2. View' = View BY <3>1, ViewIsSetStays DEF SpendInv, Base
    <3> QED BY <2>2, <3>2, QueueStays DEF SpendInv, Base, utxoVars, daemonVars
  <2>5. SpendInv' BY <1>1, <2>1, <2>2, <2>3, <2>4, NodeStepKeeps DEF daemonVars
  <2> QED BY <1>2, <2>2, <2>5 DEF utxoVars
<1>13. ~Crash
  BY DEF Crash, ReplayOnly, SpendInv, Base, TypeOK
<1>14. CASE UNCHANGED vars
  <2>1. UNCHANGED <<kaspadVars, utxoVars, daemonVars>> BY <1>14 DEF vars
  <2>2. Control' BY <2>1 DEF SpendInv, Base, Control, utxoVars, daemonVars
  <2>3. UNCHANGED viewVars BY <2>1 DEF utxoVars, viewVars
  <2>4. View' = View BY <2>3, ViewIsSetStays DEF SpendInv, Base
  <2>5. Queue'
    BY <2>1, <2>4, QueueStays DEF SpendInv, Base, utxoVars, daemonVars
  <2>6. SpendInv'
    BY <1>1, <2>1, <2>2, <2>3, <2>5, QuietStep DEF utxoVars, daemonVars
  <2> QED BY <1>2, <2>1, <2>6 DEF utxoVars
<1> QED
  <2>1. CASE SyncNext BY <1>3, <1>4, <1>5, <2>1 DEF SyncNext
  <2>2. CASE HandlerNext
    <3>1. \/ \E b \in Batches : Send(b)
          \/ SubmitAccepted \/ SubmitPanics \/ SubmitRejected \/ SubmitUnanswered
      BY <1>7, <1>8, <2>2 DEF HandlerNext, SubmitStep
    <3> QED BY <1>2, <1>6, <1>9, <1>10, <1>11, <3>1
  <2> QED BY <1>12, <1>13, <1>14, <2>1, <2>2 DEF Next

\* What the invariant says of the coins the selection may take.
LEMMA SpendInvImplies ==
    ASSUME SpendInv
    PROVE  SpentStaysSpent /\ ParentsFirst /\ NoCoinTwice
<1>1. PICK B \in SUBSET accepted, D \in SUBSET Txs : History(B, D)
  BY DEF SpendInv
<1>2. SpentStaysSpent
  <2> SUFFICES ASSUME holder # "sync", NEW t \in submitted \cap (pool \cup accepted),
                      NEW o \in InputsOf[t]
               PROVE  ~Selectable(o)
    BY DEF SpentStaysSpent
  <2>1. replay = <<>> /\ mempoolTransactions \in Seq(Txs)
    BY DEF SpendInv, Base, Control, TypeOK, UtxoTypeOK
  <2>2. Tracked = mempoolTransactions BY <2>1 DEF Tracked
  <2>3. t \in B \cup Members(mempoolTransactions)
    BY <1>1, <2>2 DEF History, Dead
  <2>4. o \notin View BY <1>1, <2>3 DEF History, Coins, SpentBy
  <2>5. o \in Outpoints
    <3>1. t \in Txs BY DEF SpendInv, Base, TypeOK
    <3> QED BY <3>1, InputsAreOutpoints
  <2>6. utxosSortedByAmount[o] = <<>> BY <2>4, <2>5 DEF View
  <2> QED BY <2>6 DEF Selectable
<1>3. ParentsFirst
  BY <1>1 DEF History, Chain, ParentsFirst
<1>4. NoCoinTwice
  <2> SUFFICES ASSUME NEW o \in Outpoints
               PROVE  Cardinality({i \in DOMAIN utxosSortedByAmount[o] :
                          utxosSortedByAmount[o][i] = Confirmed}) <= 1
    BY DEF NoCoinTwice
  <2> DEFINE s == utxosSortedByAmount[o]
             P == {i \in DOMAIN s : s[i] = Confirmed}
  <2>1. CASE s = <<>>
    <3>1. P = {} BY <2>1
    <3> QED BY <3>1, FS_EmptySet
  <2>2. CASE s = <<Confirmed>>
    <3>1. DOMAIN s = {1} /\ s[1] = Confirmed BY <2>2
    <3>2. P = {1} BY <3>1
    <3>3. Cardinality({1}) = 1 BY FS_Singleton
    <3> QED BY <3>2, <3>3
  <2> QED BY <2>1, <2>2 DEF SpendInv, Base, ViewIsSet
<1> QED BY <1>2, <1>3, <1>4

\* A coin spent by a transaction of this wallet that the node holds or has
\* accepted is never offered again, however the refreshes, the requests and
\* the node interleave, whatever the node evicts and whoever else spends.
THEOREM SpentCoinsStaySpent == ReplayOnly => (Spec => []SpentStaysSpent)
<1> SUFFICES ASSUME ReplayOnly PROVE Spec => []SpentStaysSpent
  OBVIOUS
<1>1. Init => SpendInv BY InitSpend
<1>2. SpendInv /\ [Next]_vars => SpendInv' BY StepSpend
<1>3. SpendInv => SpentStaysSpent BY SpendInvImplies
<1> QED BY <1>1, <1>2, <1>3, PTL DEF Spec

\* One pass of the replay restores a whole chain of unconfirmed transactions:
\* it never meets one before those it spends from.
THEOREM ReplayMeetsParentsFirst == ReplayOnly => (Spec => []ParentsFirst)
<1> SUFFICES ASSUME ReplayOnly PROVE Spec => []ParentsFirst
  OBVIOUS
<1>1. Init => SpendInv BY InitSpend
<1>2. SpendInv /\ [Next]_vars => SpendInv' BY StepSpend
<1>3. SpendInv => ParentsFirst BY SpendInvImplies
<1> QED BY <1>1, <1>2, <1>3, PTL DEF Spec

\* The selection never meets a coin twice, whatever a node that does not list its
\* pool evicts.
THEOREM CoinsAreOfferedOnce == ReplayOnly => (Spec => []NoCoinTwice)
<1> SUFFICES ASSUME ReplayOnly PROVE Spec => []NoCoinTwice
  OBVIOUS
<1>1. Init => SpendInv BY InitSpend
<1>2. SpendInv /\ [Next]_vars => SpendInv' BY StepSpend
<1>3. SpendInv => NoCoinTwice BY SpendInvImplies
<1> QED BY <1>1, <1>2, <1>3, PTL DEF Spec

\* No refresh forgets a transaction of the wallet that the node's pool holds.
THEOREM PoolStaysTracked == ReplayOnly => (Spec => PendingStaysTracked)
<1> SUFFICES ASSUME ReplayOnly PROVE Spec => PendingStaysTracked
  OBVIOUS
<1>1. Init => SpendInv BY InitSpend
<1>2. SpendInv /\ [Next]_vars => SpendInv' BY StepSpend
<1>3. SpendInv /\ [Next]_vars =>
          [crashes' = crashes =>
               \A t \in Members(Tracked) : t \in pool => t \in Members(Tracked')]_vars
  BY StepSpend
<1> QED BY <1>1, <1>2, <1>3, PTL DEF Spec, PendingStaysTracked

\* No handler panics after its submission while only Send submits: what it
\* holds the mutex for is still in the view when its turn comes.
THEOREM SendNeverPanics == ReplayOnly => (Spec => []SubmissionsApplied)
<1> SUFFICES ASSUME ReplayOnly PROVE Spec => []SubmissionsApplied
  OBVIOUS
<1>1. Init => SpendInv /\ SubmissionsApplied
  BY InitSpend DEF Init, SubmissionsApplied
<1>2. SpendInv /\ SubmissionsApplied /\ [Next]_vars => SpendInv' /\ SubmissionsApplied'
  <2> SUFFICES ASSUME SpendInv, ~panicked, [Next]_vars PROVE SpendInv' /\ ~panicked'
    BY DEF SubmissionsApplied
  <2>1. SpendInv' BY StepSpend
  <2>2. ~SubmitPanics
    <3> SUFFICES ASSUME queue # <<>>, ~CanApply(Head(queue)) PROVE FALSE
      BY DEF SubmitPanics, AddMempoolTransactionPanics
    <3> QED BY HeadOfQueue
  <2>3. ~panicked'
    <3>1. CASE SyncNext
      BY <3>1 DEF SyncNext, SyncCollect, SyncSnapshot, SyncListMempool, SyncUpdate,
         SyncReplay, SyncDone, daemonVars
    <3>2. CASE HandlerNext
      BY <2>2, <3>2 DEF HandlerNext, SubmitStep, Send, CreateUnsigned, Broadcast, Generate,
         SubmitAccepted, SubmitRejected, SubmitUnanswered, NewAddress, daemonVars
    <3>3. CASE NodeNext \/ Crash \/ UNCHANGED vars
      BY <3>3 DEF NodeNext, Crash, vars, daemonVars
    <3> QED BY <3>1, <3>2, <3>3 DEF Next
  <2> QED BY <2>1, <2>3
<1> QED BY <1>1, <1>2, PTL DEF Spec

-----------------------------------------------------------------------------
(* What the node answers to Send. *)

\* Nobody but the daemon spends from the wallet's addresses, the node evicts
\* nothing, and every answer arrives.
Undisturbed ==
    /\ MaxEvictions = 0
    /\ AnswersGetLost = FALSE
    /\ \A t \in Foreign : \A o \in InputsOf[t] : AddressOf(o) \notin WalletAddresses

\* Then the node has what others made and what it told the daemon it took, and
\* loses nothing of what the daemon keeps on record.
NodeHolds ==
    /\ accepted \cup pool \cup relayed \subseteq Genesis \cup Foreign \cup submitted
    /\ Members(Tracked) \subseteq pool \cup accepted

\* A block that accepts t takes nothing of the record out of the pool but t.
LEMMA MineHoldsRecord ==
    ASSUME Undisturbed, SpendInv, NodeHolds, NEW t \in Txs, Mine(t)
    PROVE  Members(Tracked) \subseteq pool' \cup accepted'
<1>1. PICK B \in SUBSET accepted, D \in SUBSET Txs : History(B, D)
  BY DEF SpendInv
<1>2. /\ t \notin accepted /\ InputsOf[t] \subseteq Unspent(accepted)
      /\ accepted' = accepted \cup {t}
      /\ pool' = StillValid(pool \ {t}, accepted')
      /\ t \in relayed \cup Foreign
  BY DEF Mine
<1>3. /\ NodeOK /\ addresses \subseteq WalletAddresses
      /\ Chain(Tracked, B, D) /\ Dead(B, D) /\ Genesis \subseteq B
      /\ SpentBy(B) \subseteq CreatedBy(B)
      /\ submitted \subseteq B \cup Members(Tracked) \cup D
  BY <1>1 DEF History, SpendInv, Base, TypeOK, UtxoTypeOK
<1>4. t \notin D
  BY <1>2, <1>3, DeadStaysOut
<1> DEFINE S == (Members(Tracked) \cap pool) \ {t}
<1>5. ASSUME NEW v \in S, NEW o \in InputsOf[v]
      PROVE  o \in Unspent(accepted') \cup CreatedBy(S)
  <2>1. PICK i \in DOMAIN Tracked : v = Tracked[i]
    BY DEF Members
  <2>2. /\ AddressOf(o) \in WalletAddresses
        /\ o[1] \in B \cup D \cup Members(Tracked)
    <3>1. /\ AddressOf(o) \in addresses
          /\ o[1] \in B \cup D \/ \E j \in 1..(i - 1) : Tracked[j] = o[1]
      BY <1>3, <2>1 DEF Chain
    <3>2. \A j \in 1..(i - 1) : j \in DOMAIN Tracked
      <4>1. Tracked \in Seq(Txs)
        BY ConcatFacts DEF Tracked, SpendInv, Base, TypeOK, UtxoTypeOK
      <4>2. DOMAIN Tracked = 1..Len(Tracked) /\ Len(Tracked) \in Nat
        BY <4>1, SeqFacts
      <4> QED BY <4>2
    <3> QED BY <1>3, <3>1, <3>2 DEF Members
  <2>3. o \in Unspent(accepted) \cup CreatedBy(pool)
    BY <1>3 DEF NodeOK, SpentBy
  <2>4. o \in Outpoints /\ o[1] \in accepted \cup pool
    BY <2>3 DEF Unspent, CreatedBy
  <2>5. o[1] \notin D
    BY <1>3, <2>4 DEF Dead
  <2>6. CASE o \in Unspent(accepted)
    <3>1. o \notin InputsOf[t]
      <4> SUFFICES ASSUME o \in InputsOf[t] PROVE FALSE
        OBVIOUS
      <4>1. t \notin Foreign BY <2>2 DEF Undisturbed
      <4>2. t \in submitted BY <1>2, <1>3, <4>1 DEF NodeHolds
      <4>3. PICK j \in DOMAIN Tracked : t = Tracked[j]
        BY <1>2, <1>3, <1>4, <4>2 DEF Members
      <4> QED BY <1>3, <2>1, <4>3 DEF Chain, Rivalless
    <3> QED BY <1>2, <2>6, <3>1 DEF Unspent, CreatedBy, SpentBy
  <2>7. CASE o \notin Unspent(accepted)
    <3>1. o[1] \in pool BY <2>3, <2>7 DEF CreatedBy
    <3>2. o[1] \in Members(Tracked) BY <1>3, <2>2, <2>5, <3>1 DEF NodeOK
    <3>3. CASE o[1] = t
      <4>1. o \in CreatedBy(accepted') BY <1>2, <2>4, <3>3 DEF CreatedBy
      <4>2. o \notin SpentBy(accepted) /\ o \notin InputsOf[t]
        BY <1>2, <1>3, <3>3 DEF NodeOK, CreatedBy, Unspent
      <4> QED BY <1>2, <4>1, <4>2 DEF Unspent, SpentBy
    <3>4. CASE o[1] # t
      BY <2>4, <3>1, <3>2, <3>4 DEF CreatedBy
    <3> QED BY <3>3, <3>4
  <2> QED BY <2>6, <2>7
<1>6. SpentBy(S) \subseteq Unspent(accepted') \cup CreatedBy(S)
  BY <1>5 DEF SpentBy
<1>7. S \subseteq pool'
  <2>1. S \in SUBSET (pool \ {t}) OBVIOUS
  <2> QED BY <1>2, <1>6, <2>1 DEF StillValid
<1> QED BY <1>2, <1>7 DEF NodeHolds

LEMMA StepHolds ==
    ASSUME ReplayOnly, Undisturbed, SpendInv, NodeHolds, [Next]_vars
    PROVE  NodeHolds'
<1>1. UtxoTypeOK /\ TypeOK' /\ SpendInv'
  <2>1. SpendInv' BY StepSpend
  <2> QED BY <2>1 DEF SpendInv, Base, TypeOK
<1>2. ASSUME UNCHANGED <<kaspadVars, submitted>>, Members(Tracked') \subseteq Members(Tracked)
      PROVE  NodeHolds'
  BY <1>2 DEF NodeHolds, kaspadVars, Members
<1>3. ASSUME UNCHANGED <<mempoolTransactions, replay>> PROVE Members(Tracked') = Members(Tracked)
  BY <1>3 DEF Tracked
<1>4. CASE SyncUpdate
  <2>1. replay = <<>> /\ mempoolTransactions \in Seq(Txs)
    BY <1>4 DEF SyncUpdate, SpendInv, Base, Control, TypeOK, UtxoTypeOK
  <2>2. replay' = mempoolTransactions /\ mempoolTransactions' = <<>>
    BY <1>4 DEF SyncUpdate, UpdateUtxoSet
  <2>3. Tracked' = Tracked BY <2>1, <2>2 DEF Tracked
  <2> QED BY <1>2, <1>4, <2>3 DEF SyncUpdate
<1>5. CASE SyncReplay
  <2>1. CASE ReplayKeeps
    <3>1. Tracked' = Tracked BY <1>1, <1>5, <2>1, ReplayKeepsKeeps
    <3> QED BY <1>2, <1>5, <3>1 DEF SyncReplay, daemonVars
  <2>2. CASE ReplayDrops
    <3>1. /\ replay # <<>> /\ replay \in Seq(Txs) /\ mempoolTransactions \in Seq(Txs)
          /\ Tracked' = mempoolTransactions \o Tail(replay)
      BY <1>1, <2>2 DEF ReplayDrops, Tracked, UtxoTypeOK
    <3>2. Members(Tracked') \subseteq Members(Tracked)
      BY <3>1, TurnDrops DEF Tracked
    <3> QED BY <1>2, <1>5, <3>2 DEF SyncReplay, daemonVars
  <2> QED BY <1>5, <2>1, <2>2 DEF SyncReplay
<1>6. CASE SyncCollect \/ SyncSnapshot \/ SyncListMempool \/ SyncDone
  BY <1>2, <1>3, <1>6 DEF SyncCollect, SyncSnapshot, SyncListMempool, SyncDone, utxoVars
<1>7. ASSUME NEW b \in Batches, Send(b) PROVE NodeHolds'
  BY <1>2, <1>3, <1>7 DEF Send, Generate
<1>8. ASSUME NEW b \in Batches PROVE ~CreateUnsigned(b) /\ ~Broadcast(b)
  BY DEF CreateUnsigned, Broadcast, ReplayOnly, SpendInv, Base, Control
<1>9. ASSUME NEW a \in NewAddresses PROVE FALSE
  BY DEF ReplayOnly
<1>10. CASE SubmitAccepted
  <2>1. queue # <<>> BY <1>10 DEF SubmitAccepted
  <2>2. PICK t \in Txs : t = Head(queue) BY <2>1, HeadOfQueue
  <2>3. /\ EnterPool(t) /\ submitted' = submitted \cup {t} /\ replay' = replay
        /\ mempoolTransactions' = Append(mempoolTransactions, t)
    BY <1>10, <2>2 DEF SubmitAccepted, Submitted, AddMempoolTransaction
  <2>4. replay = <<>> /\ Tracked = mempoolTransactions BY <2>1, HeadOfQueue
  <2>5. mempoolTransactions \in Seq(Txs) BY <1>1 DEF UtxoTypeOK
  <2>6. /\ Append(mempoolTransactions, t) \in Seq(Txs)
        /\ Members(Append(mempoolTransactions, t)) = Members(mempoolTransactions) \cup {t}
    BY <2>5, AppendFacts
  <2>7. Tracked' = Append(mempoolTransactions, t) BY <2>3, <2>4, <2>6 DEF Tracked
  <2>8. Members(Tracked') = Members(Tracked) \cup {t} BY <2>4, <2>6, <2>7
  <2>9. /\ accepted' = accepted /\ pool' = pool \cup {t} /\ relayed' = relayed \cup {t}
    BY <2>3 DEF EnterPool
  <2> QED BY <2>3, <2>8, <2>9 DEF NodeHolds, Members
<1>11. CASE SubmitPanics
  <2>1. queue # <<>> /\ ~CanApply(Head(queue))
    BY <1>11 DEF SubmitPanics, AddMempoolTransactionPanics
  <2> QED BY <2>1, HeadOfQueue
<1>12. CASE SubmitRejected
  BY <1>2, <1>3, <1>12 DEF SubmitRejected, utxoVars
<1>13. ~SubmitUnanswered
  BY DEF SubmitUnanswered, Undisturbed
<1>14. CASE NodeNext
  <2>1. PICK t \in Txs : ForeignPayment(t) \/ Mine(t) \/ Evict(t)
    BY <1>14 DEF NodeNext, KaspadNext
  <2>2. Members(Tracked') = Members(Tracked) /\ submitted' = submitted
    BY <1>3, <1>14 DEF NodeNext, utxoVars, daemonVars
  <2>3. CASE ForeignPayment(t)
    <3>1. /\ t \in Foreign
          /\ accepted' = accepted /\ pool' = pool \cup {t} /\ relayed' = relayed \cup {t}
      BY <2>3 DEF ForeignPayment, EnterPool
    <3> QED BY <2>2, <3>1 DEF NodeHolds, Members
  <2>4. CASE Mine(t)
    <3>1. /\ accepted' = accepted \cup {t} /\ relayed' = relayed \cup {t}
          /\ t \in relayed \cup Foreign /\ pool' \subseteq pool
      BY <2>4, StillValidSupported DEF Mine
    <3>2. Members(Tracked) \subseteq pool' \cup accepted' BY <2>4, MineHoldsRecord
    <3> QED BY <2>2, <3>1, <3>2 DEF NodeHolds, Members
  <2>5. ~Evict(t)
    BY DEF Evict, Undisturbed, SpendInv, Base, TypeOK, KaspadTypeOK
  <2> QED BY <2>1, <2>3, <2>4, <2>5
<1>15. ~Crash
  BY DEF Crash, ReplayOnly, SpendInv, Base, TypeOK
<1>16. CASE UNCHANGED vars
  BY <1>2, <1>3, <1>16 DEF vars, utxoVars, daemonVars
<1> QED
  <2>1. CASE SyncNext BY <1>4, <1>5, <1>6, <2>1 DEF SyncNext
  <2>2. CASE HandlerNext
    BY <1>7, <1>8, <1>9, <1>10, <1>11, <1>12, <1>13, <2>2 DEF HandlerNext, SubmitStep
  <2> QED BY <1>14, <1>15, <1>16, <2>1, <2>2 DEF Next

\* The node accepts every transaction Send builds, at whatever point of the
\* refreshes, the blocks and the other requests it is submitted: the chained
\* Send is safe by design.
THEOREM SendsAreAccepted == ReplayOnly /\ Undisturbed => (Spec => []EverySendAccepted)
<1> SUFFICES ASSUME ReplayOnly, Undisturbed PROVE Spec => []EverySendAccepted
  OBVIOUS
<1>1. Init => SpendInv /\ NodeHolds
  <2> SUFFICES ASSUME Init PROVE SpendInv /\ NodeHolds
    OBVIOUS
  <2>1. Tracked = <<>> BY DEF Init, UtxoInit, Tracked
  <2>2. NodeHolds BY <2>1 DEF Init, KaspadInit, NodeHolds, Members
  <2> QED BY <2>2, InitSpend
<1>2. SpendInv /\ NodeHolds /\ [Next]_vars => SpendInv' /\ NodeHolds'
  BY StepSpend, StepHolds
<1>3. SpendInv /\ NodeHolds => EverySendAccepted
  <2> SUFFICES ASSUME SpendInv, NodeHolds, queue # <<>>, NEW t \in Txs, t = Head(queue)
               PROVE  AcceptsSubmission(t)
    BY HeadOfQueue DEF EverySendAccepted
  <2>1. PICK B \in SUBSET accepted, D \in SUBSET Txs : History(B, D)
    BY DEF SpendInv
  <2>2. /\ InputsOf[t] # {} /\ InputsOf[t] \subseteq View
        /\ Tracked = mempoolTransactions
    BY HeadOfQueue
  <2> DEFINE N == B \cup Members(mempoolTransactions)
  <2>3. /\ Genesis \subseteq N /\ N \subseteq accepted \cup pool
        /\ (accepted \cup pool) \cap submitted \subseteq N
    BY <2>1, <2>2 DEF History, Dead, NodeHolds
  <2>4. ASSUME NEW o \in InputsOf[t]
        PROVE  /\ o \in CreatedBy(accepted \cup pool)
               /\ o \notin SpentBy(accepted \cup pool)
    <3>1. /\ AddressOf(o) \in WalletAddresses
          /\ o \in CreatedBy(N) /\ o \notin SpentBy(N)
      BY <2>1, <2>2 DEF History, Coins, SpendInv, Base, TypeOK, UtxoTypeOK
    <3>2. ASSUME NEW u \in accepted \cup pool PROVE o \notin InputsOf[u]
      <4>1. u \in Foreign => o \notin InputsOf[u] BY <3>1 DEF Undisturbed
      <4>2. u \in N => o \notin InputsOf[u] BY <3>1 DEF SpentBy
      <4> QED BY <2>3, <4>1, <4>2 DEF NodeHolds
    <3> QED BY <2>3, <3>1, <3>2 DEF CreatedBy, SpentBy
  <2>5. t \notin accepted \cup pool
    BY <2>2, <2>4 DEF SpentBy
  <2> QED BY <2>4, <2>5 DEF AcceptsSubmission, Unspent, CreatedBy, SpentBy
<1> QED BY <1>1, <1>2, <1>3, PTL DEF Spec
=============================================================================
