----------------------- MODULE TransactionCoins_proofs -----------------------
(***************************************************************************)
(* Where the coins of a batch come from, and that each is spent once.      *)
(***************************************************************************)
EXTENDS TransactionValues_proofs

-----------------------------------------------------------------------------
(* The split transactions divide the inputs among them. *)

LEMMA CeilDivCovers ==
    ASSUME NEW a \in Nat, NEW b \in Nat \ {0}
    PROVE  CeilDiv(a, b) \in Nat /\ CeilDiv(a, b) * b >= a
<1> DEFINE c == a + b - 1
<1>1. c \in Nat
  OBVIOUS
<1>2. \A x \in Nat : x \div b \in Nat /\ x < (x \div b) * b + b
  OBVIOUS
<1>3. c \div b \in Nat /\ c < (c \div b) * b + b
  BY <1>1, <1>2
<1>4. (c \div b) * b \in Nat
  BY <1>3, TimesNat
<1>5. CeilDiv(a, b) = c \div b
  BY DEF CeilDiv
<1> QED BY <1>3, <1>4, <1>5

LEMMA SplitsDisjoint ==
    ASSUME TInv, NEW k \in 1..SplitCount, NEW m \in 1..SplitCount,
           NEW n \in First(k)..Final(k), n \in First(m)..Final(m)
    PROVE  k = m
<1>1. InputsPerSplit \in Nat /\ SplitCount \in Nat
  BY SplitCapacity, SplitRange
<1>2. ASSUME NEW x \in 1..SplitCount
      PROVE  /\ (x - 1) * InputsPerSplit \in Nat /\ x * InputsPerSplit \in Nat
             /\ First(x) = (x - 1) * InputsPerSplit + 1
             /\ Final(x) \in Nat /\ Final(x) <= x * InputsPerSplit
  <2>1. (x - 1) * InputsPerSplit \in Nat /\ x * InputsPerSplit \in Nat
    BY <1>1, TimesNat
  <2>2. Len(candidate.ins) \in Nat
    BY LenProperties DEF TInv, GoodTx, Worth, IsSeq
  <2> QED BY <2>1, <2>2 DEF First, Final, Smaller
<1>3. ASSUME NEW x \in 1..SplitCount, NEW y \in 1..SplitCount, x < y
      PROVE  Final(x) < First(y)
  <2>1. x * InputsPerSplit <= (y - 1) * InputsPerSplit
    <3>1. x \in Nat /\ y - 1 \in Nat /\ x <= y - 1
      BY <1>1, <1>3
    <3> QED BY <1>1, <3>1, TimesMonotone
  <2> QED BY <1>2, <2>1
<1>4. ~(k < m) /\ ~(m < k)
  <2>1. First(k) <= n /\ n <= Final(k) /\ First(m) <= n /\ n <= Final(m) /\ n \in Int
    OBVIOUS
  <2>2. First(k) \in Nat /\ Final(k) \in Nat /\ First(m) \in Nat /\ Final(m) \in Nat
    BY <1>2
  <2> QED BY <1>3, <2>1, <2>2
<1> QED BY <1>1, <1>4

LEMMA SplitsCover ==
    ASSUME TInv, NEW n \in 1..Len(candidate.ins)
    PROVE  \E k \in 1..SplitCount : n \in First(k)..Final(k)
<1>1. /\ InputsPerSplit \in Nat \ {0} /\ SplitCount \in Nat /\ Len(candidate.ins) \in Nat
      /\ SplitCount * InputsPerSplit >= Len(candidate.ins)
  <2>1. Len(candidate.ins) \in Nat
    BY LenProperties DEF TInv, GoodTx, Worth, IsSeq
  <2> QED BY <2>1, SplitCapacity, CeilDivCovers DEF SplitCount
<1> DEFINE S == {k \in Nat : k * InputsPerSplit >= n}
<1>2. SplitCount \in S
  <2>1. SplitCount * InputsPerSplit \in Nat
    BY <1>1, TimesNat
  <2> QED BY <1>1, <2>1
<1>3. PICK k \in S : \A j \in S : k <= j
  <2>1. S \in SUBSET Nat
    OBVIOUS
  <2> HIDE DEF S
  <2> QED BY <1>2, <2>1, MinElement
<1>4. k \in Nat /\ k * InputsPerSplit \in Nat /\ k * InputsPerSplit >= n
  BY <1>1, TimesNat
<1>5. k # 0
  BY <1>1, <1>4
<1>6. k - 1 \in Nat /\ (k - 1) * InputsPerSplit \in Nat /\ (k - 1) * InputsPerSplit < n
  <2>1. k - 1 \in Nat
    BY <1>4, <1>5
  <2>2. (k - 1) * InputsPerSplit \in Nat
    BY <1>1, <2>1, TimesNat
  <2>3. k - 1 \notin S
    BY <1>3, <1>4
  <2> QED BY <2>1, <2>2, <2>3
<1>7. k <= SplitCount
  BY <1>2, <1>3
<1>8. First(k) <= n /\ n <= Final(k) /\ First(k) \in Nat /\ Final(k) \in Nat
  BY <1>1, <1>4, <1>6 DEF First, Final, Smaller
<1> QED BY <1>1, <1>4, <1>5, <1>7, <1>8

-----------------------------------------------------------------------------
(* The inductive invariant. *)

\* The transactions made so far, with the one being looked at.
Made == IF pc = "check" THEN Append(batch, candidate) ELSE batch

Ids(coins) == {coins[i].id : i \in DOMAIN coins}

\* A coin the request may spend.
Allowed(coin) ==
    /\ coin \in Range(utxos)
    /\ Usable(coin)
    /\ request.utxos = {} \/ coin.id \in request.utxos

SpentIn(txs, id) == \E k \in DOMAIN txs : \E i \in DOMAIN txs[k].ins : txs[k].ins[i].id = id

\* How many split transactions have their output spent.
SplitsSpent ==
    IF pc = "check" THEN Len(batch)
    ELSE IF pc = "merge" THEN Len(batch) - Len(pieces)
    ELSE Len(batch) - 1

\* An input is a coin the request may spend, or the output of an earlier split.
Origins ==
    \A k \in DOMAIN Made : \A i \in DOMAIN Made[k].ins :
        \/ Allowed(Made[k].ins[i])
        \/ \E j \in 1..(k - 1) : Made[k].ins[i].id = <<"split", j>>

\* The ids that may not occur twice: a second merge that adds coins may repeat
\* what the first has added.
Settled(id) == topUps <= 1 \/ id \in Ids(selected) \/ id[1] = "split"

\* No two inputs spend one settled outpoint.
SpentOnce ==
    \A k, m \in DOMAIN Made : \A i \in DOMAIN Made[k].ins, j \in DOMAIN Made[m].ins :
        Settled(Made[k].ins[i].id) /\ Made[k].ins[i].id = Made[m].ins[j].id => k = m /\ i = j

\* Until a merge has added any, the coins are those selected.
NothingAdded ==
    topUps = 0 =>
        \A k \in DOMAIN Made : \A i \in DOMAIN Made[k].ins :
            Made[k].ins[i] \in Range(selected) \/ Made[k].ins[i].id[1] = "split"

\* Nothing selected and no output of an earlier split is left over.
AllSpent ==
    pc \in {"check", "merge"} \/ answer = "Built" =>
        /\ \A i \in DOMAIN selected : SpentIn(Made, selected[i].id)
        /\ \A j \in 1..SplitsSpent : SpentIn(Made, <<"split", j>>)

\* The pieces are the outputs of the last splits, which nothing spends yet.
PiecesNew ==
    pc = "merge" =>
        /\ Len(pieces) <= Len(batch)
        /\ \A k \in DOMAIN pieces : pieces[k].id = <<"split", Len(batch) - Len(pieces) + k>>
        /\ \A k \in DOMAIN batch : \A i \in DOMAIN batch[k].ins :
               \A j \in 1..Len(batch) :
                   batch[k].ins[i].id = <<"split", j>> => j <= Len(batch) - Len(pieces)

\* With the steps at which a batch is empty and an answer possible.
CInv ==
    /\ TInv
    /\ pc # "done" => answer = "pending"
    /\ answer = "Built" => pc = "done"
    /\ pc \in {"validate", "limits", "select"} => batch = << >> /\ topUps = 0
    /\ answer \notin {"pending", "Built"} => batch = << >> /\ pc = "done"
    /\ Origins
    /\ SpentOnce
    /\ NothingAdded
    /\ AllSpent
    /\ PiecesNew

LEMMA UtxoIds ==
    ASSUME TInv
    PROVE  /\ \A a, b \in Range(utxos) : a.id = b.id => a = b
           /\ \A a \in Range(utxos) : a.id[1] # "split" /\ a.since \in Nat
<1>1. utxos \in Wallets
  BY DEF TInv, IInv
<1>2. \A i \in DOMAIN utxos :
          /\ utxos[i].id[1] # "split" /\ utxos[i].since \in Nat
          /\ \A j \in DOMAIN utxos : utxos[j].id = utxos[i].id => j = i
  BY <1>1, CoinsAssumption
<1> QED BY <1>2 DEF Range

LEMMA InitCInv == Init => CInv
<1> SUFFICES ASSUME Init PROVE CInv
  OBVIOUS
<1>1. /\ TInv /\ batch = << >> /\ Made = << >> /\ topUps = 0
      /\ pc = "validate" /\ answer = "pending"
  BY InitTInv DEF Init, Made
<1>2. DOMAIN Made = {}
  BY <1>1
<1> QED BY <1>1, <1>2 DEF CInv, Origins, SpentOnce, NothingAdded, AllSpent, PiecesNew

\* Without transactions there is nothing to say of their coins.
LEMMA EmptyCInv ==
    ASSUME TInv', batch' = << >>, pc' \notin {"check", "merge"}, answer' # "Built",
           answer' = "pending" \/ pc' = "done",
           pc' \in {"validate", "limits", "select"} => topUps' = 0 /\ answer' = "pending"
    PROVE  CInv'
<1>1. DOMAIN Made' = {}
  BY DEF Made
<1>2. Origins' /\ SpentOnce' /\ NothingAdded'
  BY <1>1 DEF Origins, SpentOnce, NothingAdded
<1>3. AllSpent' /\ PiecesNew'
  BY DEF AllSpent, PiecesNew
<1>4. pc' \in {"validate", "limits", "select", "done"}
  BY DEF TInv, Scalars
<1> QED BY <1>2, <1>3, <1>4 DEF CInv

LEMMA FailsCInv ==
    ASSUME CInv, Fails
    PROVE  CInv'
<1>1. TInv' /\ answer' \in Errors /\ pc' = "done" /\ batch' = << >>
  BY FailsTInv, FailsAre DEF CInv
<1> QED BY <1>1, ErrorsType, EmptyCInv

\* While blocks arrive, coins only become usable.
LEMMA QuietCInv ==
    ASSUME CInv, Validate \/ (\E r \in NodeRates : FeeLimits(r)) \/ DaaAdvances \/ UNCHANGED vars
    PROVE  CInv'
<1>1. TInv'
  BY QuietTInv DEF CInv
<1>2. CASE Validate \/ (\E r \in NodeRates : FeeLimits(r))
  <2>1. /\ pc \in {"validate", "limits", "select"} /\ pc' \in {"limits", "select"}
        /\ UNCHANGED <<batch, topUps, answer>>
    BY <1>2 DEF Validate, FeeLimits
  <2> QED BY <1>1, <2>1, EmptyCInv DEF CInv
<1>3. CASE DaaAdvances \/ UNCHANGED vars
  <2>1. /\ UNCHANGED <<utxos, request, pc, selected, candidate, pieces, batch, topUps, answer>>
        /\ daa' = daa \/ daa' = daa + 1
    BY <1>3 DEF DaaAdvances, vars
  <2>2. Made' = Made
    BY <2>1 DEF Made
  <2>3. ASSUME NEW coin, Allowed(coin) PROVE Allowed(coin)'
    <3>1. coin.since \in Nat /\ daa \in Int
      BY <2>3, UtxoIds, GeneratorAssumption DEF Allowed, CInv, TInv, Scalars
    <3> QED BY <2>1, <2>3, <3>1 DEF Allowed, Usable
  <2>4. Origins'
    BY <2>2, <2>3 DEF CInv, Origins
  <2>5. SpentOnce' /\ NothingAdded'
    BY <2>1, <2>2 DEF CInv, SpentOnce, NothingAdded, Settled, Ids
  <2>6. AllSpent' /\ PiecesNew'
    <3>1. SplitsSpent' = SplitsSpent
      BY <2>1 DEF SplitsSpent
    <3>2. AllSpent'
      BY <2>1, <2>2, <3>1 DEF CInv, AllSpent
    <3>3. PiecesNew'
      BY <2>1 DEF CInv, PiecesNew
    <3> QED BY <3>2, <3>3
  <2> QED BY <1>1, <2>1, <2>4, <2>5, <2>6 DEF CInv
<1> QED BY <1>2, <1>3

\* The last transaction goes into the batch as it was looked at.
LEMMA DeliverCInv ==
    ASSUME CInv, Deliver
    PROVE  CInv'
<1>1. TInv'
  BY DeliverTInv DEF CInv
<1>2. /\ pc = "check" /\ pc' = "done" /\ batch' = Append(batch, candidate) /\ answer' = "Built"
      /\ UNCHANGED <<utxos, request, daa, selected, topUps>>
  BY DEF Deliver
<1>3. Made' = Made
  BY <1>2 DEF Made
<1>4. SplitsSpent' = SplitsSpent
  <2>1. Len(batch') = Len(batch) + 1 /\ Len(batch) \in Nat
    BY <1>2, AppendProperties, LenProperties DEF CInv, TInv, IInv, IsSeq
  <2>2. Len(batch') - 1 = Len(batch)
    BY <2>1
  <2> QED BY <1>2, <2>2 DEF SplitsSpent
<1>5. Origins'
  BY <1>2, <1>3 DEF CInv, Origins, Allowed, Usable
<1>6. SpentOnce' /\ NothingAdded'
  BY <1>2, <1>3 DEF CInv, SpentOnce, NothingAdded, Settled, Ids
<1>7. AllSpent' /\ PiecesNew'
  BY <1>2, <1>3, <1>4 DEF CInv, AllSpent, PiecesNew, SpentIn
<1> QED BY <1>1, <1>2, <1>5, <1>6, <1>7 DEF CInv

-----------------------------------------------------------------------------
(* The selection takes a coin once. *)

Distinct(coins) == \A i, j \in DOMAIN coins : coins[i].id = coins[j].id => i = j

LEMMA DistinctPick ==
    ASSUME NEW coins, Worth(coins), Distinct(coins), NEW Kept \in SUBSET DOMAIN coins
    PROVE  Distinct(Pick(coins, Kept))
<1> DEFINE picked == Pick(coins, Kept)
<1>1. /\ DOMAIN picked = 1..Cardinality(Kept)
      /\ \E at \in Bijection(1..Cardinality(Kept), Kept) :
             \A k \in 1..Cardinality(Kept) : picked[k] = coins[at[k]]
  <2>1. IsSeq(picked) /\ Len(picked) = Cardinality(Kept)
    BY PickProperties DEF Worth
  <2>2. DOMAIN picked = 1..Cardinality(Kept)
    BY <2>1, LenProperties DEF IsSeq
  <2> QED BY <2>2, PickProperties DEF Worth
<1> HIDE DEF picked
<1>2. PICK at \in Bijection(1..Cardinality(Kept), Kept) :
          \A k \in 1..Cardinality(Kept) : picked[k] = coins[at[k]]
  BY <1>1
<1>3. /\ \A k \in 1..Cardinality(Kept) : at[k] \in Kept
      /\ \A k, m \in 1..Cardinality(Kept) : at[k] = at[m] => k = m
  BY DEF Bijection, Injection, Surjection, IsInjective
<1> QED BY <1>1, <1>2, <1>3 DEF Distinct, picked

LEMMA DistinctUtxos ==
    ASSUME TInv
    PROVE  Distinct(utxos)
BY CoinsAssumption DEF TInv, IInv, Distinct

LEMMA OrderDistinct ==
    ASSUME TInv, NEW order \in Orders
    PROVE  /\ Distinct(order)
           /\ \A i \in DOMAIN order : request.utxos = {} \/ order[i].id \in request.utxos
<1>1. CASE request.utxos = {}
  BY <1>1, DistinctUtxos DEF Orders
<1>2. CASE request.utxos # {}
  <2> DEFINE S == {utxos[i] : i \in {j \in DOMAIN utxos : utxos[j].id \in request.utxos}}
  <2>1. /\ order \in [1..Cardinality(S) -> S]
        /\ \A i, j \in 1..Cardinality(S) : i # j => order[i] # order[j]
    BY <1>2 DEF Orders, SetToSeqs
  <2>2. \A a, b \in S : a.id = b.id => a = b
    BY UtxoIds DEF Range
  <2>3. \A a \in S : a.id \in request.utxos
    OBVIOUS
  <2> HIDE DEF S
  <2> QED BY <2>1, <2>2, <2>3 DEF Distinct
<1> QED BY <1>1, <1>2

LEMMA SelectCInv ==
    ASSUME CInv, SelectUtxos
    PROVE  CInv'
<1>1. TInv /\ TInv'
  BY SelectTInv DEF CInv
<1>2. /\ pc = "select" /\ pc' = "check" /\ batch = << >> /\ topUps = 0 /\ answer = "pending"
      /\ UNCHANGED <<utxos, request, daa, pieces, batch, topUps, answer>>
  BY DEF SelectUtxos, CInv
<1>3. PICK order \in Orders :
          /\ selected' = Selection(Filter(order, Usable))
          /\ candidate'.ins = Selection(Filter(order, Usable))
  BY <1>1, SelectAre
<1> DEFINE coins == Filter(order, Usable)
           Kept == {i \in DOMAIN order : Usable(order[i])}
<1>4. coins = Pick(order, Kept) /\ Kept \in SUBSET DOMAIN order
  BY DEF Filter, Pick, Rank
<1>5. Worth(order)
  <2>1. Range(order) \subseteq Range(utxos) /\ IsSeq(order)
    BY <1>1, UsableCoins, OrdersSeq DEF TInv
  <2>2. \A coin \in Range(utxos) : coin.value \in 0..U64Max
    BY <1>1, UtxosWorth DEF TInv, Worth, Range
  <2> QED BY <2>1, <2>2 DEF Worth, Range
<1>6. Worth(coins) /\ \A i \in DOMAIN coins : Allowed(coins[i])
  <2>1. /\ Worth(coins) /\ Range(order) \subseteq Range(utxos)
        /\ \A i \in DOMAIN coins : Usable(coins[i])
    BY <1>1, UsableCoins
  <2>2. \A i \in DOMAIN order : request.utxos = {} \/ order[i].id \in request.utxos
    BY <1>1, OrderDistinct
  <2>3. \A i \in DOMAIN coins : \E j \in DOMAIN order : coins[i] = order[j]
    <3> HIDE DEF Kept, coins
    <3> QED BY <1>4, <1>5, WorthPick
  <2> HIDE DEF coins
  <2> QED BY <2>1, <2>2, <2>3 DEF Allowed, Range
<1>7. Distinct(coins)
  <2>1. Distinct(order)
    BY <1>1, OrderDistinct
  <2> HIDE DEF Kept, coins
  <2> QED BY <1>4, <1>5, <2>1, DistinctPick
<1> HIDE DEF coins, Kept
<1>8. \A i \in DOMAIN Selection(coins) : i \in DOMAIN coins /\ Selection(coins)[i] = coins[i]
  BY <1>6, SelectionWorth
<1>9. selected' = Selection(coins) /\ candidate'.ins = selected'
  BY <1>3 DEF coins
<1>10. /\ DOMAIN Made' = {1} /\ Made'[1] = candidate'
       /\ DOMAIN Made'[1].ins = DOMAIN selected'
       /\ \A i \in DOMAIN selected' : Made'[1].ins[i] = selected'[i]
  <2>1. Made' = <<candidate'>>
    BY <1>2 DEF Made
  <2> QED BY <1>9, <2>1
<1>11. Origins'
  <2>1. \A coin : Allowed(coin) => Allowed(coin)'
    BY <1>2 DEF Allowed, Usable
  <2> QED BY <1>6, <1>8, <1>9, <1>10, <2>1 DEF Origins
<1>12. SpentOnce'
  BY <1>7, <1>8, <1>9, <1>10 DEF SpentOnce, Distinct
<1>13. NothingAdded'
  BY <1>10 DEF NothingAdded, Range
<1>14. AllSpent' /\ PiecesNew'
  <2>1. SplitsSpent' = 0
    BY <1>2 DEF SplitsSpent
  <2> QED BY <1>2, <1>10, <2>1 DEF AllSpent, PiecesNew, SpentIn
<1> QED BY <1>1, <1>2, <1>11, <1>12, <1>13, <1>14 DEF CInv

-----------------------------------------------------------------------------
(* A split only moves inputs: each stands in one place before and after. *)

\* The place an input of the batch after a split comes from.
IsFrom(k, i, m, n) ==
    IF k <= Len(batch) THEN m = k /\ n = i
    ELSE /\ m = Len(batch) + 1
         /\ k - Len(batch) \in 1..SplitCount
         /\ n = First(k - Len(batch)) + i - 1
         /\ n \in First(k - Len(batch))..Final(k - Len(batch))

LEMMA MadeBefore ==
    ASSUME TInv, pc = "check"
    PROVE  /\ Len(batch) \in Nat
           /\ DOMAIN batch = 1..Len(batch)
           /\ DOMAIN Made = 1..(Len(batch) + 1)
           /\ \A k \in 1..Len(batch) : Made[k] = batch[k]
           /\ Made[Len(batch) + 1] = candidate
<1>1. batch \in Seq(Range(batch)) /\ Made = Append(batch, candidate)
  BY DEF TInv, IInv, IsSeq, Made
<1> QED BY <1>1, LenProperties, AppendProperties

LEMMA MadeSplit ==
    ASSUME TInv, Split
    PROVE  /\ DOMAIN Made' = 1..(Len(batch) + SplitCount)
           /\ Len(batch') = Len(batch) + SplitCount
           /\ SplitCount \in Nat
           /\ \A k \in 1..Len(batch) : Made'[k] = batch[k]
           /\ \A k \in 1..SplitCount :
                  /\ Made'[Len(batch) + k].ins = SubSeq(candidate.ins, First(k), Final(k))
                  /\ DOMAIN Made'[Len(batch) + k].ins = 1..(IF First(k) <= Final(k)
                                                             THEN Final(k) - First(k) + 1 ELSE 0)
                  /\ \A i \in DOMAIN Made'[Len(batch) + k].ins :
                         /\ First(k) + i - 1 \in DOMAIN candidate.ins
                         /\ Made'[Len(batch) + k].ins[i] = candidate.ins[First(k) + i - 1]
<1> DEFINE splits == SplitTransactions
<1>1. Made' = batch \o splits /\ batch' = batch \o splits
  BY DEF Split, Made
<1>2. /\ IsSeq(splits) /\ Len(splits) = SplitCount /\ SplitCount \in Nat
      /\ \A k \in 1..SplitCount : splits[k] = SplitOf(SubSeq(candidate.ins, First(k), Final(k)))
  BY SplitsGood, SplitRange
<1> HIDE DEF splits
<1>3. IsSeq(batch)
  BY DEF TInv, IInv
<1>4. /\ DOMAIN Made' = 1..(Len(batch) + SplitCount) /\ Len(batch') = Len(batch) + SplitCount
      /\ \A k \in 1..Len(batch) : Made'[k] = batch[k]
      /\ \A k \in 1..SplitCount : Made'[Len(batch) + k] = splits[k]
  <2> DEFINE S == Range(batch) \cup Range(splits)
  <2>1. batch \in Seq(S) /\ splits \in Seq(S)
    BY <1>2, <1>3 DEF IsSeq
  <2> HIDE DEF S
  <2>2. Len(batch) \in Nat
    BY <2>1, LenProperties
  <2>3. /\ Len(batch \o splits) = Len(batch) + Len(splits)
        /\ DOMAIN (batch \o splits) = 1..(Len(batch) + Len(splits))
        /\ \A i \in 1..(Len(batch) + Len(splits)) :
               (batch \o splits)[i] = IF i <= Len(batch) THEN batch[i] ELSE splits[i - Len(batch)]
    BY <2>1, <2>2, ConcatProperties, LenProperties
  <2>4. ASSUME NEW k \in 1..SplitCount PROVE (batch \o splits)[Len(batch) + k] = splits[k]
    <3>1. /\ Len(batch) + k \in 1..(Len(batch) + Len(splits)) /\ ~(Len(batch) + k <= Len(batch))
          /\ Len(batch) + k - Len(batch) = k
      BY <1>2, <2>2
    <3> QED BY <2>3, <3>1
  <2> QED BY <1>1, <1>2, <2>2, <2>3, <2>4
<1>5. ASSUME NEW k \in 1..SplitCount
      PROVE  /\ Made'[Len(batch) + k].ins = SubSeq(candidate.ins, First(k), Final(k))
             /\ DOMAIN Made'[Len(batch) + k].ins = 1..(IF First(k) <= Final(k)
                                                        THEN Final(k) - First(k) + 1 ELSE 0)
             /\ \A i \in DOMAIN Made'[Len(batch) + k].ins :
                    /\ First(k) + i - 1 \in DOMAIN candidate.ins
                    /\ Made'[Len(batch) + k].ins[i] = candidate.ins[First(k) + i - 1]
  <2> DEFINE part == SubSeq(candidate.ins, First(k), Final(k))
  <2>1. Made'[Len(batch) + k].ins = part
    BY <1>2, <1>4 DEF SplitOf
  <2>2. First(k) \in Nat \ {0} /\ Final(k) \in 0..Len(candidate.ins) /\ Worth(candidate.ins)
    BY SplitRange DEF TInv, GoodTx
  <2>3. /\ Worth(part) /\ Len(part) = IF First(k) <= Final(k) THEN Final(k) - First(k) + 1 ELSE 0
        /\ \A i \in DOMAIN part :
               First(k) + i - 1 \in DOMAIN candidate.ins /\ part[i] = candidate.ins[First(k) + i - 1]
    BY <2>2, WorthPart
  <2>4. DOMAIN part = 1..Len(part)
    BY <2>3, LenProperties DEF Worth, IsSeq
  <2> HIDE DEF part
  <2> QED BY <2>1, <2>3, <2>4 DEF part
<1> QED BY <1>2, <1>4, <1>5

LEMMA SplitFrom ==
    ASSUME TInv, Split
    PROVE  /\ \A k \in DOMAIN Made' : \A i \in DOMAIN Made'[k].ins :
                  \E m \in DOMAIN Made : \E n \in DOMAIN Made[m].ins :
                      IsFrom(k, i, m, n) /\ Made'[k].ins[i] = Made[m].ins[n]
           /\ \A m \in DOMAIN Made : \A n \in DOMAIN Made[m].ins :
                  \E k \in DOMAIN Made' : \E i \in DOMAIN Made'[k].ins :
                      Made'[k].ins[i] = Made[m].ins[n]
<1> DEFINE N == Len(batch)
<1>1. /\ N \in Nat /\ DOMAIN Made = 1..(N + 1)
      /\ \A k \in 1..N : Made[k] = batch[k]
      /\ Made[N + 1] = candidate
  BY MadeBefore DEF Split, MustSplit
<1>2. ASSUME NEW k \in DOMAIN Made', NEW i \in DOMAIN Made'[k].ins
      PROVE  \E m \in DOMAIN Made : \E n \in DOMAIN Made[m].ins :
                 IsFrom(k, i, m, n) /\ Made'[k].ins[i] = Made[m].ins[n]
  <2>1. CASE k <= N
    <3>1. k \in DOMAIN Made /\ Made'[k] = Made[k]
      BY <1>1, <2>1, MadeSplit
    <3> QED BY <2>1, <3>1 DEF IsFrom
  <2>2. CASE ~(k <= N)
    <3> DEFINE x == k - N
               n == First(x) + i - 1
    <3>1. x \in 1..SplitCount /\ k = N + x
      BY <1>1, <2>2, MadeSplit
    <3> HIDE DEF x
    <3>2. n \in DOMAIN candidate.ins /\ Made'[k].ins[i] = candidate.ins[n]
      BY <3>1, MadeSplit
    <3>3. n \in First(x)..Final(x)
      <4>1. First(x) \in Nat /\ Final(x) \in Nat
        BY <3>1, SplitRange
      <4>2. DOMAIN Made'[k].ins = 1..(IF First(x) <= Final(x) THEN Final(x) - First(x) + 1 ELSE 0)
        BY <3>1, MadeSplit
      <4>3. i \in 1..(IF First(x) <= Final(x) THEN Final(x) - First(x) + 1 ELSE 0)
        BY <4>2
      <4> QED BY <4>1, <4>3
    <3>4. IsFrom(k, i, N + 1, n)
      BY <2>2, <3>1, <3>3 DEF IsFrom, x
    <3>5. N + 1 \in DOMAIN Made /\ Made[N + 1] = candidate
      BY <1>1
    <3> HIDE DEF n
    <3> QED BY <3>2, <3>4, <3>5
  <2> QED BY <2>1, <2>2
<1>3. ASSUME NEW m \in DOMAIN Made, NEW n \in DOMAIN Made[m].ins
      PROVE  \E k \in DOMAIN Made' : \E i \in DOMAIN Made'[k].ins :
                 Made'[k].ins[i] = Made[m].ins[n]
  <2>1. CASE m <= N
    <3>1. m \in DOMAIN Made' /\ Made'[m] = Made[m]
      BY <1>1, <2>1, MadeSplit
    <3> QED BY <3>1
  <2>2. CASE m = N + 1
    <3>1. DOMAIN candidate.ins = 1..Len(candidate.ins) /\ Len(candidate.ins) \in Nat
      BY LenProperties DEF TInv, GoodTx, Worth, IsSeq
    <3>2. n \in 1..Len(candidate.ins) /\ Made[m] = candidate
      BY <1>1, <2>2, <3>1
    <3>3. PICK x \in 1..SplitCount : n \in First(x)..Final(x)
      BY <3>2, SplitsCover
    <3> DEFINE i == n - First(x) + 1
    <3>4. First(x) \in Nat /\ Final(x) \in Nat
      BY SplitRange
    <3>5. i \in 1..(IF First(x) <= Final(x) THEN Final(x) - First(x) + 1 ELSE 0)
          /\ First(x) + i - 1 = n
      BY <3>2, <3>3, <3>4
    <3> HIDE DEF i
    <3>6. N + x \in DOMAIN Made'
      BY <1>1, MadeSplit
    <3>7. i \in DOMAIN Made'[N + x].ins /\ Made'[N + x].ins[i] = candidate.ins[n]
      BY <3>5, MadeSplit
    <3> HIDE DEF N
    <3> QED BY <3>2, <3>6, <3>7
  <2> QED BY <1>1, <2>1, <2>2
<1> QED BY <1>2, <1>3

LEMMA SplitCInv ==
    ASSUME CInv, Split
    PROVE  CInv'
<1>1. TInv /\ TInv'
  BY SplitTInv DEF CInv
<1> DEFINE N == Len(batch)
<1>2. /\ N \in Nat /\ DOMAIN Made = 1..(N + 1)
      /\ DOMAIN Made' = 1..(N + SplitCount) /\ SplitCount \in Nat
      /\ Len(batch') = N + SplitCount
  BY <1>1, MadeBefore, MadeSplit DEF Split, MustSplit
<1>3. /\ pc = "check" /\ pc' = "merge" /\ answer = "pending" /\ answer' = "pending"
      /\ UNCHANGED <<utxos, request, daa, selected, topUps>>
      /\ Made' = batch'
  BY DEF CInv, Split, MustSplit, Made
<1>4. ASSUME NEW k \in DOMAIN Made', NEW i \in DOMAIN Made'[k].ins
      PROVE  \E m \in DOMAIN Made : \E n \in DOMAIN Made[m].ins :
                 IsFrom(k, i, m, n) /\ Made'[k].ins[i] = Made[m].ins[n]
  BY <1>1, SplitFrom
<1>5. \A k \in DOMAIN Made' : \A i, m, n : IsFrom(k, i, m, n) => m <= N + 1 /\ m <= k
  BY <1>2 DEF IsFrom
<1> HIDE DEF N
<1>6. Origins'
  <2> SUFFICES ASSUME NEW k \in DOMAIN Made', NEW i \in DOMAIN Made'[k].ins
               PROVE  \/ Allowed(Made'[k].ins[i])
                      \/ \E j \in 1..(k - 1) : Made'[k].ins[i].id = <<"split", j>>
    BY <1>3 DEF Origins, Allowed, Usable
  <2>1. PICK m \in DOMAIN Made : \E n \in DOMAIN Made[m].ins :
            IsFrom(k, i, m, n) /\ Made'[k].ins[i] = Made[m].ins[n]
    BY <1>4
  <2>2. m <= k /\ m \in Int /\ k \in Int
    BY <1>2, <1>5, <2>1
  <2>3. 1..(m - 1) \subseteq 1..(k - 1)
    BY <2>2
  <2> QED BY <2>1, <2>3 DEF CInv, Origins
<1>7. SpentOnce'
  <2> SUFFICES ASSUME NEW k \in DOMAIN Made', NEW l \in DOMAIN Made',
                      NEW i \in DOMAIN Made'[k].ins, NEW j \in DOMAIN Made'[l].ins,
                      Settled(Made'[k].ins[i].id), Made'[k].ins[i].id = Made'[l].ins[j].id
               PROVE  k = l /\ i = j
    <3>1. \A id : Settled(id)' <=> Settled(id)
      BY <1>3 DEF Settled, Ids
    <3> QED BY <3>1 DEF SpentOnce
  <2>1. PICK m \in DOMAIN Made : \E n \in DOMAIN Made[m].ins :
            IsFrom(k, i, m, n) /\ Made'[k].ins[i] = Made[m].ins[n]
    BY <1>4
  <2>2. PICK n \in DOMAIN Made[m].ins : IsFrom(k, i, m, n) /\ Made'[k].ins[i] = Made[m].ins[n]
    BY <2>1
  <2>3. PICK p \in DOMAIN Made : \E q \in DOMAIN Made[p].ins :
            IsFrom(l, j, p, q) /\ Made'[l].ins[j] = Made[p].ins[q]
    BY <1>4
  <2>4. PICK q \in DOMAIN Made[p].ins : IsFrom(l, j, p, q) /\ Made'[l].ins[j] = Made[p].ins[q]
    BY <2>3
  <2>5. m = p /\ n = q
    BY <2>2, <2>4 DEF CInv, SpentOnce
  <2>6. k \in Int /\ l \in Int
    BY <1>2
  <2>7. CASE k <= N
    <3>1. m = k /\ n = i
      BY <2>2, <2>7 DEF IsFrom, N
    <3>2. l <= N
      BY <1>2, <2>4, <2>5, <2>6, <2>7, <3>1 DEF IsFrom, N
    <3> QED BY <2>4, <2>5, <3>1, <3>2 DEF IsFrom, N
  <2>8. CASE ~(k <= N)
    <3>1. /\ m = N + 1 /\ k - N \in 1..SplitCount
          /\ n = First(k - N) + i - 1 /\ n \in First(k - N)..Final(k - N)
      BY <2>2, <2>8 DEF IsFrom, N
    <3>2. ~(l <= N)
      BY <1>2, <2>4, <2>5, <2>6, <3>1 DEF IsFrom, N
    <3>3. /\ l - N \in 1..SplitCount
          /\ q = First(l - N) + j - 1 /\ q \in First(l - N)..Final(l - N)
      BY <2>4, <3>2 DEF IsFrom, N
    <3>4. k - N = l - N
      BY <1>1, <2>5, <3>1, <3>3, SplitsDisjoint
    <3>5. k = l
      BY <1>2, <2>6, <3>4
    <3>6. i \in Int /\ j \in Int
      <4>1. /\ k - N \in 1..SplitCount /\ k = N + (k - N)
        BY <1>2, <2>6, <3>1
      <4>2. ASSUME NEW x \in 1..SplitCount PROVE DOMAIN Made'[N + x].ins \subseteq Int
        <5>1. PICK c : DOMAIN Made'[N + x].ins = 1..c
          BY <1>1, MadeSplit DEF N
        <5>2. \A y \in 1..c : y \in Int
          OBVIOUS
        <5> QED BY <5>1, <5>2
      <4>3. PICK x \in 1..SplitCount : k = N + x
        BY <4>1
      <4>4. DOMAIN Made'[k].ins \subseteq Int
        BY <4>2, <4>3
      <4> QED BY <3>5, <4>4
    <3>7. First(k - N) \in Int
      BY <1>1, <3>1, SplitRange
    <3>8. First(k - N) + i - 1 = First(k - N) + j - 1
      BY <2>5, <3>1, <3>3, <3>5
    <3>9. \A f, a, b \in Int : f + a - 1 = f + b - 1 => a = b
      OBVIOUS
    <3>10. i = j
      BY <3>6, <3>7, <3>8, <3>9
    <3> QED BY <3>5, <3>10
  <2> QED BY <2>7, <2>8
<1>8. NothingAdded'
  <2> SUFFICES ASSUME topUps = 0, NEW k \in DOMAIN Made', NEW i \in DOMAIN Made'[k].ins
               PROVE  Made'[k].ins[i] \in Range(selected) \/ Made'[k].ins[i].id[1] = "split"
    BY <1>3 DEF NothingAdded
  <2> QED BY <1>4 DEF CInv, NothingAdded
<1>9. Len(pieces') = SplitCount
      /\ \A k \in 1..SplitCount : pieces'[k].id = <<"split", N + k>>
  <2>1. /\ DOMAIN SplitTransactions = 1..SplitCount
        /\ pieces' = [k \in DOMAIN SplitTransactions |-> PieceOf(SplitTransactions[k], N + k)]
    BY <1>1, SplitsGood DEF Split, N
  <2>2. Len(pieces') = SplitCount
    <3>1. DOMAIN pieces' = 1..SplitCount /\ pieces' = [k \in 1..SplitCount |-> pieces'[k]]
      BY <2>1
    <3> QED BY <1>2, <3>1, IntervalSeq
  <2> QED BY <2>1, <2>2 DEF PieceOf
<1>10. SplitsSpent = N /\ SplitsSpent' = N /\ Len(batch') - Len(pieces') = N
  <2>1. Len(batch') - Len(pieces') = N
    BY <1>2, <1>9
  <2> QED BY <1>3, <2>1 DEF SplitsSpent, N
<1>11. AllSpent'
  <2>1. ASSUME NEW id, SpentIn(Made, id) PROVE SpentIn(Made', id)
    <3>1. PICK m \in DOMAIN Made : \E n \in DOMAIN Made[m].ins : Made[m].ins[n].id = id
      BY <2>1 DEF SpentIn
    <3>2. PICK n \in DOMAIN Made[m].ins : Made[m].ins[n].id = id
      BY <3>1
    <3>3. \E k \in DOMAIN Made' : \E i \in DOMAIN Made'[k].ins : Made'[k].ins[i] = Made[m].ins[n]
      BY <1>1, SplitFrom
    <3> QED BY <3>2, <3>3 DEF SpentIn
  <2>2. /\ \A i \in DOMAIN selected : SpentIn(Made, selected[i].id)
        /\ \A j \in 1..N : SpentIn(Made, <<"split", j>>)
    BY <1>3, <1>10 DEF CInv, AllSpent
  <2>3. /\ \A i \in DOMAIN selected' : SpentIn(Made', selected'[i].id)
        /\ \A j \in 1..SplitsSpent' : SpentIn(Made', <<"split", j>>)
    BY <1>3, <1>10, <2>1, <2>2
  <2> QED BY <2>3 DEF AllSpent, SpentIn
<1>12. PiecesNew'
  <2>1. ASSUME NEW k \in DOMAIN Made', NEW i \in DOMAIN Made'[k].ins,
               NEW j \in Nat, Made'[k].ins[i].id = <<"split", j>>
        PROVE  j <= N
    <3>1. PICK m \in DOMAIN Made : \E n \in DOMAIN Made[m].ins :
              IsFrom(k, i, m, n) /\ Made'[k].ins[i] = Made[m].ins[n]
      BY <1>4
    <3>2. m <= N + 1 /\ m \in Int
      BY <1>2, <1>5, <3>1
    <3>3. \/ Allowed(Made'[k].ins[i])
          \/ \E x \in 1..(m - 1) : Made'[k].ins[i].id = <<"split", x>>
      BY <3>1 DEF CInv, Origins
    <3>4. ~Allowed(Made'[k].ins[i])
      BY <1>1, <2>1, UtxoIds DEF Allowed
    <3>5. PICK x \in 1..(m - 1) : Made'[k].ins[i].id = <<"split", x>>
      BY <3>3, <3>4
    <3>6. x = j
      BY <2>1, <3>5
    <3> QED BY <1>2, <3>2, <3>5, <3>6
  <2>2. DOMAIN pieces' = 1..SplitCount
    BY <1>1, <1>9, LenProperties DEF TInv, Worth, IsSeq
  <2>3. Len(pieces') <= Len(batch')
    BY <1>2, <1>9
  <2>4. \A k \in DOMAIN pieces' :
            pieces'[k].id = <<"split", Len(batch') - Len(pieces') + k>>
    BY <1>9, <1>10, <2>2
  <2>5. \A k \in DOMAIN batch' : \A i \in DOMAIN batch'[k].ins :
            \A j \in 1..Len(batch') :
                batch'[k].ins[i].id = <<"split", j>> => j <= Len(batch') - Len(pieces')
    BY <1>2, <1>3, <1>10, <2>1
  <2> QED BY <2>3, <2>4, <2>5 DEF PiecesNew
<1>13. CInv'
  BY <1>1, <1>3, <1>6, <1>7, <1>8, <1>11, <1>12 DEF CInv
<1> QED BY <1>13

-----------------------------------------------------------------------------
(* A merge spends the pieces, and coins nothing else has spent. *)

LEMMA MoreDistinct ==
    ASSUME TInv, Enough(OtherCoins) # {}
    PROVE  Distinct(More)
<1> DEFINE Kept == {i \in DOMAIN utxos : Usable(utxos[i]) /\ utxos[i] \notin Range(selected)}
<1>1. OtherCoins = Pick(utxos, Kept) /\ Kept \in SUBSET DOMAIN utxos
  BY DEF OtherCoins, Filter, Pick, Rank
<1>2. Worth(utxos) /\ Distinct(utxos)
  BY UtxosWorth, DistinctUtxos DEF TInv
<1> HIDE DEF Kept
<1>3. Distinct(OtherCoins)
  BY <1>1, <1>2, DistinctPick
<1> QED BY <1>3, MoreAre DEF Distinct

\* What a merge takes besides the pieces.
Added(more) ==
    /\ Worth(more)
    /\ Distinct(more)
    /\ candidate'.ins = pieces \o more
    /\ \A i \in DOMAIN more : Allowed(more[i]) /\ more[i] \notin Range(selected)
    /\ \/ more = << >> /\ topUps' = topUps
       \/ topUps' = topUps + 1

LEMMA MergeAdds ==
    ASSUME TInv, Merge \/ MergeWithMore
    PROVE  \E more : Added(more)
<1>1. \A coins : MergeOf(coins).ins = coins
  BY DEF MergeOf
<1>2. CASE Merge
  <2>1. candidate'.ins = pieces /\ topUps' = topUps
    BY <1>1, <1>2 DEF Merge
  <2>2. pieces \o << >> = pieces
    BY ConcatEmptySeq DEF TInv, Worth, IsSeq
  <2>3. Distinct(<< >>) /\ DOMAIN << >> = {}
    BY DEF Distinct
  <2>4. Added(<< >>)
    BY <2>1, <2>2, <2>3, WorthEmpty DEF Added
  <2> QED BY <2>4
<1>3. CASE MergeWithMore
  <2>1. /\ candidate'.ins = pieces \o More /\ topUps' = topUps + 1
        /\ request.utxos = {} /\ Enough(OtherCoins) # {}
    BY <1>1, <1>3 DEF MergeWithMore, More
  <2>2. \A i \in DOMAIN More : Allowed(More[i]) /\ More[i] \notin Range(selected)
    BY <2>1, MoreAre, OtherCoinsAre DEF Allowed
  <2>3. Added(More)
    BY <2>1, <2>2, MoreAre, MoreDistinct DEF Added
  <2> QED BY <2>3
<1> QED BY <1>2, <1>3

LEMMA MergeCInv ==
    ASSUME CInv, Merge \/ MergeWithMore
    PROVE  CInv'
<1>1. TInv /\ TInv'
  BY MergeTInv DEF CInv
<1>2. /\ pc = "merge" /\ pc' = "check" /\ answer = "pending" /\ answer' = "pending"
      /\ UNCHANGED <<utxos, request, daa, selected, batch>>
      /\ Made = batch
  BY DEF CInv, Merge, MergeWithMore, Made
<1> DEFINE N == Len(batch)
           P == Len(pieces)
<1>3. /\ N \in Nat /\ DOMAIN Made = 1..N /\ DOMAIN Made' = 1..(N + 1)
      /\ \A k \in 1..N : Made'[k] = Made[k]
      /\ Made'[N + 1] = candidate'
  <2>1. batch \in Seq(Range(batch)) /\ Made' = Append(batch, candidate')
    BY <1>1, <1>2 DEF TInv, IInv, IsSeq, Made
  <2> QED BY <1>2, <2>1, LenProperties, AppendProperties
<1>4. /\ P \in Nat /\ DOMAIN pieces = 1..P /\ P <= N
      /\ \A k \in 1..P : pieces[k].id = <<"split", N - P + k>>
  <2>1. P \in Nat /\ DOMAIN pieces = 1..P
    BY <1>1, LenProperties DEF TInv, Worth, IsSeq
  <2> QED BY <1>2, <2>1 DEF CInv, PiecesNew
<1>5. PICK more : Added(more)
  BY <1>1, MergeAdds
<1> DEFINE ins == candidate'.ins
<1>6. /\ \A i \in 1..P : i \in DOMAIN ins /\ ins[i] = pieces[i]
      /\ \A i \in DOMAIN ins : i \in Int /\ (i \in 1..P \/ (i - P \in DOMAIN more /\ ins[i] = more[i - P]))
  <2>1. /\ Worth(pieces \o more) /\ Len(pieces \o more) = P + Len(more) /\ Len(more) \in Nat
        /\ \A i \in 1..P : (pieces \o more)[i] = pieces[i]
        /\ \A i \in 1..Len(more) : (pieces \o more)[P + i] = more[i]
    BY <1>1, <1>5, WorthJoin DEF TInv, Added
  <2>2. DOMAIN (pieces \o more) = 1..(P + Len(more)) /\ DOMAIN more = 1..Len(more)
    BY <1>5, <2>1, LenProperties DEF Worth, IsSeq, Added
  <2>3. ins = pieces \o more
    BY <1>5 DEF Added
  <2> HIDE DEF ins, P
  <2>4. ASSUME NEW i \in DOMAIN ins, i \notin 1..P
        PROVE  i - P \in DOMAIN more /\ ins[i] = more[i - P]
    <3>1. i \in Int /\ i - P \in 1..Len(more) /\ P + (i - P) = i
      BY <1>4, <2>1, <2>2, <2>3, <2>4
    <3>2. (pieces \o more)[P + (i - P)] = more[i - P]
      BY <2>1, <3>1
    <3> QED BY <2>2, <2>3, <3>1, <3>2
  <2>5. \A i \in 1..P : i \in DOMAIN ins /\ ins[i] = pieces[i]
    BY <1>4, <2>1, <2>2, <2>3
  <2>6. \A i \in DOMAIN ins : i \in Int
    BY <2>2, <2>3
  <2>7. ASSUME NEW i \in DOMAIN ins
        PROVE  i \in 1..P \/ (i - P \in DOMAIN more /\ ins[i] = more[i - P])
    <3>1. CASE i \in 1..P
      BY <3>1
    <3>2. CASE i \notin 1..P
      BY <2>4, <3>2
    <3> QED BY <3>1, <3>2
  <2> QED BY <2>5, <2>6, <2>7
<1>7. /\ \A j \in DOMAIN more :
             /\ Allowed(more[j]) /\ more[j].id[1] # "split" /\ more[j].id \notin Ids(selected)
      /\ DOMAIN more # {} => topUps' = topUps + 1
      /\ topUps' = topUps \/ topUps' = topUps + 1
      /\ topUps \in Nat
  <2>1. ASSUME NEW j \in DOMAIN more
        PROVE  more[j].id[1] # "split" /\ more[j].id \notin Ids(selected)
    <3>1. more[j] \in Range(utxos) /\ more[j] \notin Range(selected)
      BY <1>5 DEF Added, Allowed
    <3>2. \A i \in DOMAIN selected : selected[i] \in Range(utxos) /\ selected[i] \in Range(selected)
      BY <1>1 DEF TInv, Range
    <3> QED BY <1>1, <3>1, <3>2, UtxoIds DEF Ids
  <2>2. topUps \in Nat
    BY <1>1 DEF TInv, Scalars
  <2> QED BY <1>5, <2>1, <2>2 DEF Added
<1> HIDE DEF N, P, ins
<1>8. \A id : Settled(id)' => Settled(id)
  BY <1>2, <1>7 DEF Settled, Ids
<1>9. Origins'
  <2>1. \A coin : Allowed(coin) => Allowed(coin)'
    BY <1>2 DEF Allowed, Usable
  <2>2. ASSUME NEW k \in DOMAIN Made', NEW i \in DOMAIN Made'[k].ins
        PROVE  \/ Allowed(Made'[k].ins[i])
               \/ \E j \in 1..(k - 1) : Made'[k].ins[i].id = <<"split", j>>
    <3>1. CASE k \in 1..N
      BY <1>3, <3>1 DEF CInv, Origins
    <3>2. CASE k = N + 1
      <4>1. Made'[k].ins = ins
        BY <1>3, <3>2 DEF ins
      <4>2. CASE i \in 1..P
        <5>1. ins[i].id = <<"split", N - P + i>>
          BY <1>4, <1>6, <4>2
        <5>2. N - P + i \in 1..(k - 1)
          BY <1>3, <1>4, <3>2, <4>2
        <5> QED BY <4>1, <5>1, <5>2
      <4>3. CASE i \notin 1..P
        BY <1>6, <1>7, <4>1, <4>3
      <4> QED BY <4>2, <4>3
    <3> QED BY <1>3, <3>1, <3>2
  <2> QED BY <2>1, <2>2 DEF Origins
<1>10. ASSUME NEW id, Settled(id)', NEW k \in 1..N, NEW i \in DOMAIN Made[k].ins,
              NEW j \in DOMAIN ins, Made[k].ins[i].id = id, ins[j].id = id
       PROVE  FALSE
  <2>1. CASE j \in 1..P
    <3>1. Made[k].ins[i].id = <<"split", N - P + j>>
      BY <1>4, <1>6, <1>10, <2>1
    <3>2. N - P + j \in 1..N /\ ~(N - P + j <= N - P)
      BY <1>3, <1>4, <2>1
    <3>3. \A x \in 1..N : Made[k].ins[i].id = <<"split", x>> => x <= N - P
      BY <1>2, <1>3 DEF CInv, PiecesNew, N, P
    <3> QED BY <3>1, <3>2, <3>3
  <2>2. CASE j \notin 1..P
    <3>1. /\ ins[j].id[1] # "split" /\ ins[j].id \notin Ids(selected) /\ topUps' = topUps + 1
      BY <1>6, <1>7, <2>2
    <3>2. topUps' <= 1
      <4>1. topUps' <= 1 \/ id \in Ids(selected) \/ id[1] = "split"
        BY <1>2, <1>10 DEF Settled, Ids
      <4> QED BY <1>10, <3>1, <4>1
    <3>3. topUps = 0
      BY <1>7, <3>1, <3>2
    <3>4. Made[k].ins[i] \in Range(selected)
      BY <1>3, <1>10, <3>1, <3>3 DEF CInv, NothingAdded
    <3> QED BY <1>10, <3>1, <3>4 DEF Ids, Range
  <2> QED BY <2>1, <2>2
<1>11. ASSUME NEW i \in DOMAIN ins, NEW j \in DOMAIN ins, ins[i].id = ins[j].id
       PROVE  i = j
  <2>1. CASE i \in 1..P /\ j \in 1..P
    <3>1. N - P + i = N - P + j
      BY <1>4, <1>6, <1>11, <2>1
    <3> QED BY <1>3, <1>4, <2>1, <3>1
  <2>2. CASE i \notin 1..P /\ j \notin 1..P
    <3>1. i - P = j - P
      BY <1>5, <1>6, <1>11, <2>2 DEF Added, Distinct
    <3> QED BY <1>4, <1>6, <3>1
  <2>3. CASE i \in 1..P /\ j \notin 1..P
    BY <1>4, <1>6, <1>7, <1>11, <2>3
  <2>4. CASE i \notin 1..P /\ j \in 1..P
    BY <1>4, <1>6, <1>7, <1>11, <2>4
  <2> QED BY <2>1, <2>2, <2>3, <2>4
<1>12. SpentOnce'
  <2> SUFFICES ASSUME NEW id, Settled(id)',
                      NEW k \in DOMAIN Made', NEW l \in DOMAIN Made',
                      NEW i \in DOMAIN Made'[k].ins, NEW j \in DOMAIN Made'[l].ins,
                      Made'[k].ins[i].id = id, Made'[l].ins[j].id = id
               PROVE  k = l /\ i = j
    BY DEF SpentOnce
  <2>1. CASE k \in 1..N /\ l \in 1..N
    <3>1. Settled(id) /\ Made'[k] = Made[k] /\ Made'[l] = Made[l]
      BY <1>3, <1>8, <2>1
    <3> QED BY <1>3, <2>1, <3>1 DEF CInv, SpentOnce
  <2>2. CASE k \in 1..N /\ l = N + 1
    BY <1>3, <1>10, <2>2 DEF ins
  <2>3. CASE k = N + 1 /\ l \in 1..N
    BY <1>3, <1>10, <2>3 DEF ins
  <2>4. CASE k = N + 1 /\ l = N + 1
    BY <1>3, <1>11, <2>4 DEF ins
  <2> QED BY <1>3, <2>1, <2>2, <2>3, <2>4
<1>13. NothingAdded'
  <2> SUFFICES ASSUME topUps' = 0, NEW k \in DOMAIN Made', NEW i \in DOMAIN Made'[k].ins
               PROVE  Made'[k].ins[i] \in Range(selected) \/ Made'[k].ins[i].id[1] = "split"
    BY <1>2 DEF NothingAdded
  <2>1. topUps = 0 /\ DOMAIN more = {}
    <3>1. topUps + 1 # 0 /\ topUps' # topUps + 1
      BY <1>7
    <3> QED BY <1>7, <3>1
  <2>2. CASE k \in 1..N
    BY <1>3, <2>1, <2>2 DEF CInv, NothingAdded
  <2>3. CASE k = N + 1
    <3>1. i \in 1..P /\ Made'[k].ins[i] = pieces[i]
      BY <1>3, <1>6, <2>1, <2>3 DEF ins
    <3> QED BY <1>4, <3>1
  <2> QED BY <1>3, <2>2, <2>3
<1>14. AllSpent'
  <2>1. SplitsSpent = N - P /\ SplitsSpent' = N
    BY <1>2 DEF SplitsSpent, N, P
  <2>2. ASSUME NEW id, SpentIn(Made, id) PROVE SpentIn(Made', id)
    <3>1. \A k \in DOMAIN Made : k \in DOMAIN Made' /\ Made'[k] = Made[k]
      BY <1>3
    <3> QED BY <2>2, <3>1 DEF SpentIn
  <2>3. /\ \A i \in DOMAIN selected : SpentIn(Made, selected[i].id)
        /\ \A j \in 1..(N - P) : SpentIn(Made, <<"split", j>>)
    BY <1>2, <2>1 DEF CInv, AllSpent
  <2>4. ASSUME NEW j \in 1..N PROVE SpentIn(Made', <<"split", j>>)
    <3>1. CASE j \in 1..(N - P)
      BY <2>2, <2>3, <3>1
    <3>2. CASE j \notin 1..(N - P)
      <4> DEFINE i == j - (N - P)
      <4>1. i \in 1..P /\ N - P + i = j
        BY <1>3, <1>4, <3>2
      <4> HIDE DEF i
      <4>2. i \in DOMAIN ins /\ ins[i].id = <<"split", j>>
        BY <1>4, <1>6, <4>1
      <4>3. N + 1 \in DOMAIN Made' /\ Made'[N + 1].ins = ins
        BY <1>3 DEF ins
      <4> QED BY <4>2, <4>3 DEF SpentIn
    <3> QED BY <3>1, <3>2
  <2>5. /\ \A i \in DOMAIN selected' : SpentIn(Made', selected'[i].id)
        /\ \A j \in 1..SplitsSpent' : SpentIn(Made', <<"split", j>>)
    BY <1>2, <2>1, <2>2, <2>3, <2>4
  <2> QED BY <2>5 DEF AllSpent, SpentIn
<1>15. PiecesNew'
  BY <1>2 DEF PiecesNew
<1> QED BY <1>1, <1>2, <1>9, <1>12, <1>13, <1>14, <1>15 DEF CInv

LEMMA NextCInv == CInv /\ [Next]_vars => CInv'
<1> SUFFICES ASSUME CInv, [Next]_vars PROVE CInv'
  OBVIOUS
<1>1. CASE Fails
  BY <1>1, FailsCInv
<1>2. CASE Validate \/ (\E r \in NodeRates : FeeLimits(r)) \/ DaaAdvances \/ UNCHANGED vars
  BY <1>2, QuietCInv
<1>3. CASE SelectUtxos
  BY <1>3, SelectCInv
<1>4. CASE Deliver
  BY <1>4, DeliverCInv
<1>5. CASE Split
  BY <1>5, SplitCInv
<1>6. CASE Merge \/ MergeWithMore
  BY <1>6, MergeCInv
<1> QED BY <1>1, <1>2, <1>3, <1>4, <1>5, <1>6 DEF Next, Fails

LEMMA CoinsInvariant == Spec => []CInv
BY InitCInv, NextCInv, PTL DEF Spec

-----------------------------------------------------------------------------
(* What a finished batch shows. *)

LEMMA BuiltMade ==
    ASSUME CInv, Built
    PROVE  /\ pc = "done" /\ Made = batch /\ Len(batch) \in Nat
           /\ \A i \in DOMAIN selected : SpentIn(batch, selected[i].id)
           /\ \A j \in 1..(Len(batch) - 1) : SpentIn(batch, <<"split", j>>)
<1>1. pc = "done" /\ Made = batch /\ SplitsSpent = Len(batch) - 1
  BY DEF CInv, Built, Made, SplitsSpent
<1>2. Len(batch) \in Nat
  BY LenProperties DEF CInv, TInv, IInv, IsSeq
<1> QED BY <1>1, <1>2 DEF CInv, AllSpent, Built

\* For every wallet and request: no coin the selection took and no output of a
\* split is left behind or spent twice, whatever the number of levels.
THEOREM GeneratorNothingLeftBehind == Spec => []NothingLeftBehind
<1>1. CInv => NothingLeftBehind
  <2> SUFFICES ASSUME CInv, Built,
                      NEW id \in {coin.id : coin \in Range(selected)}
                                 \cup {<<"split", k>> : k \in 1..(Len(batch) - 1)}
               PROVE  Cardinality({k \in DOMAIN batch : id \in Spends(batch[k])}) = 1
    BY DEF NothingLeftBehind
  <2>1. /\ Made = batch
        /\ \A i \in DOMAIN selected : SpentIn(batch, selected[i].id)
        /\ \A j \in 1..(Len(batch) - 1) : SpentIn(batch, <<"split", j>>)
    BY BuiltMade
  <2>2. SpentIn(batch, id) /\ Settled(id)
    <3>1. CASE id \in {coin.id : coin \in Range(selected)}
      <4>1. PICK i \in DOMAIN selected : id = selected[i].id
        BY <3>1 DEF Range
      <4> QED BY <2>1, <4>1 DEF Settled, Ids
    <3>2. CASE id \in {<<"split", k>> : k \in 1..(Len(batch) - 1)}
      <4>1. PICK j \in 1..(Len(batch) - 1) : id = <<"split", j>>
        BY <3>2
      <4>2. id[1] = "split"
        BY <4>1
      <4> QED BY <2>1, <4>1, <4>2 DEF Settled
    <3> QED BY <3>1, <3>2
  <2>3. PICK k \in DOMAIN batch : \E i \in DOMAIN batch[k].ins : batch[k].ins[i].id = id
    BY <2>2 DEF SpentIn
  <2>4. \A m \in DOMAIN batch : id \in Spends(batch[m]) <=> m = k
    <3>1. \A m \in DOMAIN batch : id \in Spends(batch[m]) =>
              \E j \in DOMAIN batch[m].ins : batch[m].ins[j].id = id
      BY DEF Spends
    <3>2. id \in Spends(batch[k])
      BY <2>3 DEF Spends
    <3> QED BY <2>1, <2>2, <2>3, <3>1, <3>2 DEF CInv, SpentOnce
  <2>5. {m \in DOMAIN batch : id \in Spends(batch[m])} = {k}
    BY <2>4
  <2>6. Cardinality({k}) = 1
    BY FS_Singleton
  <2> QED BY <2>5, <2>6
<1> QED BY <1>1, CoinsInvariant, PTL

LEMMA IdsCounted ==
    ASSUME NEW tx, Worth(tx.ins), Distinct(tx.ins)
    PROVE  Cardinality(Spends(tx)) = Len(tx.ins)
<1> DEFINE n == Len(tx.ins)
           f == [i \in 1..n |-> tx.ins[i].id]
<1>1. n \in Nat /\ DOMAIN tx.ins = 1..n
  BY LenProperties DEF Worth, IsSeq
<1>2. f \in Bijection(1..n, Spends(tx))
  <2> HIDE DEF n
  <2>1. f \in [1..n -> Spends(tx)]
    BY <1>1 DEF Spends
  <2>2. \A i, j \in 1..n : f[i] = f[j] => i = j
    BY <1>1 DEF Distinct
  <2>3. \A id \in Spends(tx) : \E i \in 1..n : f[i] = id
    BY <1>1 DEF Spends
  <2> HIDE DEF f
  <2> QED BY <2>1, <2>2, <2>3 DEF Bijection, Injection, Surjection, IsInjective
<1> HIDE DEF n, f
<1>3. IsFiniteSet(1..n) /\ Cardinality(1..n) = n
  BY <1>1, UpTo
<1>4. Cardinality(Spends(tx)) = Cardinality(1..n)
  <2>1. ExistsBijection(1..n, Spends(tx))
    BY <1>2 DEF ExistsBijection
  <2> QED BY <1>3, <2>1, FS_Bijection
<1> QED BY <1>3, <1>4 DEF n

\* For every wallet and request: a batch to which at most one merge has added
\* coins spends nothing twice, and only what is there when its turn comes.
THEOREM GeneratorSubmittableInOrder == Spec => []SubmittableInOrder
<1>1. CInv => SubmittableInOrder
  <2> SUFFICES ASSUME CInv, Built, topUps <= 1, NEW k \in DOMAIN batch
               PROVE  /\ Cardinality(Spends(batch[k])) = Len(batch[k].ins)
                      /\ \A j \in 1..(k - 1) : Spends(batch[j]) \cap Spends(batch[k]) = {}
                      /\ \A coin \in Range(batch[k].ins) :
                             \/ /\ coin \in Range(utxos) /\ Usable(coin)
                                /\ request.utxos = {} \/ coin.id \in request.utxos
                             \/ coin.id[1] = "split" /\ coin.id[2] < k
    BY DEF SubmittableInOrder
  <2>1. Made = batch /\ Len(batch) \in Nat /\ DOMAIN batch = 1..Len(batch)
    BY BuiltMade, LenProperties DEF CInv, TInv, IInv, IsSeq
  <2>2. \A l, m \in DOMAIN batch : \A i \in DOMAIN batch[l].ins, j \in DOMAIN batch[m].ins :
            batch[l].ins[i].id = batch[m].ins[j].id => l = m /\ i = j
    BY <2>1 DEF CInv, SpentOnce, Settled
  <2>3. Cardinality(Spends(batch[k])) = Len(batch[k].ins)
    <3>1. Worth(batch[k].ins) /\ Distinct(batch[k].ins)
      BY <2>2 DEF CInv, TInv, GoodTx, Distinct
    <3> QED BY <3>1, IdsCounted
  <2>4. ASSUME NEW j \in 1..(k - 1) PROVE Spends(batch[j]) \cap Spends(batch[k]) = {}
    <3>1. j \in DOMAIN batch /\ j # k
      BY <2>1
    <3> QED BY <2>2, <3>1 DEF Spends
  <2>5. ASSUME NEW coin \in Range(batch[k].ins)
        PROVE  \/ /\ coin \in Range(utxos) /\ Usable(coin)
                  /\ request.utxos = {} \/ coin.id \in request.utxos
               \/ coin.id[1] = "split" /\ coin.id[2] < k
    <3>1. PICK i \in DOMAIN batch[k].ins : coin = batch[k].ins[i]
      BY DEF Range
    <3>2. Allowed(coin) \/ \E j \in 1..(k - 1) : coin.id = <<"split", j>>
      BY <2>1, <3>1 DEF CInv, Origins
    <3>3. CASE Allowed(coin)
      BY <3>3 DEF Allowed
    <3>4. CASE \E j \in 1..(k - 1) : coin.id = <<"split", j>>
      <4>1. PICK j \in 1..(k - 1) : coin.id = <<"split", j>>
        BY <3>4
      <4>2. j < k /\ coin.id[1] = "split" /\ coin.id[2] = j
        BY <2>1, <4>1
      <4> QED BY <4>2
    <3> QED BY <3>2, <3>3, <3>4
  <2> QED BY <2>3, <2>4, <2>5
<1> QED BY <1>1, CoinsInvariant, PTL
=============================================================================
