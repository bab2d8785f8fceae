-------------------- MODULE TransactionGenerator_proofs --------------------
(***************************************************************************)
(* Whatever the wallet, the request, the fee rate and the masses: every    *)
(* transaction the generator puts into a batch has a mass the node relays. *)
(***************************************************************************)
EXTENDS TransactionGenerator, FiniteSetTheorems, SequenceTheorems, WellFoundedInduction, TLAPS

IsSeq(s) == s \in Seq(Range(s))

\* Division rounds down, and rounding up stays in the naturals.
LEMMA DivTimes ==
    ASSUME NEW a \in Nat, NEW b \in Nat \ {0}
    PROVE  a \div b \in Nat /\ b * (a \div b) <= a
OBVIOUS

LEMMA CeilDivType ==
    ASSUME NEW a \in Nat, NEW b \in Nat \ {0}
    PROVE  CeilDiv(a, b) \in Nat
<1>1. a + b - 1 \in Nat
  OBVIOUS
<1> QED BY <1>1, DivTimes DEF CeilDiv

\* Products of naturals: the provers do not find these alone.
LEMMA TimesNat ==
    ASSUME NEW a \in Nat, NEW b \in Nat
    PROVE  a * b \in Nat
OBVIOUS

LEMMA TimesMonotone ==
    ASSUME NEW a \in Nat, NEW b \in Nat, NEW c \in Nat, a <= b
    PROVE  a * c <= b * c
OBVIOUS

LEMMA SumNat ==
    ASSUME NEW a \in Nat, NEW b \in Nat, NEW c \in Nat, NEW d \in Nat
    PROVE  a + b + c + d \in Int
OBVIOUS

LEMMA MassTypes ==
    /\ ComputeMass(0, 1, 0) = BaseMass + OutputMass
    /\ InputMass \in Nat \ {0}
    /\ BaseMass \in Nat
    /\ OutputMass \in Nat
    /\ MaxStandardMass \in Nat
<1>1. ScriptMass \in Nat
  <2>1. CeilDiv(MassPerSigOp, GramsPerBudgetUnit) \in Nat
    BY CeilDivType, MassAssumption
  <2>2. MinimumSignatures \in Nat /\ GramsPerBudgetUnit \in Nat /\ MassPerSigOp \in Nat
    BY MassAssumption
  <2>3. ComputeBudget \in Nat
    BY <2>1, <2>2, TimesNat DEF ComputeBudget
  <2> QED BY <2>2, <2>3, TimesNat DEF ScriptMass
<1>2. MinimumSignatures * SignatureMass \in Nat
  BY MassAssumption, TimesNat
<1>3. InputBytes \in Nat /\ InputBytes > 0
  BY MassAssumption
<1>4. InputMass \in Nat \ {0}
  BY <1>1, <1>2, <1>3 DEF InputMass
<1>5. BaseMass \in Nat /\ OutputMass \in Nat /\ MaxStandardMass \in Nat
  BY MassAssumption
<1> QED BY <1>4, <1>5 DEF ComputeMass

\* At least one input fits into a split transaction, and those that fit leave
\* it standard.
LEMMA SplitCapacity ==
    /\ InputsPerSplit \in Nat \ {0}
    /\ BaseMass + InputsPerSplit * InputMass + OutputMass <= MaxStandardMass
<1> DEFINE room == MaxStandardMass - (BaseMass + OutputMass)
<1>1. room \in Nat /\ room >= InputMass
  BY GeneratorAssumption, MassTypes DEF ComputeMass
<1>2. InputsPerSplit = room \div InputMass
  BY MassTypes DEF InputsPerSplit
<1>3. InputsPerSplit \in Nat /\ InputMass * InputsPerSplit <= room
  BY <1>1, <1>2, MassTypes, DivTimes
<1>4. InputsPerSplit # 0
  <2> HIDE DEF room
  <2> QED BY <1>1, <1>2, MassTypes
<1>5. InputMass * InputsPerSplit = InputsPerSplit * InputMass
  BY <1>3, MassTypes
<1> QED BY <1>1, <1>3, <1>4, <1>5, MassTypes

-----------------------------------------------------------------------------
(* Sequences the generator builds. *)

LEMMA RangeSeq ==
    ASSUME NEW S, NEW s \in Seq(S)
    PROVE  IsSeq(s)
<1>1. s \in [1..Len(s) -> Range(s)] /\ Len(s) \in Nat
  BY DEF Range
<1> QED BY <1>1, SeqDef DEF IsSeq

\* A function on an interval from 1 is a sequence.
LEMMA IntervalSeq ==
    ASSUME NEW n \in Nat, NEW s, DOMAIN s = 1..n, s = [i \in 1..n |-> s[i]]
    PROVE  IsSeq(s) /\ Len(s) = n
<1>1. s \in [1..n -> Range(s)]
  BY DEF Range
<1>2. s \in Seq(Range(s))
  BY <1>1, SeqDef
<1> QED BY <1>2, LenProperties DEF IsSeq

LEMMA ConcatSeq ==
    ASSUME NEW s, NEW t, IsSeq(s), IsSeq(t)
    PROVE  /\ IsSeq(s \o t)
           /\ Range(s \o t) = Range(s) \cup Range(t)
<1> DEFINE S == Range(s) \cup Range(t)
<1>1. s \in Seq(S) /\ t \in Seq(S)
  BY SeqMonotonic DEF IsSeq
<1>2. s \o t \in Seq(S)
  BY <1>1, ConcatProperties
<1>3. IsSeq(s \o t)
  BY <1>2, RangeSeq
<1>4. Range(s \o t) = Range(s) \cup Range(t)
  BY <1>1, RangeConcatenation
<1> QED BY <1>3, <1>4

\* What Filter keeps of a sequence is finite.
LEMMA KeptFinite ==
    ASSUME NEW s, IsSeq(s), NEW Kept \in SUBSET DOMAIN s
    PROVE  Cardinality(Kept) \in Nat
<1>1. Len(s) \in Nat /\ DOMAIN s = 1..Len(s)
  BY LenProperties DEF IsSeq
<1>2. IsFiniteSet(Kept)
  <2>1. IsFiniteSet(1..Len(s))
    BY <1>1, FS_Interval
  <2> QED BY <1>1, <2>1, FS_Subset
<1> QED BY <1>2, FS_CardinalityType

LEMMA EmptyIsSeq == IsSeq(<< >>) /\ Len(<< >>) = 0 /\ Range(<< >>) = {}
<1>1. << >> \in Seq({}) /\ Len(<< >>) = 0
  OBVIOUS
<1>2. DOMAIN << >> = {}
  OBVIOUS
<1>3. Range(<< >>) = {}
  BY <1>2 DEF Range
<1> QED BY <1>1, <1>3 DEF IsSeq

\* A part of anything is a sequence, of the length its ends give.
LEMMA PartSeq ==
    ASSUME NEW s, NEW m \in Int, NEW n \in Int
    PROVE  /\ IsSeq(SubSeq(s, m, n))
           /\ Len(SubSeq(s, m, n)) = IF m <= n THEN n - m + 1 ELSE 0
<1> DEFINE S == {s[i] : i \in m..n}
<1>1. SubSeq(s, m, n) \in Seq(S) /\ Len(SubSeq(s, m, n)) = IF m <= n THEN n - m + 1 ELSE 0
  BY SubSeqProperties
<1>2. IsSeq(SubSeq(s, m, n))
  BY <1>1, RangeSeq
<1> QED BY <1>1, <1>2

-----------------------------------------------------------------------------
(* The inductive invariant. *)

IsTx(tx) == /\ IsSeq(tx.ins)
            /\ Len(tx.outs) \in Nat
            /\ tx.payload \in Nat

IInv ==
    /\ utxos \in Wallets
    /\ request \in Requests
    /\ IsTx(candidate)
    /\ IsSeq(pieces)
    /\ IsSeq(batch)
    /\ StandardMass

LEMMA InitIInv == Init => IInv
<1> SUFFICES ASSUME Init PROVE IInv
  OBVIOUS
<1>1. IsSeq(<< >>) /\ Len(<< >>) \in Nat /\ Range(<< >>) = {}
  BY EmptyIsSeq
<1>2. IsTx(NoTx)
  BY <1>1 DEF IsTx, NoTx
<1> QED BY <1>1, <1>2 DEF Init, IInv, StandardMass

\* Whatever ends the call throws the batch away.
LEMMA FailIInv ==
    ASSUME IInv, NEW e, Fail(e)
    PROVE  IInv'
<1>1. IsSeq(<< >>) /\ Range(<< >>) = {}
  BY EmptyIsSeq
<1>2. batch' = << >> /\ UNCHANGED <<utxos, request, candidate, pieces>>
  BY DEF Fail
<1> QED BY <1>1, <1>2 DEF IInv, StandardMass, IsTx, IsSeq

LEMMA PaymentsLen ==
    ASSUME NEW p, NEW c
    PROVE  Len(Payments(p, c)) \in Nat
BY DEF Payments

LEMMA MinElement ==
    ASSUME NEW S \in SUBSET Nat, S # {}
    PROVE  Min(S) \in S /\ \A y \in S : Min(S) <= y
<1> DEFINE R == {ss \in Nat \X Nat : ss[1] < ss[2]}
<1>1. IsWellFoundedOn(R, Nat)
  BY NatLessThanWellFounded, Zenon DEF OpToRel
<1>2. PICK x \in S : \A y \in S : ~(<<y, x>> \in R)
  BY <1>1, WFMin, Zenon
<1>3. ASSUME NEW y \in S PROVE x <= y
  <2>1. ~(<<y, x>> \in R)
    BY <1>2
  <2>2. <<y, x>> \in Nat \X Nat /\ <<y, x>>[1] = y /\ <<y, x>>[2] = x
    OBVIOUS
  <2>3. ~(y < x)
    BY <2>1, <2>2
  <2> QED BY <2>3
<1> QED BY <1>2, <1>3 DEF Min


\* SelectUtxos takes a part of some order of the coins.
LEMMA TakenSeq ==
    ASSUME NEW coins, IsSeq(coins)
    PROVE  IsSeq(Selection(coins))
<1>1. Len(coins) \in Nat
  BY LenProperties DEF IsSeq
<1>2. Taken(coins) \in Int
  <2> DEFINE stops == {n \in 1..Len(coins) : StopsAt(coins, n)}
  <2>1. stops \in SUBSET Nat
    BY <1>1
  <2>2. stops # {} => Min(stops) \in stops
    BY <2>1, MinElement
  <2>3. Taken(coins) = IF stops = {} THEN Len(coins) ELSE Min(stops)
    BY DEF Taken
  <2> QED BY <1>1, <2>1, <2>2, <2>3
<1> QED BY <1>2, PartSeq DEF Selection

LEMMA OrdersSeq ==
    ASSUME IInv, NEW order \in Orders
    PROVE  IsSeq(order)
<1>1. IsSeq(utxos)
  BY GeneratorAssumption DEF IInv, IsSeq
<1>2. CASE request.utxos = {}
  BY <1>1, <1>2 DEF Orders
<1>3. CASE request.utxos # {}
  <2> DEFINE D == {j \in DOMAIN utxos : utxos[j].id \in request.utxos}
             S == {utxos[i] : i \in D}
  <2>1. IsFiniteSet(D)
    <3>1. DOMAIN utxos = 1..Len(utxos) /\ Len(utxos) \in Nat
      BY <1>1, LenProperties DEF IsSeq
    <3>2. IsFiniteSet(1..Len(utxos))
      BY <3>1, FS_Interval
    <3> QED BY <3>1, <3>2, FS_Subset
  <2>2. IsFiniteSet(S)
    <3> DEFINE f == [i \in D |-> utxos[i]]
    <3>1. f \in Surjection(D, S)
      BY DEF Surjection
    <3> QED BY <2>1, <3>1, FS_Surjection
  <2>3. Cardinality(S) \in Nat
    BY <2>2, FS_CardinalityType
  <2>4. order \in [1..Cardinality(S) -> S]
    BY <1>3 DEF Orders, SetToSeqs
  <2>5. order \in Seq(S)
    BY <2>3, <2>4, SeqDef
  <2> QED BY <2>5, RangeSeq
<1> QED BY <1>2, <1>3

LEMMA SelectIInv == IInv /\ SelectUtxos => IInv'
<1> SUFFICES ASSUME IInv, SelectUtxos PROVE IInv'
  OBVIOUS
<1>1. PICK order \in Orders :
         LET coins == Filter(order, Usable)
         IN  /\ candidate'.ins = Selection(coins)
             /\ \E p, c : candidate'.outs = Payments(p, c)
             /\ candidate'.payload = request.payload
  BY DEF SelectUtxos
<1> DEFINE coins == Filter(order, Usable)
<1>2. IsSeq(coins)
  <2>1. IsSeq(order)
    BY OrdersSeq
  <2> DEFINE Kept == {i \in DOMAIN order : Usable(order[i])}
  <2>2. Kept \in SUBSET DOMAIN order
    OBVIOUS
  <2>3. /\ DOMAIN coins = 1..Cardinality(Kept)
        /\ coins = [k \in 1..Cardinality(Kept) |-> coins[k]]
    BY DEF Filter
  <2>4. Cardinality(Kept) \in Nat
    BY <2>1, <2>2, KeptFinite
  <2> HIDE DEF Kept, coins
  <2> QED BY <2>3, <2>4, IntervalSeq
<1>3. IsSeq(candidate'.ins)
  BY <1>1, <1>2, TakenSeq
<1>4. Len(candidate'.outs) \in Nat /\ candidate'.payload \in Nat
  BY <1>1, PaymentsLen, GeneratorAssumption DEF IInv
<1>5. UNCHANGED <<utxos, request, pieces, batch>>
  BY DEF SelectUtxos
<1> QED BY <1>3, <1>4, <1>5 DEF IInv, IsTx, IsSeq, StandardMass

LEMMA DeliverIInv == IInv /\ Deliver => IInv'
<1> SUFFICES ASSUME IInv, Deliver PROVE IInv'
  OBVIOUS
<1>1. /\ TxComputeMass(candidate) < MaxStandardMass
      /\ batch' = Append(batch, candidate)
      /\ UNCHANGED <<utxos, request, candidate, pieces>>
  BY DEF Deliver
<1>2. TxComputeMass(candidate) \in Int
  <2>1. Len(candidate.ins) \in Nat /\ Len(candidate.outs) \in Nat /\ candidate.payload \in Nat
    BY LenProperties DEF IInv, IsTx, IsSeq
  <2>2. Len(candidate.ins) * InputMass \in Nat /\ Len(candidate.outs) * OutputMass \in Nat
    BY <2>1, MassTypes, TimesNat
  <2>3. BaseMass + Len(candidate.ins) * InputMass + Len(candidate.outs) * OutputMass
            + candidate.payload \in Int
    BY <2>1, <2>2, MassTypes, SumNat
  <2> QED BY <2>3 DEF TxComputeMass, ComputeMass
<1>3. TxComputeMass(candidate) <= MaxStandardMass
  BY <1>1, <1>2, MassTypes
<1>4. IsSeq(<<candidate>>) /\ Range(<<candidate>>) = {candidate}
  <2>1. <<candidate>> \in Seq({candidate})
    OBVIOUS
  <2>2. IsSeq(<<candidate>>)
    BY <2>1, RangeSeq
  <2>3. DOMAIN <<candidate>> = {1} /\ <<candidate>>[1] = candidate
    OBVIOUS
  <2>4. Range(<<candidate>>) = {candidate}
    BY <2>3 DEF Range
  <2> QED BY <2>2, <2>4
<1>5. batch' = batch \o <<candidate>>
  BY <1>1, AppendIsConcat DEF IInv, IsSeq
<1>6. IsSeq(batch') /\ Range(batch') = Range(batch) \cup {candidate}
  BY <1>4, <1>5, ConcatSeq DEF IInv
<1>7. \A tx \in Range(batch') : TxComputeMass(tx) <= MaxStandardMass
  BY <1>3, <1>6 DEF IInv, StandardMass
<1> QED BY <1>1, <1>6, <1>7 DEF IInv, IsTx, IsSeq, StandardMass

\* No split transaction holds more inputs than fit.
LEMMA SplitIInv == IInv /\ Split => IInv'
<1> SUFFICES ASSUME IInv, Split PROVE IInv'
  OBVIOUS
<1> DEFINE splits == SplitTransactions
           n == Len(candidate.ins)
           Part(k) == SubSeq(candidate.ins, (k - 1) * InputsPerSplit + 1,
                             Smaller(k * InputsPerSplit, n))
<1>1. /\ batch' = batch \o splits
      /\ pieces' = [k \in DOMAIN splits |-> PieceOf(splits[k], Len(batch) + k)]
      /\ UNCHANGED <<utxos, request, candidate>>
  BY DEF Split
<1>2. n \in Nat /\ SplitCount \in Nat
  BY CeilDivType, SplitCapacity, LenProperties DEF IInv, IsTx, IsSeq, SplitCount
<1>3. splits = [k \in 1..SplitCount |-> SplitOf(Part(k))]
  BY DEF SplitTransactions
<1>4. IsSeq(splits)
  <2>1. DOMAIN splits = 1..SplitCount /\ splits = [k \in 1..SplitCount |-> splits[k]]
    BY <1>3
  <2> HIDE DEF splits
  <2> QED BY <1>2, <2>1, IntervalSeq
<1>5. IsSeq(pieces')
  <2>1. DOMAIN splits = 1..SplitCount
    BY <1>3
  <2>2. DOMAIN pieces' = 1..SplitCount /\ pieces' = [k \in 1..SplitCount |-> pieces'[k]]
    BY <1>1, <2>1
  <2> QED BY <1>2, <2>2, IntervalSeq
<1>6. ASSUME NEW k \in 1..SplitCount
      PROVE  TxComputeMass(splits[k]) <= MaxStandardMass
  <2>1. /\ InputsPerSplit \in Nat
        /\ (k - 1) * InputsPerSplit \in Nat
        /\ k * InputsPerSplit \in Nat
        /\ k * InputsPerSplit = (k - 1) * InputsPerSplit + InputsPerSplit
    BY <1>2, SplitCapacity
  <2>2. Smaller(k * InputsPerSplit, n) \in Nat
        /\ Smaller(k * InputsPerSplit, n) <= k * InputsPerSplit
    BY <1>2, <2>1 DEF Smaller
  <2>3. Len(Part(k)) \in Nat /\ Len(Part(k)) <= InputsPerSplit
    BY <2>1, <2>2, PartSeq
  <2>4. splits[k].ins = Part(k) /\ Len(splits[k].outs) = 1 /\ splits[k].payload = 0
    BY <1>3 DEF SplitOf
  <2>5. TxComputeMass(splits[k]) = BaseMass + Len(Part(k)) * InputMass + OutputMass
    <3> HIDE DEF splits, Part
    <3>1. Len(Part(k)) * InputMass \in Nat
      BY <2>3, MassTypes, TimesNat
    <3> QED BY <2>4, <3>1, MassTypes DEF TxComputeMass, ComputeMass
  <2>6. Len(Part(k)) * InputMass <= InputsPerSplit * InputMass
    <3> HIDE DEF Part
    <3> QED BY <2>1, <2>3, MassTypes, TimesMonotone
  <2>7. InputsPerSplit * InputMass \in Nat /\ Len(Part(k)) * InputMass \in Nat
    <3> HIDE DEF Part
    <3> QED BY <2>1, <2>3, MassTypes, TimesNat
  <2> HIDE DEF splits, Part
  <2> QED BY <2>5, <2>6, <2>7, SplitCapacity, MassTypes
<1>7. IsSeq(batch') /\ Range(batch') = Range(batch) \cup Range(splits)
  BY <1>1, <1>4, ConcatSeq DEF IInv
<1>8. \A tx \in Range(splits) : TxComputeMass(tx) <= MaxStandardMass
  <2>1. DOMAIN splits = 1..SplitCount
    BY <1>3
  <2> HIDE DEF splits
  <2> QED BY <1>6, <2>1 DEF Range
<1>9. \A tx \in Range(batch') : TxComputeMass(tx) <= MaxStandardMass
  BY <1>7, <1>8 DEF IInv, StandardMass
<1> QED BY <1>1, <1>5, <1>7, <1>9 DEF IInv, IsTx, IsSeq, StandardMass

\* A merge spends the pieces, and perhaps other coins.
LEMMA MergeIInv == IInv /\ (Merge \/ MergeWithMore) => IInv'
<1> SUFFICES ASSUME IInv, Merge \/ MergeWithMore PROVE IInv'
  OBVIOUS
<1>1. pieces' = << >> /\ UNCHANGED <<utxos, request, batch>>
  BY DEF Merge, MergeWithMore
<1>2. PICK coins : IsSeq(coins) /\ candidate' = MergeOf(coins)
  <2>1. CASE Merge
    BY <2>1 DEF Merge, IInv
  <2>2. CASE MergeWithMore
    <3> DEFINE more == SubSeq(OtherCoins, 1, Min(Enough(OtherCoins)))
    <3>1. IsSeq(OtherCoins)
      <4> DEFINE Kept == {i \in DOMAIN utxos : Usable(utxos[i]) /\ utxos[i] \notin Range(selected)}
      <4>1. IsSeq(utxos)
        BY GeneratorAssumption DEF IInv, IsSeq
      <4>2. Cardinality(Kept) \in Nat
        BY <4>1, KeptFinite
      <4>3. /\ DOMAIN OtherCoins = 1..Cardinality(Kept)
            /\ OtherCoins = [k \in 1..Cardinality(Kept) |-> OtherCoins[k]]
        BY DEF OtherCoins, Filter
      <4> QED BY <4>2, <4>3, IntervalSeq
    <3>2. Enough(OtherCoins) \in SUBSET Nat
      BY <3>1, LenProperties DEF Enough, IsSeq
    <3>3. Min(Enough(OtherCoins)) \in Int
      BY <2>2, <3>2, MinElement DEF MergeWithMore
    <3>4. IsSeq(more)
      BY <3>3, PartSeq
    <3>5. IsSeq(pieces \o more)
      BY <3>4, ConcatSeq DEF IInv
    <3> QED BY <2>2, <3>5 DEF MergeWithMore
  <2> QED BY <2>1, <2>2
<1>3. IsTx(candidate')
  BY <1>2, PaymentsLen DEF MergeOf, IInv, IsTx
<1> QED BY <1>1, <1>3, EmptyIsSeq DEF IInv, IsTx, IsSeq, StandardMass

LEMMA NextIInv == IInv /\ [Next]_vars => IInv'
<1> SUFFICES ASSUME IInv, [Next]_vars PROVE IInv'
  OBVIOUS
<1>1. CASE UNCHANGED <<utxos, request, candidate, pieces, batch>>
  BY <1>1 DEF IInv, IsTx, IsSeq, StandardMass
<1>2. CASE Refuse \/ RefuseRate \/ CannotAfford \/ CheckFails \/ SplitFails
           \/ MergeFails \/ RpcFails
  BY <1>2, FailIInv DEF Refuse, RefuseRate, CannotAfford, CheckFails, SplitFails,
                        MergeFails, RpcFails
<1>3. CASE Validate \/ (\E r \in NodeRates : FeeLimits(r)) \/ DaaAdvances
  BY <1>1, <1>3 DEF Validate, FeeLimits, DaaAdvances
<1>4. CASE SelectUtxos
  BY <1>4, SelectIInv
<1>5. CASE Deliver
  BY <1>5, DeliverIInv
<1>6. CASE Split
  BY <1>6, SplitIInv
<1>7. CASE Merge \/ MergeWithMore
  BY <1>7, MergeIInv
<1>8. CASE UNCHANGED vars
  BY <1>1, <1>8 DEF vars
<1> QED BY <1>2, <1>3, <1>4, <1>5, <1>6, <1>7, <1>8 DEF Next

\* Whatever the coins, the request, the fee rate and the number of levels: no
\* transaction of the batch is above the mass the node relays.
THEOREM GeneratorStandardMass == Spec => []StandardMass
<1>1. IInv => StandardMass
  BY DEF IInv
<1> QED BY InitIInv, NextIInv, <1>1, PTL DEF Spec

=============================================================================
