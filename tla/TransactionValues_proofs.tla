---------------------- MODULE TransactionValues_proofs ----------------------
(***************************************************************************)
(* What the transactions of a batch are worth.                             *)
(***************************************************************************)
EXTENDS TransactionGenerator_proofs

-----------------------------------------------------------------------------
(* Sums.  The recursion has one solution: were there none on some 0..m, there *)
(* would be a least such m, and the solution before it could be extended.   *)

\* f adds up the first values.
Adds(f, values, m) ==
    f = [n \in 0..m |-> IF n = 0 THEN 0 ELSE f[n - 1] + values[n]]

LEMMA SumsExist ==
    ASSUME NEW values, NEW len \in Nat
    PROVE  \E f : Adds(f, values, len)
<1> DEFINE bad == {m \in Nat : ~ \E f : Adds(f, values, m)}
<1> SUFFICES ASSUME bad # {} PROVE FALSE
  OBVIOUS
<1>1. PICK m \in bad : \A k \in bad : m <= k
  <2>1. bad \in SUBSET Nat
    OBVIOUS
  <2> HIDE DEF bad
  <2> QED BY <2>1, MinElement
<1>2. m \in Nat /\ ~ \E f : Adds(f, values, m)
  OBVIOUS
<1>3. CASE m = 0
  <2>1. Adds([n \in 0..0 |-> 0], values, 0)
    BY DEF Adds
  <2> QED BY <1>2, <1>3, <2>1
<1>4. CASE m # 0
  <2>1. m - 1 \in Nat /\ m - 1 \notin bad
    BY <1>1, <1>2, <1>4
  <2>2. PICK f : Adds(f, values, m - 1)
    BY <2>1
  <2> DEFINE g == [n \in 0..m |-> IF n = m THEN f[m - 1] + values[m] ELSE f[n]]
  <2>3. \A n \in 0..(m - 1) : f[n] = IF n = 0 THEN 0 ELSE f[n - 1] + values[n]
    BY <2>2 DEF Adds
  <2>4. \A n \in 0..m : g[n] = IF n = 0 THEN 0 ELSE g[n - 1] + values[n]
    <3> SUFFICES ASSUME NEW n \in 0..m
                 PROVE  g[n] = IF n = 0 THEN 0 ELSE g[n - 1] + values[n]
      OBVIOUS
    <3>1. CASE n = m
      BY <1>2, <1>4, <3>1
    <3>2. CASE n # m
      <4>1. n \in 0..(m - 1) /\ g[n] = f[n] /\ (n # 0 => g[n - 1] = f[n - 1])
        BY <1>2, <3>2
      <4> QED BY <2>3, <4>1
    <3> QED BY <3>1, <3>2
  <2>5. Adds(g, values, m)
    BY <2>4 DEF Adds
  <2> QED BY <1>2, <2>5
<1> QED BY <1>3, <1>4

\* So a sum has the value its recursion gives.
LEMMA TotalSteps ==
    ASSUME NEW values, Len(values) \in Nat
    PROVE  \E f : Adds(f, values, Len(values)) /\ TotalOf(values) = f[Len(values)]
<1> DEFINE sum[n \in 0..Len(values)] == IF n = 0 THEN 0 ELSE sum[n - 1] + values[n]
<1>1. TotalOf(values) = sum[Len(values)]
  BY DEF TotalOf
<1>2. \E f : Adds(f, values, Len(values))
  BY SumsExist
<1>3. Adds(sum, values, Len(values))
  BY <1>2 DEF Adds
<1> QED BY <1>1, <1>3

LEMMA TotalNat ==
    ASSUME NEW values, Len(values) \in Nat, \A n \in 1..Len(values) : values[n] \in Nat
    PROVE  TotalOf(values) \in Nat
<1>1. PICK f : Adds(f, values, Len(values)) /\ TotalOf(values) = f[Len(values)]
  BY TotalSteps
<1>2. \A n \in 0..Len(values) : f[n] = IF n = 0 THEN 0 ELSE f[n - 1] + values[n]
  BY <1>1 DEF Adds
<1> DEFINE bad == {n \in 0..Len(values) : f[n] \notin Nat}
<1>3. bad = {}
  <2> SUFFICES ASSUME bad # {} PROVE FALSE
    OBVIOUS
  <2>1. bad \in SUBSET Nat
    OBVIOUS
  <2>2. PICK m \in bad : \A k \in bad : m <= k
    <3> HIDE DEF bad
    <3> QED BY <2>1, MinElement
  <2>3. m # 0 /\ m - 1 \in 0..Len(values) /\ m - 1 \notin bad
    BY <1>2, <2>1, <2>2
  <2>4. f[m - 1] \in Nat /\ values[m] \in Nat /\ f[m] = f[m - 1] + values[m]
    BY <1>2, <2>3
  <2> QED BY <2>2, <2>4
<1> QED BY <1>1, <1>3

LEMMA TotalOfFew ==
    /\ \A values : Len(values) = 0 => TotalOf(values) = 0
    /\ \A values : Len(values) = 1 /\ values[1] \in Int => TotalOf(values) = values[1]
    /\ \A values : Len(values) = 2 /\ values[1] \in Int /\ values[2] \in Int =>
           TotalOf(values) = values[1] + values[2]
<1>1. ASSUME NEW values, Len(values) \in 0..2
      PROVE  \E f : /\ TotalOf(values) = f[Len(values)]
                    /\ f[0] = 0
                    /\ Len(values) > 0 => f[1] = f[0] + values[1]
                    /\ Len(values) > 1 => f[2] = f[1] + values[2]
  <2>1. PICK f : Adds(f, values, Len(values)) /\ TotalOf(values) = f[Len(values)]
    BY <1>1, TotalSteps
  <2>2. \A n \in 0..Len(values) : f[n] = IF n = 0 THEN 0 ELSE f[n - 1] + values[n]
    BY <2>1 DEF Adds
  <2> QED BY <1>1, <2>1, <2>2
<1>2. ASSUME NEW values, Len(values) = 0 PROVE TotalOf(values) = 0
  BY <1>1, <1>2
<1>3. ASSUME NEW values, Len(values) = 1, values[1] \in Int PROVE TotalOf(values) = values[1]
  <2>1. PICK f : TotalOf(values) = f[1] /\ f[0] = 0 /\ f[1] = f[0] + values[1]
    BY <1>1, <1>3
  <2> QED BY <1>3, <2>1
<1>4. ASSUME NEW values, Len(values) = 2, values[1] \in Int, values[2] \in Int
      PROVE  TotalOf(values) = values[1] + values[2]
  <2>1. PICK f : /\ TotalOf(values) = f[2] /\ f[0] = 0
                 /\ f[1] = f[0] + values[1] /\ f[2] = f[1] + values[2]
    <3>1. Len(values) \in 0..2 /\ Len(values) > 0 /\ Len(values) > 1
      BY <1>4
    <3>2. PICK f : /\ TotalOf(values) = f[Len(values)] /\ f[0] = 0
                   /\ f[1] = f[0] + values[1] /\ f[2] = f[1] + values[2]
      BY <1>1, <3>1
    <3> QED BY <1>4, <3>2
  <2>2. f[1] = values[1]
    BY <1>4, <2>1
  <2> QED BY <1>4, <2>1, <2>2
<1> QED BY <1>2, <1>3, <1>4

-----------------------------------------------------------------------------
(* What Filter keeps: Pick(s, Kept) is the elements of s at the positions in  *)
(* Kept, in their order.                                                     *)

Rank(Kept, i) == Cardinality({j \in Kept : j < i})
Pick(s, Kept) ==
    [k \in 1..Cardinality(Kept) |-> s[CHOOSE i \in Kept : Rank(Kept, i) = k - 1]]

\* Each number below the cardinality is the rank of one position.
LEMMA Ranks ==
    ASSUME NEW Kept \in SUBSET Nat, IsFiniteSet(Kept)
    PROVE  /\ \A i \in Kept : Rank(Kept, i) \in 0..(Cardinality(Kept) - 1)
           /\ \A i, j \in Kept : Rank(Kept, i) = Rank(Kept, j) => i = j
           /\ \A k \in 1..Cardinality(Kept) : \E i \in Kept : Rank(Kept, i) = k - 1
<1> DEFINE Below(i) == {j \in Kept : j < i}
           n == Cardinality(Kept)
<1>1. n \in Nat
  BY FS_CardinalityType
<1>2. ASSUME NEW i \in Kept PROVE Rank(Kept, i) \in 0..(n - 1)
  <2>1. Below(i) \in SUBSET Kept /\ Below(i) # Kept
    BY <1>2
  <2>2. IsFiniteSet(Below(i)) /\ Cardinality(Below(i)) <= n /\ Cardinality(Below(i)) # n
    <3> HIDE DEF Below
    <3> QED BY <2>1, FS_Subset
  <2>3. Cardinality(Below(i)) \in Nat
    BY <2>2, FS_CardinalityType
  <2> QED BY <1>1, <2>2, <2>3 DEF Rank
<1>3. ASSUME NEW i \in Kept, NEW j \in Kept, i < j PROVE Rank(Kept, i) < Rank(Kept, j)
  <2>1. Below(i) \in SUBSET Below(j) /\ Below(i) # Below(j)
    <3>1. i \in Nat /\ j \in Nat /\ \A x \in Kept : x \in Nat
      OBVIOUS
    <3>2. \A x \in Below(i) : x \in Below(j)
      BY <1>3, <3>1
    <3>3. i \in Below(j) /\ i \notin Below(i)
      BY <1>3, <3>1
    <3> QED BY <3>2, <3>3
  <2>2. IsFiniteSet(Below(j)) /\ Below(j) \in SUBSET Kept
    <3>1. Below(j) \in SUBSET Kept
      OBVIOUS
    <3> HIDE DEF Below
    <3> QED BY <3>1, FS_Subset
  <2>3. IsFiniteSet(Below(i)) /\ Cardinality(Below(i)) <= Cardinality(Below(j))
        /\ Cardinality(Below(i)) # Cardinality(Below(j))
    <3> HIDE DEF Below
    <3> QED BY <2>1, <2>2, FS_Subset
  <2>4. Cardinality(Below(i)) \in Nat /\ Cardinality(Below(j)) \in Nat
    BY <2>2, <2>3, FS_CardinalityType
  <2> QED BY <2>3, <2>4 DEF Rank
<1>4. ASSUME NEW i \in Kept, NEW j \in Kept, Rank(Kept, i) = Rank(Kept, j) PROVE i = j
  <2>1. ~(i < j) /\ ~(j < i)
    BY <1>2, <1>3, <1>4
  <2> QED BY <2>1
<1> DEFINE rank == [i \in Kept |-> Rank(Kept, i)]
<1>5. rank \in Injection(Kept, 0..(n - 1))
  <2>1. rank \in [Kept -> 0..(n - 1)]
    BY <1>2
  <2>2. \A i, j \in Kept : rank[i] = rank[j] => i = j
    BY <1>4
  <2> HIDE DEF rank
  <2> QED BY <2>1, <2>2 DEF Injection, IsInjective
<1>6. IsFiniteSet(0..(n - 1)) /\ Cardinality(0..(n - 1)) = n
  <2>1. 0 \in Int /\ n - 1 \in Int /\ (IF 0 > n - 1 THEN 0 ELSE n - 1 - 0 + 1) = n
    BY <1>1
  <2> QED BY <2>1, FS_Interval
<1>7. rank \in Surjection(Kept, 0..(n - 1))
  BY <1>5, <1>6, FS_Injection
<1>8. \A k \in 1..n : \E i \in Kept : Rank(Kept, i) = k - 1
  <2> SUFFICES ASSUME NEW k \in 1..n PROVE \E i \in Kept : Rank(Kept, i) = k - 1
    OBVIOUS
  <2>1. k - 1 \in 0..(n - 1)
    BY <1>1
  <2>2. \E i \in Kept : rank[i] = k - 1
    BY <1>7, <2>1 DEF Surjection
  <2> QED BY <2>2
<1> QED BY <1>2, <1>4, <1>8

LEMMA PickProperties ==
    ASSUME NEW s, IsSeq(s), NEW Kept \in SUBSET DOMAIN s
    PROVE  /\ IsSeq(Pick(s, Kept))
           /\ Len(Pick(s, Kept)) = Cardinality(Kept)
           /\ Cardinality(Kept) \in 0..Len(s)
           /\ \E at \in Bijection(1..Cardinality(Kept), Kept) :
                  \A k \in 1..Cardinality(Kept) : Pick(s, Kept)[k] = s[at[k]]
<1> DEFINE n == Cardinality(Kept)
           at == [k \in 1..n |-> CHOOSE i \in Kept : Rank(Kept, i) = k - 1]
<1>1. Len(s) \in Nat /\ DOMAIN s = 1..Len(s)
  BY LenProperties DEF IsSeq
<1>2. IsFiniteSet(Kept) /\ n \in 0..Len(s)
  <2>1. IsFiniteSet(1..Len(s)) /\ Cardinality(1..Len(s)) = Len(s)
    BY <1>1, FS_Interval
  <2>2. IsFiniteSet(Kept) /\ n <= Len(s)
    BY <1>1, <2>1, FS_Subset
  <2> QED BY <1>1, <2>2, FS_CardinalityType
<1>3. Kept \in SUBSET Nat
  BY <1>1
<1>4. \A k \in 1..n : at[k] \in Kept /\ Rank(Kept, at[k]) = k - 1
  BY <1>2, <1>3, Ranks
<1>5. at \in Bijection(1..n, Kept)
  <2>1. at \in [1..n -> Kept]
    BY <1>4
  <2>2. \A k, m \in 1..n : at[k] = at[m] => k = m
    <3> SUFFICES ASSUME NEW k \in 1..n, NEW m \in 1..n, at[k] = at[m] PROVE k = m
      OBVIOUS
    <3>1. k - 1 = m - 1
      BY <1>4
    <3> QED BY <1>2, <3>1
  <2>3. \A i \in Kept : \E k \in 1..n : at[k] = i
    <3> SUFFICES ASSUME NEW i \in Kept PROVE \E k \in 1..n : at[k] = i
      OBVIOUS
    <3>1. Rank(Kept, i) \in 0..(n - 1)
      BY <1>2, <1>3, Ranks
    <3> DEFINE k == Rank(Kept, i) + 1
    <3>2. k \in 1..n /\ k - 1 = Rank(Kept, i)
      BY <1>2, <3>1
    <3> HIDE DEF k
    <3>3. Rank(Kept, at[k]) = Rank(Kept, i) /\ at[k] \in Kept
      BY <1>4, <3>2
    <3>4. at[k] = i
      <4> HIDE DEF at
      <4> QED BY <1>2, <1>3, <3>3, Ranks
    <3> QED BY <3>2, <3>4
  <2> HIDE DEF at
  <2> QED BY <2>1, <2>2, <2>3 DEF Bijection, Injection, Surjection, IsInjective
<1>6. DOMAIN Pick(s, Kept) = 1..n /\ Pick(s, Kept) = [k \in 1..n |-> Pick(s, Kept)[k]]
  BY DEF Pick
<1>7. IsSeq(Pick(s, Kept)) /\ Len(Pick(s, Kept)) = n
  BY <1>2, <1>6, IntervalSeq
<1>8. \A k \in 1..n : Pick(s, Kept)[k] = s[at[k]]
  BY DEF Pick
<1> QED BY <1>2, <1>5, <1>7, <1>8

-----------------------------------------------------------------------------
(* Coins and outputs with their values. *)

\* A sequence of coins or outputs, each worth a u64.
Worth(coins) == IsSeq(coins) /\ \A i \in DOMAIN coins : coins[i].value \in 0..U64Max

LEMMA U64Type ==
    /\ U64Max \in Nat
    /\ \A n \in Int : U64(n) \in 0..U64Max
    /\ \A n \in 0..U64Max : U64(n) = n
    /\ \A n \in Nat : U64(n) <= n
<1>1. Word \in Nat \ {0}
  BY MassAssumption
<1> QED BY <1>1 DEF U64, U64Max

LEMMA ValuesSeq ==
    ASSUME NEW coins, Worth(coins)
    PROVE  /\ IsSeq(Values(coins)) /\ Len(Values(coins)) = Len(coins) /\ Len(coins) \in Nat
           /\ \A i \in 1..Len(coins) : Values(coins)[i] = coins[i].value
           /\ \A i \in 1..Len(coins) : Values(coins)[i] \in 0..U64Max
           /\ Range(Values(coins)) \subseteq 0..U64Max
<1>1. Len(coins) \in Nat /\ DOMAIN coins = 1..Len(coins)
  BY LenProperties DEF Worth, IsSeq
<1>2. /\ DOMAIN Values(coins) = 1..Len(coins)
      /\ Values(coins) = [i \in 1..Len(coins) |-> Values(coins)[i]]
      /\ \A i \in 1..Len(coins) : Values(coins)[i] = coins[i].value
  BY <1>1 DEF Values
<1>3. IsSeq(Values(coins)) /\ Len(Values(coins)) = Len(coins)
  BY <1>1, <1>2, IntervalSeq
<1>4. \A i \in 1..Len(coins) : Values(coins)[i] \in 0..U64Max
  BY <1>1, <1>2 DEF Worth
<1>5. Range(Values(coins)) \subseteq 0..U64Max
  BY <1>2, <1>4 DEF Range
<1> QED BY <1>1, <1>2, <1>3, <1>4, <1>5

\* The sum as the code sees it is never above the true one.
LEMMA ValueType ==
    ASSUME NEW coins, Worth(coins)
    PROVE  /\ TrueValue(coins) \in Nat
           /\ Value(coins) \in 0..U64Max
           /\ Value(coins) <= TrueValue(coins)
           /\ TrueValue(coins) <= U64Max => Value(coins) = TrueValue(coins)
<1>1. \A i \in 1..Len(coins) : Values(coins)[i] \in Nat
  BY ValuesSeq, U64Type
<1>2. TrueValue(coins) \in Nat
  BY <1>1, ValuesSeq, TotalNat DEF TrueValue
<1> QED BY <1>2, U64Type DEF Value, TrueValue

LEMMA WorthPart ==
    ASSUME NEW coins, Worth(coins), NEW m \in Nat \ {0}, NEW n \in 0..Len(coins)
    PROVE  /\ Worth(SubSeq(coins, m, n))
           /\ Len(SubSeq(coins, m, n)) = IF m <= n THEN n - m + 1 ELSE 0
           /\ \A i \in DOMAIN SubSeq(coins, m, n) :
                  m + i - 1 \in DOMAIN coins /\ SubSeq(coins, m, n)[i] = coins[m + i - 1]
<1> DEFINE part == SubSeq(coins, m, n)
           len == IF m <= n THEN n - m + 1 ELSE 0
<1>1. Len(coins) \in Nat /\ DOMAIN coins = 1..Len(coins)
  BY LenProperties DEF Worth, IsSeq
<1>2. IsSeq(part) /\ Len(part) = len
  BY <1>1, PartSeq
<1>3. DOMAIN part = 1..len
  BY <1>2, LenProperties DEF IsSeq
<1>4. \A i \in 1..len : m + i - 1 \in DOMAIN coins /\ part[i] = coins[m + i - 1]
  <2>1. \A i \in m..n : coins[i] \in Range(coins)
    BY <1>1 DEF Range
  <2>2. \A i \in 1..len : m + i - 1 \in 1..Len(coins) /\ m <= n
    BY <1>1
  <2> QED BY <1>1, <2>1, <2>2, SubSeqProperties
<1> QED BY <1>2, <1>3, <1>4 DEF Worth

LEMMA WorthJoin ==
    ASSUME NEW s, NEW t, Worth(s), Worth(t)
    PROVE  /\ Worth(s \o t)
           /\ Len(s \o t) = Len(s) + Len(t) /\ Len(s) \in Nat /\ Len(t) \in Nat
           /\ \A i \in 1..Len(s) : (s \o t)[i] = s[i]
           /\ \A i \in 1..Len(t) : (s \o t)[Len(s) + i] = t[i]
<1> DEFINE S == Range(s) \cup Range(t)
<1>1. s \in Seq(S) /\ t \in Seq(S)
  BY SeqMonotonic DEF Worth, IsSeq
<1>2. /\ s \o t \in Seq(S)
      /\ Len(s \o t) = Len(s) + Len(t) /\ Len(s) \in Nat /\ Len(t) \in Nat
      /\ \A i \in 1..Len(s) : (s \o t)[i] = s[i]
      /\ \A i \in 1..Len(t) : (s \o t)[Len(s) + i] = t[i]
  <2>1. \A i \in 1..(Len(s) + Len(t)) :
            (s \o t)[i] = IF i <= Len(s) THEN s[i] ELSE t[i - Len(s)]
    BY <1>1, ConcatProperties
  <2>2. s \o t \in Seq(S) /\ Len(s \o t) = Len(s) + Len(t) /\ Len(s) \in Nat /\ Len(t) \in Nat
    BY <1>1, ConcatProperties, LenProperties
  <2> HIDE DEF S
  <2> QED BY <2>1, <2>2
<1>3. IsSeq(s \o t) /\ Range(s \o t) = Range(s) \cup Range(t)
  BY <1>1, ConcatSeq DEF Worth
<1>4. \A i \in DOMAIN (s \o t) : (s \o t)[i].value \in 0..U64Max
  <2>1. \A coin \in Range(s) \cup Range(t) : coin.value \in 0..U64Max
    BY DEF Worth, Range
  <2> QED BY <1>3, <2>1 DEF Range
<1> QED BY <1>2, <1>3, <1>4 DEF Worth

\* A filter keeps values.
LEMMA WorthPick ==
    ASSUME NEW coins, Worth(coins), NEW Kept \in SUBSET DOMAIN coins
    PROVE  /\ Worth(Pick(coins, Kept))
           /\ Len(Pick(coins, Kept)) \in 0..Len(coins)
           /\ \A i \in DOMAIN Pick(coins, Kept) :
                  \E j \in Kept : Pick(coins, Kept)[i] = coins[j]
<1> DEFINE picked == Pick(coins, Kept)
           n == Cardinality(Kept)
<1>1. /\ IsSeq(picked) /\ Len(picked) = n /\ n \in 0..Len(coins)
      /\ \E at \in Bijection(1..n, Kept) : \A k \in 1..n : picked[k] = coins[at[k]]
  BY PickProperties DEF Worth
<1>2. DOMAIN picked = 1..n
  BY <1>1, LenProperties DEF IsSeq
<1>3. PICK at \in Bijection(1..n, Kept) : \A k \in 1..n : picked[k] = coins[at[k]]
  BY <1>1
<1>4. \A k \in 1..n : at[k] \in Kept
  BY <1>3 DEF Bijection, Injection
<1> HIDE DEF picked, n
<1>5. \A i \in DOMAIN picked : \E j \in Kept : picked[i] = coins[j]
  BY <1>2, <1>3, <1>4
<1>6. Worth(picked)
  BY <1>1, <1>5 DEF Worth
<1> QED BY <1>1, <1>5, <1>6 DEF picked, n

-----------------------------------------------------------------------------
(* Fees. *)

LEMMA FeeTypes ==
    /\ \A ins, outs, payload \in Nat : FeeMass(ins, outs, payload) \in Nat
    /\ \A fee, mass \in Nat : FeeAt(fee, mass) \in Nat
<1>1. ASSUME NEW ins \in Nat, NEW outs \in Nat, NEW payload \in Nat
      PROVE  FeeMass(ins, outs, payload) \in Nat
  <2>1. /\ ins * InputMass \in Nat /\ outs * OutputMass \in Nat
        /\ BaseMass \in Nat
    BY MassTypes, TimesNat
  <2>2. ComputeMass(ins, outs, payload) \in Nat
    <3>1. \A a, b, c, d \in Nat : a + b + c + d \in Nat
      OBVIOUS
    <3> QED BY <2>1, <3>1 DEF ComputeMass
  <2>3. MinimumSignatures * SignatureMass \in Nat /\ InputBytes \in Nat /\ TransientFactor \in Nat
    BY MassAssumption, TimesNat
  <2>4. ins * (InputBytes + MinimumSignatures * SignatureMass) \in Nat
    <3>1. InputBytes + MinimumSignatures * SignatureMass \in Nat
      BY <2>3
    <3> QED BY <3>1, TimesNat
  <2>5. TransientMass(ins, outs, payload) \in Nat
    <3>1. \A a, b, c, d \in Nat : a + b + c + d \in Nat
      OBVIOUS
    <3>2. BaseMass + ins * (InputBytes + MinimumSignatures * SignatureMass) + outs + payload \in Nat
      BY <2>1, <2>4, <3>1
    <3> QED BY <2>3, <3>2, TimesNat DEF TransientMass
  <2> QED BY <2>2, <2>5 DEF FeeMass, Larger
<1>2. ASSUME NEW fee \in Nat, NEW mass \in Nat PROVE FeeAt(fee, mass) \in Nat
  BY CeilDivType, TimesNat, MassAssumption DEF FeeAt
<1> QED BY <1>1, <1>2

LEMMA EstimateType ==
    ASSUME rate \in Nat, maxFee \in Nat, NEW coins, Len(coins) \in Nat,
           NEW recipientValue, NEW payload \in Nat
    PROVE  /\ EstimateFee(coins, recipientValue, payload) \in Nat
           /\ \E outs \in {1, 2} : EstimateFee(coins, recipientValue, payload)
                                       <= FeeAt(rate, FeeMass(Len(coins), outs, payload))
<1>1. PICK outs \in {1, 2} : EstimateFee(coins, recipientValue, payload)
                                 = Smaller(FeeAt(rate, FeeMass(Len(coins), outs, payload)), maxFee)
  BY DEF EstimateFee
<1>2. FeeAt(rate, FeeMass(Len(coins), outs, payload)) \in Nat
  BY FeeTypes
<1> QED BY <1>1, <1>2 DEF Smaller

-----------------------------------------------------------------------------
(* Types. *)

Errors == {"InvalidAddress", "BuildFailed", "UtxoNotFound", "FeeTooLow", "InsufficientFunds", "Rpc"}

\* A transaction of the batch: every value a u64, nobody paid but the
\* recipient and the wallet.
GoodTx(tx) ==
    /\ Worth(tx.ins)
    /\ Worth(tx.outs)
    /\ \A i \in DOMAIN tx.outs : tx.outs[i].to \in {"recipient", "change"}

\* The types of the locals that are no sequences.
Scalars ==
    /\ daa \in 0..MaxDaa
    /\ pc \in {"validate", "limits", "select", "check", "merge", "done"}
    /\ rate \in Nat
    /\ maxFee \in Nat
    /\ topUps \in Nat
    /\ answer \in {"pending", "Built"} \cup Errors

\* The inductive form of TypeOK.
TInv ==
    /\ IInv
    /\ Scalars
    /\ Range(selected) \subseteq Range(utxos)
    /\ Worth(pieces)
    /\ GoodTx(candidate)
    /\ \A i \in DOMAIN batch : GoodTx(batch[i])

LEMMA TInvImplies == TInv => TypeOK
<1> SUFFICES ASSUME TInv PROVE TypeOK
  OBVIOUS
<1>1. ASSUME NEW tx, GoodTx(tx)
      PROVE  /\ Range(Values(tx.ins) \o Values(tx.outs)) \subseteq 0..U64Max
             /\ {out.to : out \in Range(tx.outs)} \subseteq {"recipient", "change"}
  <2>1. /\ IsSeq(Values(tx.ins)) /\ Range(Values(tx.ins)) \subseteq 0..U64Max
        /\ IsSeq(Values(tx.outs)) /\ Range(Values(tx.outs)) \subseteq 0..U64Max
    BY <1>1, ValuesSeq DEF GoodTx
  <2>2. Range(Values(tx.ins) \o Values(tx.outs)) \subseteq 0..U64Max
    BY <2>1, ConcatSeq
  <2>3. {out.to : out \in Range(tx.outs)} \subseteq {"recipient", "change"}
    BY <1>1 DEF GoodTx, Range
  <2> QED BY <2>2, <2>3
<1>2. \A tx \in Range(batch) \cup {candidate} : GoodTx(tx)
  BY DEF TInv, Range
<1>3. \A tx \in Range(batch) \cup {candidate} :
          /\ Range(Values(tx.ins) \o Values(tx.outs)) \subseteq 0..U64Max
          /\ {out.to : out \in Range(tx.outs)} \subseteq {"recipient", "change"}
  BY <1>1, <1>2
<1> QED BY <1>3 DEF TInv, IInv, Scalars, Errors, TypeOK

LEMMA WorthEmpty == Worth(<< >>)
BY EmptyIsSeq DEF Worth

LEMMA OutputsWorth ==
    /\ \A v \in 0..U64Max :
           /\ Worth(<<Change(v)>>) /\ Worth(<<Recipient(v)>>)
           /\ TrueValue(<<Change(v)>>) = v /\ TrueValue(<<Recipient(v)>>) = v
    /\ \A v, c \in 0..U64Max :
           /\ Worth(<<Recipient(v), Change(c)>>)
           /\ TrueValue(<<Recipient(v), Change(c)>>) = v + c
<1>1. ASSUME NEW out, out.value \in 0..U64Max
      PROVE  Worth(<<out>>) /\ TrueValue(<<out>>) = out.value
  <2>1. IsSeq(<<out>>) /\ Len(<<out>>) = 1
    <3>1. <<out>> \in Seq({out})
      OBVIOUS
    <3> QED BY <3>1, RangeSeq
  <2>2. Worth(<<out>>)
    BY <1>1, <2>1 DEF Worth
  <2>3. Len(Values(<<out>>)) = 1 /\ Values(<<out>>)[1] = out.value
    BY <2>1, <2>2, ValuesSeq
  <2>4. out.value \in Int
    BY <1>1, U64Type
  <2> QED BY <2>2, <2>3, <2>4, TotalOfFew DEF TrueValue
<1>2. ASSUME NEW a, NEW b, a.value \in 0..U64Max, b.value \in 0..U64Max
      PROVE  Worth(<<a, b>>) /\ TrueValue(<<a, b>>) = a.value + b.value
  <2>1. IsSeq(<<a, b>>) /\ Len(<<a, b>>) = 2
    <3>1. <<a, b>> \in Seq({a, b})
      OBVIOUS
    <3> QED BY <3>1, RangeSeq
  <2>2. Worth(<<a, b>>)
    BY <1>2, <2>1 DEF Worth
  <2>3. /\ Len(Values(<<a, b>>)) = 2
        /\ Values(<<a, b>>)[1] = a.value /\ Values(<<a, b>>)[2] = b.value
    BY <2>1, <2>2, ValuesSeq
  <2>4. a.value \in Int /\ b.value \in Int
    BY <1>2, U64Type
  <2> QED BY <2>2, <2>3, <2>4, TotalOfFew DEF TrueValue
<1>3. \A v : Change(v).value = v /\ Recipient(v).value = v
  BY DEF Change, Recipient
<1> QED BY <1>1, <1>2, <1>3

LEMMA PaymentsGood ==
    ASSUME NEW v \in 0..U64Max, NEW c \in 0..U64Max
    PROVE  /\ Worth(Payments(v, c))
           /\ TrueValue(Payments(v, c)) = v + c
           /\ \A i \in DOMAIN Payments(v, c) : Payments(v, c)[i].to \in {"recipient", "change"}
<1>1. c \in Nat /\ v \in Nat
  BY U64Type
<1>2. \A x : Recipient(x).to = "recipient" /\ Change(x).to = "change"
  BY DEF Recipient, Change
<1>3. CASE c > 0
  BY <1>1, <1>2, <1>3, OutputsWorth DEF Payments
<1>4. CASE c = 0
  <2>1. Payments(v, c) = <<Recipient(v)>> /\ v + c = v
    BY <1>1, <1>4 DEF Payments
  <2>2. Worth(<<Recipient(v)>>) /\ TrueValue(<<Recipient(v)>>) = v
    BY OutputsWorth
  <2>3. \A i \in DOMAIN <<Recipient(v)>> : <<Recipient(v)>>[i].to = "recipient"
    BY <1>2
  <2> QED BY <2>1, <2>2, <2>3
<1> QED BY <1>1, <1>3, <1>4

LEMMA InitTInv == Init => TInv
<1> SUFFICES ASSUME Init PROVE TInv
  OBVIOUS
<1>1. GoodTx(NoTx)
  BY WorthEmpty DEF GoodTx, NoTx
<1>2. Range(selected) = {} /\ batch = << >>
  BY EmptyIsSeq DEF Init
<1>3. MaxDaa \in Nat
  BY GeneratorAssumption
<1> QED BY <1>1, <1>2, <1>3, InitIInv, WorthEmpty DEF Init, TInv, Scalars

\* The coins of the wallet.
LEMMA UtxosWorth ==
    ASSUME IInv
    PROVE  /\ Worth(utxos) /\ request.amount \in 0..U64Max /\ request.limit \in Nat
           /\ request.sendAll \in BOOLEAN /\ request.payload \in Nat
BY GeneratorAssumption, CoinsAssumption DEF IInv, Worth, IsSeq

LEMMA ErrorsType ==
    /\ Objection \in Errors \cup {"none"}
    /\ \A txs : FeeError(txs) \in Errors
    /\ "pending" \notin Errors /\ "Built" \notin Errors
<1>1. Objection \in Errors \cup {"none"}
  BY DEF Objection, Errors
<1>2. \A txs : FeeError(txs) \in Errors
  BY DEF FeeError, Errors
<1> QED BY <1>1, <1>2 DEF Errors

\* The steps that end the call with an error.
Fails ==
    \/ Refuse \/ RefuseRate \/ CannotAfford \/ CheckFails \/ SplitFails \/ MergeFails \/ RpcFails

LEMMA FailsAre ==
    ASSUME Fails
    PROVE  /\ answer' \in Errors /\ pc' = "done" /\ batch' = << >>
           /\ UNCHANGED <<utxos, request, daa, rate, maxFee, selected, candidate, pieces, topUps>>
<1>1. PICK e \in Errors : Fail(e)
  <2>1. CASE Refuse
    BY <2>1, ErrorsType DEF Refuse
  <2>2. CASE RefuseRate \/ CannotAfford \/ MergeFails \/ RpcFails
    BY <2>2 DEF RefuseRate, CannotAfford, MergeFails, RpcFails, Errors
  <2>3. CASE CheckFails \/ SplitFails
    BY <2>3, ErrorsType DEF CheckFails, SplitFails
  <2> QED BY <2>1, <2>2, <2>3 DEF Fails
<1> QED BY <1>1 DEF Fail

LEMMA FailsTInv ==
    ASSUME TInv, Fails
    PROVE  TInv'
<1>1. IInv'
  BY NextIInv DEF TInv, Fails, Next
<1>2. DOMAIN batch' = {}
  BY FailsAre
<1> QED BY <1>1, <1>2, FailsAre DEF TInv, Scalars, Worth, IsSeq, GoodTx

\* The steps that only prepare.
LEMMA QuietTInv ==
    ASSUME TInv, Validate \/ (\E r \in NodeRates : FeeLimits(r)) \/ DaaAdvances \/ UNCHANGED vars
    PROVE  TInv'
<1>1. IInv'
  BY NextIInv DEF TInv, Next
<1>2. UNCHANGED <<utxos, selected, candidate, pieces, batch>>
  BY DEF Validate, FeeLimits, DaaAdvances, vars
<1>3. Scalars'
  <2>1. CASE Validate \/ UNCHANGED vars
    BY <2>1 DEF Validate, vars, TInv, Scalars
  <2>2. CASE DaaAdvances
    BY <2>2, GeneratorAssumption DEF DaaAdvances, TInv, Scalars
  <2>3. CASE \E r \in NodeRates : FeeLimits(r)
    <3>1. PICK r \in NodeRates : FeeLimits(r)
      BY <2>3
    <3>2. r \in Nat /\ request.limit \in Nat /\ DefaultMaxFee \in Nat /\ U64Max \in Nat
      BY GeneratorAssumption, UtxosWorth, U64Type DEF TInv
    <3>3. rate' \in Nat /\ maxFee' \in Nat
      BY <3>1, <3>2 DEF FeeLimits, Smaller
    <3> QED BY <3>1, <3>3 DEF FeeLimits, TInv, Scalars
  <2> QED BY <2>1, <2>2, <2>3
<1> QED BY <1>1, <1>2, <1>3 DEF TInv, Worth, IsSeq, GoodTx

\* The coins the selection may take: those of an order that are usable.
LEMMA UsableCoins ==
    ASSUME TInv, NEW order \in Orders
    PROVE  LET coins == Filter(order, Usable)
           IN  /\ Worth(coins)
               /\ Range(coins) \subseteq Range(order)
               /\ Range(order) \subseteq Range(utxos)
               /\ \A i \in DOMAIN coins : Usable(coins[i])
<1> DEFINE Kept == {i \in DOMAIN order : Usable(order[i])}
           coins == Filter(order, Usable)
<1>1. coins = Pick(order, Kept)
  BY DEF Filter, Pick, Rank
<1>2. IsSeq(order) /\ Range(order) \subseteq Range(utxos)
  <2>1. IsSeq(order)
    BY OrdersSeq DEF TInv
  <2>2. CASE request.utxos = {}
    BY <2>1, <2>2 DEF Orders
  <2>3. CASE request.utxos # {}
    <3> DEFINE S == {utxos[i] : i \in {j \in DOMAIN utxos : utxos[j].id \in request.utxos}}
    <3>1. order \in [1..Cardinality(S) -> S]
      BY <2>3 DEF Orders, SetToSeqs
    <3>2. S \subseteq Range(utxos)
      BY DEF Range
    <3> HIDE DEF S
    <3>3. Range(order) \subseteq S
      BY <3>1 DEF Range
    <3> QED BY <2>1, <3>2, <3>3
  <2> QED BY <2>2, <2>3
<1>3. Worth(order)
  <2>1. \A coin \in Range(utxos) : coin.value \in 0..U64Max
    BY UtxosWorth DEF TInv, Worth, Range
  <2> QED BY <1>2, <2>1 DEF Worth, Range
<1>4. /\ Worth(coins)
      /\ \A i \in DOMAIN coins : \E j \in Kept : coins[i] = order[j]
  <2>1. Kept \in SUBSET DOMAIN order
    OBVIOUS
  <2> HIDE DEF Kept, coins
  <2> QED BY <1>1, <1>3, <2>1, WorthPick
<1>5. \A i \in DOMAIN coins : coins[i] \in Range(order) /\ Usable(coins[i])
  <2> HIDE DEF coins
  <2> QED BY <1>4 DEF Range
<1>6. Range(coins) \subseteq Range(order)
  <2> HIDE DEF coins
  <2> QED BY <1>5 DEF Range
<1> QED BY <1>2, <1>4, <1>5, <1>6

LEMMA SelectionWorth ==
    ASSUME NEW coins, Worth(coins)
    PROVE  /\ Taken(coins) \in 0..Len(coins)
           /\ Worth(Selection(coins))
           /\ \A i \in DOMAIN Selection(coins) :
                  i \in DOMAIN coins /\ Selection(coins)[i] = coins[i]
           /\ Range(Selection(coins)) \subseteq Range(coins)
<1>1. Len(coins) \in Nat /\ DOMAIN coins = 1..Len(coins)
  BY LenProperties DEF Worth, IsSeq
<1>2. Taken(coins) \in 0..Len(coins)
  <2> DEFINE stops == {n \in 1..Len(coins) : StopsAt(coins, n)}
  <2>1. stops \in SUBSET Nat /\ stops \subseteq 1..Len(coins)
    BY <1>1
  <2>2. stops # {} => Min(stops) \in stops
    BY <2>1, MinElement
  <2>3. Taken(coins) = IF stops = {} THEN Len(coins) ELSE Min(stops)
    BY DEF Taken
  <2> HIDE DEF stops
  <2>4. CASE stops = {}
    BY <1>1, <2>3, <2>4
  <2>5. CASE stops # {}
    <3>1. Taken(coins) = Min(stops)
      BY <2>3, <2>5
    <3>2. Taken(coins) \in 1..Len(coins)
      BY <2>1, <2>2, <2>5, <3>1
    <3> QED BY <1>1, <3>2
  <2> QED BY <2>4, <2>5
<1>3. /\ Worth(Selection(coins))
      /\ \A i \in DOMAIN Selection(coins) :
             1 + i - 1 \in DOMAIN coins /\ Selection(coins)[i] = coins[1 + i - 1]
  BY <1>2, WorthPart DEF Selection
<1>4. \A i \in DOMAIN Selection(coins) : i \in Int
  BY <1>3, LenProperties DEF Worth, IsSeq
<1>5. \A i \in DOMAIN Selection(coins) : i \in DOMAIN coins /\ Selection(coins)[i] = coins[i]
  <2> SUFFICES ASSUME NEW i \in DOMAIN Selection(coins)
               PROVE  i \in DOMAIN coins /\ Selection(coins)[i] = coins[i]
    OBVIOUS
  <2>1. 1 + i - 1 = i
    BY <1>4
  <2> QED BY <1>3, <2>1
<1> QED BY <1>2, <1>3, <1>5 DEF Range

LEMMA ReservedType ==
    ASSUME TInv, NEW coins, Worth(coins), NEW n \in 0..Len(coins)
    PROVE  ReservedFee(coins, n) \in 0..U64Max
<1>1. Len(coins) \in Nat
  BY LenProperties DEF Worth, IsSeq
<1>2. CASE n = 0
  BY <1>2, U64Type DEF ReservedFee
<1>3. CASE n # 0
  <2> DEFINE fee == EstimateFee(<<coins[1]>>,
                                IF request.sendAll THEN coins[1].value ELSE request.amount,
                                request.payload)
  <2>1. Len(<<coins[1]>>) \in Nat
    OBVIOUS
  <2>2. fee \in Nat
    <3>1. rate \in Nat /\ maxFee \in Nat /\ request.payload \in Nat
      BY UtxosWorth DEF TInv, Scalars
    <3> QED BY <2>1, <3>1, EstimateType
  <2> HIDE DEF fee
  <2>3. n * fee \in Nat
    BY <1>1, <2>2, TimesNat
  <2> QED BY <1>3, <2>3, U64Type DEF ReservedFee, fee
<1> QED BY <1>2, <1>3

\* What the selection makes of the coins: the inputs are coins it may take, the
\* outputs the payment and what remains.
LEMMA SelectAre ==
    ASSUME TInv, SelectUtxos
    PROVE  \E order \in Orders : \E coins : \E paid, change \in 0..U64Max :
               /\ coins = Filter(order, Usable)
               /\ selected' = Selection(coins)
               /\ candidate' = [ins |-> Selection(coins), outs |-> Payments(paid, change),
                                payload |-> request.payload]
               /\ change = Value(Selection(coins)) - TotalSpend(coins)
               /\ request.sendAll => change = 0
               /\ ~request.sendAll => paid = request.amount
<1>1. PICK order \in Orders :
          LET coins == Filter(order, Usable)
              total == Value(Selection(coins))
              paid == IF request.sendAll
                        THEN U64(total - ReservedFee(coins, Taken(coins)))
                        ELSE request.amount
          IN  /\ Affordable(coins)
              /\ selected' = Selection(coins)
              /\ candidate' = [ins |-> Selection(coins),
                               outs |-> Payments(paid, total - TotalSpend(coins)),
                               payload |-> request.payload]
  BY DEF SelectUtxos
<1> DEFINE coins == Filter(order, Usable)
           total == Value(Selection(coins))
           paid == IF request.sendAll THEN U64(total - ReservedFee(coins, Taken(coins)))
                                      ELSE request.amount
           change == total - TotalSpend(coins)
<1>2. Worth(coins)
  BY UsableCoins
<1>3. /\ Affordable(coins)
      /\ selected' = Selection(coins)
      /\ candidate' = [ins |-> Selection(coins), outs |-> Payments(paid, change),
                       payload |-> request.payload]
  BY <1>1
<1> HIDE DEF coins
<1>4. Taken(coins) \in 0..Len(coins) /\ Worth(Selection(coins))
  BY <1>2, SelectionWorth
<1>5. total \in 0..U64Max
  BY <1>4, ValueType
<1>6. ReservedFee(coins, Taken(coins)) \in 0..U64Max
  BY <1>2, <1>4, ReservedType
<1>7. request.amount \in 0..U64Max /\ request.sendAll \in BOOLEAN
  BY UtxosWorth DEF TInv
<1>8. Spend(coins, Taken(coins)) \in 0..U64Max
  <2>1. request.amount + ReservedFee(coins, Taken(coins)) \in Int
    BY <1>6, <1>7, U64Type
  <2> QED BY <2>1, U64Type DEF Spend
<1>9. TotalSpend(coins) \in 0..U64Max /\ TotalSpend(coins) <= total
      /\ (request.sendAll => TotalSpend(coins) = total)
  BY <1>3, <1>5, <1>7, <1>8 DEF TotalSpend, Affordable
<1>10. change \in 0..U64Max /\ (request.sendAll => change = 0)
  BY <1>5, <1>9, U64Type
<1>11. paid \in 0..U64Max /\ (~request.sendAll => paid = request.amount)
  <2>1. total - ReservedFee(coins, Taken(coins)) \in Int
    BY <1>5, <1>6, U64Type
  <2> QED BY <1>7, <2>1, U64Type
<1> HIDE DEF total, paid, change
<1>12. /\ coins = Filter(order, Usable)
       /\ change = Value(Selection(coins)) - TotalSpend(coins)
  BY DEF coins, change, total
<1> QED BY <1>3, <1>10, <1>11, <1>12

LEMMA SelectTInv ==
    ASSUME TInv, SelectUtxos
    PROVE  TInv'
<1>1. IInv'
  BY NextIInv DEF TInv, Next
<1>2. PICK order \in Orders : \E coins : \E paid, change \in 0..U64Max :
          /\ coins = Filter(order, Usable)
          /\ selected' = Selection(coins)
          /\ candidate' = [ins |-> Selection(coins), outs |-> Payments(paid, change),
                           payload |-> request.payload]
  BY SelectAre
<1> DEFINE coins == Filter(order, Usable)
<1>3. PICK paid \in 0..U64Max, change \in 0..U64Max :
          /\ selected' = Selection(coins)
          /\ candidate' = [ins |-> Selection(coins), outs |-> Payments(paid, change),
                           payload |-> request.payload]
  BY <1>2
<1>4. Worth(coins) /\ Range(coins) \subseteq Range(utxos)
  BY UsableCoins
<1> HIDE DEF coins
<1>5. Worth(Selection(coins)) /\ Range(Selection(coins)) \subseteq Range(coins)
  BY <1>4, SelectionWorth
<1>6. GoodTx(candidate')
  BY <1>3, <1>5, PaymentsGood DEF GoodTx
<1>7. UNCHANGED <<utxos, request, rate, maxFee, pieces, batch, topUps, answer, daa>> /\ pc' = "check"
  BY DEF SelectUtxos
<1> QED BY <1>1, <1>3, <1>4, <1>5, <1>6, <1>7 DEF TInv, Scalars, Worth, IsSeq, GoodTx

-----------------------------------------------------------------------------
(* Splits and merges. *)

LEMMA DeliverTInv ==
    ASSUME TInv, Deliver
    PROVE  TInv'
<1>1. IInv'
  BY NextIInv DEF TInv, Next
<1>2. /\ batch' = Append(batch, candidate) /\ answer' = "Built" /\ pc' = "done"
      /\ UNCHANGED <<utxos, request, daa, rate, maxFee, selected, candidate, pieces, topUps>>
  BY DEF Deliver
<1>3. \A i \in DOMAIN batch' : GoodTx(batch'[i])
  <2>1. \A i \in DOMAIN batch' : batch'[i] = candidate \/ \E j \in DOMAIN batch : batch'[i] = batch[j]
    BY <1>2, AppendProperties, LenProperties DEF TInv, IInv, IsSeq
  <2> QED BY <2>1 DEF TInv
<1> QED BY <1>1, <1>2, <1>3 DEF TInv, Scalars, Worth, IsSeq, GoodTx

\* The k-th split takes the inputs from First(k) to Final(k).
First(k) == (k - 1) * InputsPerSplit + 1
Final(k) == Smaller(k * InputsPerSplit, Len(candidate.ins))

LEMMA SplitRange ==
    ASSUME TInv
    PROVE  /\ SplitCount \in Nat
           /\ \A k \in 1..SplitCount :
                  /\ First(k) \in Nat \ {0}
                  /\ Final(k) \in 0..Len(candidate.ins)
<1>1. Len(candidate.ins) \in Nat
  BY LenProperties DEF TInv, GoodTx, Worth, IsSeq
<1>2. SplitCount \in Nat
  BY <1>1, CeilDivType, SplitCapacity DEF SplitCount
<1>3. ASSUME NEW k \in 1..SplitCount
      PROVE  First(k) \in Nat \ {0} /\ Final(k) \in 0..Len(candidate.ins)
  <2>1. (k - 1) * InputsPerSplit \in Nat /\ k * InputsPerSplit \in Nat
    BY <1>2, SplitCapacity, TimesNat
  <2> QED BY <1>1, <2>1 DEF First, Final, Smaller
<1> QED BY <1>2, <1>3

LEMMA SplitsGood ==
    ASSUME TInv
    PROVE  /\ IsSeq(SplitTransactions) /\ Len(SplitTransactions) = SplitCount
           /\ DOMAIN SplitTransactions = 1..SplitCount
           /\ \A k \in 1..SplitCount :
                  /\ SplitTransactions[k] = SplitOf(SubSeq(candidate.ins, First(k), Final(k)))
                  /\ GoodTx(SplitTransactions[k])
                  /\ \E v \in 0..U64Max : SplitTransactions[k].outs = <<Change(v)>>
<1>1. /\ DOMAIN SplitTransactions = 1..SplitCount
      /\ SplitTransactions = [k \in 1..SplitCount |-> SplitTransactions[k]]
      /\ \A k \in 1..SplitCount :
             SplitTransactions[k] = SplitOf(SubSeq(candidate.ins, First(k), Final(k)))
  BY DEF SplitTransactions, First, Final
<1>2. IsSeq(SplitTransactions) /\ Len(SplitTransactions) = SplitCount
  BY <1>1, SplitRange, IntervalSeq
<1>3. ASSUME NEW coins, Worth(coins)
      PROVE  /\ GoodTx(SplitOf(coins))
             /\ \E v \in 0..U64Max : SplitOf(coins).outs = <<Change(v)>>
  <2> DEFINE total == Value(coins)
             v == U64(total - EstimateFee(coins, total, 0))
  <2>1. SplitOf(coins).ins = coins /\ SplitOf(coins).outs = <<Change(v)>>
    BY DEF SplitOf
  <2>2. total \in 0..U64Max
    BY <1>3, ValueType
  <2>3. EstimateFee(coins, total, 0) \in Nat
    <3>1. Len(coins) \in Nat
      BY <1>3, LenProperties DEF Worth, IsSeq
    <3> QED BY <3>1, EstimateType DEF TInv, Scalars
  <2>4. v \in 0..U64Max
    <3>1. total - EstimateFee(coins, total, 0) \in Int
      BY <2>2, <2>3, U64Type
    <3> QED BY <3>1, U64Type
  <2> HIDE DEF v
  <2>5. Worth(<<Change(v)>>) /\ \A i \in DOMAIN <<Change(v)>> : <<Change(v)>>[i].to = "change"
    <3>1. Worth(<<Change(v)>>)
      BY <2>4, OutputsWorth
    <3> QED BY <3>1 DEF Change
  <2> QED BY <1>3, <2>1, <2>4, <2>5 DEF GoodTx
<1>4. ASSUME NEW k \in 1..SplitCount
      PROVE  Worth(SubSeq(candidate.ins, First(k), Final(k)))
  BY SplitRange, WorthPart DEF TInv, GoodTx
<1> QED BY <1>1, <1>2, <1>3, <1>4

LEMMA SplitTInv ==
    ASSUME TInv, Split
    PROVE  TInv'
<1>1. IInv'
  BY NextIInv DEF TInv, Next
<1> DEFINE splits == SplitTransactions
<1>2. /\ batch' = batch \o splits /\ pc' = "merge"
      /\ pieces' = [k \in DOMAIN splits |-> PieceOf(splits[k], Len(batch) + k)]
      /\ UNCHANGED <<utxos, request, daa, rate, maxFee, selected, candidate, topUps, answer>>
  BY DEF Split
<1>3. Worth(pieces')
  <2>1. DOMAIN pieces' = 1..SplitCount /\ pieces' = [k \in 1..SplitCount |-> pieces'[k]]
    BY <1>2, SplitsGood
  <2>2. IsSeq(pieces')
    BY <2>1, SplitRange, IntervalSeq
  <2>3. ASSUME NEW k \in 1..SplitCount PROVE pieces'[k].value \in 0..U64Max
    <3>1. PICK v \in 0..U64Max : splits[k].outs = <<Change(v)>>
      BY SplitsGood
    <3>2. pieces'[k] = PieceOf(splits[k], Len(batch) + k)
      BY <1>2, SplitsGood
    <3> HIDE DEF splits
    <3> QED BY <3>1, <3>2 DEF PieceOf, Change
  <2> QED BY <2>1, <2>2, <2>3 DEF Worth
<1>4. \A i \in DOMAIN batch' : GoodTx(batch'[i])
  <2>1. \A tx \in Range(batch) : GoodTx(tx)
    BY DEF TInv, Range
  <2>2. \A tx \in Range(splits) : GoodTx(tx)
    <3>1. \A k \in DOMAIN splits : GoodTx(splits[k])
      BY SplitsGood
    <3> HIDE DEF splits
    <3> QED BY <3>1 DEF Range
  <2>3. Range(batch') = Range(batch) \cup Range(splits)
    BY <1>2, SplitsGood, ConcatSeq DEF TInv, IInv
  <2> HIDE DEF splits
  <2> QED BY <2>1, <2>2, <2>3 DEF Range
<1> QED BY <1>1, <1>2, <1>3, <1>4 DEF TInv, Scalars, Worth, IsSeq, GoodTx

\* A merge pays what is sent, and keeps the rest.
LEMMA MergeOutputs ==
    ASSUME TInv
    PROVE  \E change \in 0..U64Max :
               /\ \A coins : MergeOf(coins).ins = coins
                             /\ MergeOf(coins).outs = Payments(Sent, change)
               /\ Sent \in 0..U64Max
               /\ Sent + change <= U64Max
               /\ request.sendAll => change = 0
               /\ ~request.sendAll => Sent = request.amount
<1>1. request.amount \in 0..U64Max /\ request.sendAll \in BOOLEAN
  BY UtxosWorth DEF TInv
<1>2. Available \in 0..U64Max
  <2>1. Value(pieces) \in 0..U64Max
    BY ValueType DEF TInv
  <2>2. EstimateFee(pieces, request.amount, candidate.payload) \in Nat
    <3>1. Len(pieces) \in Nat /\ candidate.payload \in Nat
      BY LenProperties DEF TInv, Worth, IsSeq, IInv, IsTx
    <3> QED BY <3>1, EstimateType DEF TInv, Scalars
  <2>3. Value(pieces) - EstimateFee(pieces, request.amount, candidate.payload) \in Int
    BY <2>1, <2>2, U64Type
  <2> QED BY <2>3, U64Type DEF Available
<1> DEFINE change == IF Available > Sent THEN Available - Sent ELSE 0
<1>3. Sent \in 0..U64Max /\ (request.sendAll => Sent = Available)
      /\ (~request.sendAll => Sent = request.amount)
  BY <1>1, <1>2 DEF Sent
<1>4. \A a, b \in 0..U64Max :
          LET c == IF a > b THEN a - b ELSE 0
          IN  c \in 0..U64Max /\ b + c <= U64Max /\ (a = b => c = 0)
  BY U64Type
<1>5. change \in 0..U64Max /\ Sent + change <= U64Max /\ (request.sendAll => change = 0)
  BY <1>2, <1>3, <1>4
<1>6. \A coins : MergeOf(coins).ins = coins /\ MergeOf(coins).outs = Payments(Sent, change)
  BY DEF MergeOf
<1> HIDE DEF change
<1> QED BY <1>3, <1>5, <1>6

\* The coins a merge may add: usable ones the selection did not take.
LEMMA OtherCoinsAre ==
    ASSUME TInv
    PROVE  /\ Worth(OtherCoins)
           /\ \A i \in DOMAIN OtherCoins :
                  /\ OtherCoins[i] \in Range(utxos) \ Range(selected)
                  /\ Usable(OtherCoins[i])
<1> DEFINE Kept == {i \in DOMAIN utxos : Usable(utxos[i]) /\ utxos[i] \notin Range(selected)}
<1>1. OtherCoins = Pick(utxos, Kept)
  BY DEF OtherCoins, Filter, Pick, Rank
<1>2. Kept \in SUBSET DOMAIN utxos /\ Worth(utxos)
  BY UtxosWorth DEF TInv
<1>3. \A j \in Kept : utxos[j] \in Range(utxos) \ Range(selected) /\ Usable(utxos[j])
  BY DEF Range
<1> HIDE DEF Kept
<1>4. Worth(OtherCoins) /\ \A i \in DOMAIN OtherCoins : \E j \in Kept : OtherCoins[i] = utxos[j]
  BY <1>1, <1>2, WorthPick
<1> QED BY <1>3, <1>4

\* How many it adds.
LEMMA EnoughAre ==
    ASSUME TInv, Enough(OtherCoins) # {}
    PROVE  Min(Enough(OtherCoins)) \in 1..Len(OtherCoins)
<1>1. Len(OtherCoins) \in Nat
  BY OtherCoinsAre, LenProperties DEF Worth, IsSeq
<1>2. Enough(OtherCoins) \in SUBSET Nat /\ Enough(OtherCoins) \subseteq 1..Len(OtherCoins)
  BY <1>1 DEF Enough
<1>3. Min(Enough(OtherCoins)) \in Enough(OtherCoins)
  BY <1>2, MinElement
<1> QED BY <1>2, <1>3

More == SubSeq(OtherCoins, 1, Min(Enough(OtherCoins)))

LEMMA MoreAre ==
    ASSUME TInv, Enough(OtherCoins) # {}
    PROVE  /\ Worth(More)
           /\ \A i \in DOMAIN More : i \in DOMAIN OtherCoins /\ More[i] = OtherCoins[i]
<1>1. Min(Enough(OtherCoins)) \in 0..Len(OtherCoins) /\ Worth(OtherCoins)
  BY EnoughAre, OtherCoinsAre
<1>2. /\ Worth(More)
      /\ \A i \in DOMAIN More :
             1 + i - 1 \in DOMAIN OtherCoins /\ More[i] = OtherCoins[1 + i - 1]
  BY <1>1, WorthPart DEF More
<1>3. ASSUME NEW i \in DOMAIN More PROVE i \in DOMAIN OtherCoins /\ More[i] = OtherCoins[i]
  <2>1. i \in Int
    BY <1>2, LenProperties DEF Worth, IsSeq
  <2>2. 1 + i - 1 = i
    BY <2>1
  <2> QED BY <1>2, <2>2
<1> QED BY <1>2, <1>3

LEMMA MergeTInv ==
    ASSUME TInv, Merge \/ MergeWithMore
    PROVE  TInv'
<1>1. IInv'
  BY NextIInv DEF TInv, Next
<1>2. /\ pieces' = << >> /\ pc' = "check" /\ topUps' \in Nat
      /\ UNCHANGED <<utxos, request, daa, rate, maxFee, selected, batch, answer>>
  BY DEF Merge, MergeWithMore, TInv, Scalars
<1>3. PICK coins : Worth(coins) /\ candidate' = MergeOf(coins)
  <2>1. CASE Merge
    BY <2>1 DEF Merge, TInv
  <2>2. CASE MergeWithMore
    <3>1. Worth(pieces \o More)
      BY <2>2, MoreAre, WorthJoin DEF MergeWithMore, TInv
    <3> QED BY <2>2, <3>1 DEF MergeWithMore, More
  <2> QED BY <2>1, <2>2
<1>4. GoodTx(candidate')
  <2>1. PICK change \in 0..U64Max :
            /\ candidate'.ins = coins /\ candidate'.outs = Payments(Sent, change)
            /\ Sent \in 0..U64Max
    BY <1>3, MergeOutputs
  <2> QED BY <1>3, <2>1, PaymentsGood DEF GoodTx
<1> QED BY <1>1, <1>2, <1>4, WorthEmpty DEF TInv, Scalars, Worth, IsSeq, GoodTx

LEMMA NextTInv == TInv /\ [Next]_vars => TInv'
<1> SUFFICES ASSUME TInv, [Next]_vars PROVE TInv'
  OBVIOUS
<1>1. CASE Fails
  BY <1>1, FailsTInv
<1>2. CASE Validate \/ (\E r \in NodeRates : FeeLimits(r)) \/ DaaAdvances \/ UNCHANGED vars
  BY <1>2, QuietTInv
<1>3. CASE SelectUtxos
  BY <1>3, SelectTInv
<1>4. CASE Deliver
  BY <1>4, DeliverTInv
<1>5. CASE Split
  BY <1>5, SplitTInv
<1>6. CASE Merge \/ MergeWithMore
  BY <1>6, MergeTInv
<1> QED BY <1>1, <1>2, <1>3, <1>4, <1>5, <1>6 DEF Next, Fails

\* Whatever the wallet and the request: the amounts of every transaction stay
\* within a u64, the selection takes coins of the wallet only, and the call
\* stands where the code can be.
THEOREM GeneratorTypeOK == Spec => []TypeOK
BY InitTInv, NextTInv, TInvImplies, PTL DEF Spec

-----------------------------------------------------------------------------
(* The relay floor. *)

\* A transaction that creates no money and leaves its fee, in true sums.
Pays(tx) == TrueValue(tx.ins) - TrueValue(tx.outs) >= TxFeeMass(tx)

\* Such are the transactions delivered; and of the one being looked at, the
\* outputs do not wrap.
RelayInv ==
    /\ TInv
    /\ \A i \in DOMAIN batch : Pays(batch[i])
    /\ TrueValue(candidate.outs) <= U64Max
    /\ pc = "select" => rate \in NodeRates \cup {request.limit}

\* The comparison is one of wrapped sums.  That of the inputs is never above the
\* true one; it is enough that the outputs' is exact.
LEMMA WrappedPays ==
    ASSUME NEW tx, GoodTx(tx), tx.payload \in Nat, TrueValue(tx.outs) <= U64Max,
           PaysItsWay(tx)
    PROVE  Pays(tx)
<1>1. /\ TrueValue(tx.ins) \in Nat /\ Value(tx.ins) \in 0..U64Max
      /\ Value(tx.ins) <= TrueValue(tx.ins)
      /\ TrueValue(tx.outs) \in Nat /\ Value(tx.outs) = TrueValue(tx.outs)
  BY ValueType DEF GoodTx
<1>2. TxFeeMass(tx) \in Nat
  BY FeeTypes, LenProperties DEF TxFeeMass, GoodTx, Worth, IsSeq
<1>3. Value(tx.ins) - Value(tx.outs) >= TxFeeMass(tx)
  <2>1. ~(Value(tx.ins) - Value(tx.outs) < TxFeeMass(tx))
    BY DEF PaysItsWay, Underpaid
  <2> QED BY <1>1, <1>2, <2>1, U64Type
<1> QED BY <1>1, <1>2, <1>3, U64Type DEF Pays

LEMMA UpTo ==
    ASSUME NEW n \in Nat
    PROVE  IsFiniteSet(1..n) /\ Cardinality(1..n) = n
BY FS_Interval

LEMMA OrderLength ==
    ASSUME TInv, NEW order \in Orders
    PROVE  Len(order) \in Nat /\ Len(order) <= Len(utxos) /\ Len(utxos) \in Nat
<1>1. Len(utxos) \in Nat /\ DOMAIN utxos = 1..Len(utxos)
  BY UtxosWorth, LenProperties DEF TInv, Worth, IsSeq
<1>2. CASE request.utxos = {}
  BY <1>1, <1>2 DEF Orders
<1>3. CASE request.utxos # {}
  <2> DEFINE D == {j \in DOMAIN utxos : utxos[j].id \in request.utxos}
             S == {utxos[i] : i \in D}
             f == [i \in D |-> utxos[i]]
  <2>1. IsFiniteSet(D) /\ Cardinality(D) <= Len(utxos) /\ Cardinality(D) \in Nat
    <3>1. IsFiniteSet(1..Len(utxos)) /\ Cardinality(1..Len(utxos)) = Len(utxos)
      BY <1>1, UpTo
    <3>2. D \in SUBSET (1..Len(utxos))
      BY <1>1
    <3> HIDE DEF D
    <3> QED BY <3>1, <3>2, FS_Subset, FS_CardinalityType
  <2>2. f \in Surjection(D, S)
    BY DEF Surjection
  <2>3. IsFiniteSet(S) /\ Cardinality(S) <= Cardinality(D) /\ Cardinality(S) \in Nat
    <3> HIDE DEF D, S, f
    <3> QED BY <2>1, <2>2, FS_Surjection, FS_CardinalityType
  <2>4. order \in [1..Cardinality(S) -> S]
    BY <1>3 DEF Orders, SetToSeqs
  <2>5. Len(order) = Cardinality(S)
    <3> HIDE DEF S
    <3> QED BY <2>3, <2>4, SeqDef, LenProperties
  <2> HIDE DEF D, S
  <2> QED BY <1>1, <2>1, <2>3, <2>5
<1> QED BY <1>2, <1>3

\* No sum of the selection wraps, with amounts that fit.
LEMMA SelectionFits ==
    ASSUME TInv, AmountsFit, rate \in NodeRates \cup {request.limit},
           NEW order \in Orders, NEW coins, coins = Filter(order, Usable)
    PROVE  request.amount + ReservedFee(coins, Taken(coins)) <= U64Max
<1> DEFINE n == Taken(coins)
           Fee(outs) == FeeAt(rate, FeeMass(1, outs, request.payload))
<1>1. Worth(coins) /\ Len(coins) \in Nat /\ Len(coins) <= Len(utxos) /\ Len(utxos) \in Nat
  <2> DEFINE Kept == {i \in DOMAIN order : Usable(order[i])}
  <2>1. coins = Pick(order, Kept) /\ Kept \in SUBSET DOMAIN order
    BY DEF Filter, Pick, Rank
  <2>2. Worth(coins)
    BY UsableCoins
  <2>3. IsSeq(order)
    BY OrdersSeq DEF TInv
  <2> HIDE DEF Kept
  <2>4. Len(coins) \in 0..Len(order)
    BY <2>1, <2>3, PickProperties
  <2> QED BY <2>2, <2>4, OrderLength
<1>2. n \in 0..Len(coins)
  BY <1>1, SelectionWorth
<1>3. /\ request.amount \in Nat /\ request.amount <= U64Max /\ request.payload \in Nat
      /\ rate \in Nat /\ maxFee \in Nat /\ U64Max \in Nat
  BY UtxosWorth, U64Type DEF TInv, Scalars
<1> HIDE DEF n
<1>4. CASE n = 0
  <2>1. ReservedFee(coins, n) = 0
    BY <1>4 DEF ReservedFee
  <2> QED BY <1>3, <2>1 DEF n
<1>5. CASE n # 0
  <2> DEFINE fee == EstimateFee(<<coins[1]>>,
                                IF request.sendAll THEN coins[1].value ELSE request.amount,
                                request.payload)
  <2>1. Len(<<coins[1]>>) = 1 /\ 1 \in Nat
    OBVIOUS
  <2>2. fee \in Nat /\ \E outs \in {1, 2} : fee <= Fee(outs)
    BY <1>3, <2>1, EstimateType
  <2> HIDE DEF fee
  <2>3. PICK outs \in {1, 2} : fee <= Fee(outs)
    BY <2>2
  <2>4. Fee(outs) \in Nat
    BY <1>3, FeeTypes
  <2>5. request.amount + Len(utxos) * Fee(outs) <= U64Max
    BY DEF AmountsFit, TInv, IInv
  <2> HIDE DEF Fee
  <2>6. n * fee \in Nat /\ n * fee <= Len(utxos) * Fee(outs) /\ Len(utxos) * Fee(outs) \in Nat
    <3>1. fee * n <= Fee(outs) * n
      BY <1>1, <1>2, <2>2, <2>3, <2>4, TimesMonotone
    <3>2. n * Fee(outs) <= Len(utxos) * Fee(outs)
      BY <1>1, <1>2, <2>4, TimesMonotone
    <3>3. n * fee = fee * n /\ n * Fee(outs) = Fee(outs) * n
      BY <1>1, <1>2, <2>2, <2>4
    <3>4. n * fee \in Nat /\ n * Fee(outs) \in Nat /\ Len(utxos) * Fee(outs) \in Nat
      BY <1>1, <1>2, <2>2, <2>4, TimesNat
    <3> QED BY <3>1, <3>2, <3>3, <3>4
  <2>7. ReservedFee(coins, n) = U64(n * fee)
    BY <1>5 DEF ReservedFee, fee
  <2>8. ReservedFee(coins, n) <= n * fee /\ ReservedFee(coins, n) \in 0..U64Max
    BY <2>6, <2>7, U64Type
  <2> QED BY <1>3, <2>5, <2>6, <2>8 DEF n
<1> QED BY <1>4, <1>5

LEMMA SelectRelayInv ==
    ASSUME AmountsFit, RelayInv, SelectUtxos
    PROVE  RelayInv'
<1>1. TInv'
  BY SelectTInv DEF RelayInv
<1>2. PICK order \in Orders : \E coins : \E paid, change \in 0..U64Max :
          /\ coins = Filter(order, Usable)
          /\ candidate' = [ins |-> Selection(coins), outs |-> Payments(paid, change),
                           payload |-> request.payload]
          /\ change = Value(Selection(coins)) - TotalSpend(coins)
          /\ request.sendAll => change = 0
          /\ ~request.sendAll => paid = request.amount
  BY SelectAre DEF RelayInv
<1>3. PICK coins : \E paid, change \in 0..U64Max :
          /\ coins = Filter(order, Usable)
          /\ candidate' = [ins |-> Selection(coins), outs |-> Payments(paid, change),
                           payload |-> request.payload]
          /\ change = Value(Selection(coins)) - TotalSpend(coins)
          /\ request.sendAll => change = 0
          /\ ~request.sendAll => paid = request.amount
  BY <1>2
<1>4. PICK paid \in 0..U64Max, change \in 0..U64Max :
          /\ coins = Filter(order, Usable)
          /\ candidate' = [ins |-> Selection(coins), outs |-> Payments(paid, change),
                           payload |-> request.payload]
          /\ change = Value(Selection(coins)) - TotalSpend(coins)
          /\ request.sendAll => change = 0
          /\ ~request.sendAll => paid = request.amount
  BY <1>3
<1>5. candidate'.outs = Payments(paid, change)
  BY <1>4
<1>6. paid + change <= U64Max
  <2>1. CASE request.sendAll
    BY <1>4, <2>1, U64Type
  <2>2. CASE ~request.sendAll
    <3> DEFINE reserved == ReservedFee(coins, Taken(coins))
    <3>1. Worth(coins)
      BY <1>4, UsableCoins DEF RelayInv
    <3>2. Value(Selection(coins)) \in 0..U64Max /\ reserved \in 0..U64Max
      BY <3>1, SelectionWorth, ValueType, ReservedType DEF RelayInv
    <3>3. request.amount \in 0..U64Max /\ request.amount + reserved <= U64Max
      BY <1>4, SelectionFits, UtxosWorth DEF SelectUtxos, RelayInv, TInv
    <3>4. request.amount + reserved \in 0..U64Max
      BY <3>2, <3>3, U64Type
    <3>5. TotalSpend(coins) = request.amount + reserved
      BY <2>2, <3>4, U64Type DEF TotalSpend, Spend
    <3> HIDE DEF reserved
    <3>6. change = Value(Selection(coins)) - (request.amount + reserved) /\ paid = request.amount
      BY <1>4, <2>2, <3>5
    <3> QED BY <3>2, <3>3, <3>6, U64Type
  <2> QED BY <2>1, <2>2
<1>7. TrueValue(candidate'.outs) <= U64Max
  BY <1>5, <1>6, PaymentsGood
<1>8. pc' = "check" /\ UNCHANGED batch
  BY DEF SelectUtxos
<1> QED BY <1>1, <1>7, <1>8 DEF RelayInv

LEMMA NextRelayInv ==
    ASSUME AmountsFit, RelayInv, [Next]_vars
    PROVE  RelayInv'
<1>1. TInv /\ TInv'
  BY NextTInv DEF RelayInv
<1>2. CASE Fails
  BY <1>1, <1>2, FailsAre DEF RelayInv
<1>3. CASE Validate \/ DaaAdvances \/ UNCHANGED vars
  <2>1. UNCHANGED <<batch, candidate, request, rate>> /\ (pc' = "select" => pc = "select")
    BY <1>3 DEF Validate, DaaAdvances, vars
  <2> QED BY <1>1, <2>1 DEF RelayInv
<1>4. CASE \E r \in NodeRates : FeeLimits(r)
  <2>1. PICK r \in NodeRates : FeeLimits(r)
    BY <1>4
  <2>2. rate' \in NodeRates \cup {request.limit} /\ UNCHANGED <<batch, candidate, request>>
    BY <2>1 DEF FeeLimits, Smaller
  <2> QED BY <1>1, <2>2 DEF RelayInv
<1>5. CASE SelectUtxos
  BY <1>5, SelectRelayInv
<1>6. CASE Deliver
  <2>1. Pays(candidate)
    BY <1>1, <1>6, WrappedPays DEF Deliver, RelayInv, TInv, IInv, IsTx
  <2>2. /\ batch' = Append(batch, candidate) /\ UNCHANGED candidate /\ pc' = "done"
    BY <1>6 DEF Deliver
  <2>3. \A i \in DOMAIN batch' : batch'[i] = candidate \/ \E j \in DOMAIN batch : batch'[i] = batch[j]
    BY <1>1, <2>2, AppendProperties, LenProperties DEF TInv, IInv, IsSeq
  <2>4. \A i \in DOMAIN batch' : Pays(batch'[i])
    BY <2>1, <2>3 DEF RelayInv
  <2> QED BY <1>1, <2>2, <2>4 DEF RelayInv
<1>7. CASE Split
  <2> DEFINE splits == SplitTransactions
  <2>1. /\ \A k \in DOMAIN splits : PaysItsWay(splits[k])
        /\ batch' = batch \o splits /\ pc' = "merge" /\ UNCHANGED candidate
    BY <1>7 DEF Split
  <2>2. ASSUME NEW k \in DOMAIN splits PROVE Pays(splits[k])
    <3>1. k \in 1..SplitCount
      BY <1>1, <2>2, SplitsGood
    <3>2. PICK v \in 0..U64Max : splits[k].outs = <<Change(v)>>
      BY <1>1, <3>1, SplitsGood
    <3>3. GoodTx(splits[k]) /\ splits[k].payload = 0
      BY <1>1, <3>1, SplitsGood DEF SplitOf
    <3>4. TrueValue(splits[k].outs) <= U64Max
      <4> HIDE DEF splits
      <4>1. TrueValue(splits[k].outs) = v
        BY <3>2, OutputsWorth
      <4> QED BY <4>1, U64Type
    <3> HIDE DEF splits
    <3> QED BY <2>1, <2>2, <3>3, <3>4, WrappedPays
  <2>3. \A tx \in Range(batch) \cup Range(splits) : Pays(tx)
    <3> HIDE DEF splits
    <3> QED BY <2>2 DEF RelayInv, Range
  <2>4. Range(batch') = Range(batch) \cup Range(splits)
    BY <1>1, <2>1, SplitsGood, ConcatSeq DEF TInv, IInv
  <2>5. \A i \in DOMAIN batch' : Pays(batch'[i])
    <3> HIDE DEF splits
    <3> QED BY <2>3, <2>4 DEF Range
  <2> QED BY <1>1, <2>1, <2>5 DEF RelayInv
<1>8. CASE Merge \/ MergeWithMore
  <2>1. PICK coins : candidate' = MergeOf(coins)
    BY <1>8 DEF Merge, MergeWithMore
  <2>2. PICK change \in 0..U64Max :
            /\ candidate'.outs = Payments(Sent, change)
            /\ Sent \in 0..U64Max /\ Sent + change <= U64Max
    BY <1>1, <2>1, MergeOutputs
  <2>3. TrueValue(candidate'.outs) <= U64Max
    BY <2>2, PaymentsGood
  <2>4. UNCHANGED batch /\ pc' = "check"
    BY <1>8 DEF Merge, MergeWithMore
  <2> QED BY <1>1, <2>3, <2>4 DEF RelayInv
<1> QED BY <1>2, <1>3, <1>4, <1>5, <1>6, <1>7, <1>8 DEF Next, Fails

\* Whatever the coins, the rates, the masses and the number of levels, if the
\* amount and the fees of all coins stay below 2^64: no transaction of the batch
\* creates money, and each pays the floor, although every comparison on the way
\* is one of wrapped sums.
THEOREM GeneratorPaysRelayFloor == AmountsFit => (Spec => []PaysRelayFloor)
<1> SUFFICES ASSUME AmountsFit PROVE Spec => []PaysRelayFloor
  OBVIOUS
<1>1. Init => RelayInv
  <2> SUFFICES ASSUME Init PROVE RelayInv
    OBVIOUS
  <2>1. batch = << >> /\ candidate.outs = << >> /\ pc = "validate"
    BY DEF Init, NoTx
  <2>2. TrueValue(<< >>) = 0
    <3>1. Len(Values(<< >>)) = 0
      BY WorthEmpty, ValuesSeq, EmptyIsSeq
    <3> QED BY <3>1, TotalOfFew DEF TrueValue
  <2> QED BY <2>1, <2>2, InitTInv, U64Type DEF RelayInv
<1>2. RelayInv /\ [Next]_vars => RelayInv'
  BY NextRelayInv
<1>3. RelayInv => PaysRelayFloor
  BY DEF RelayInv, PaysRelayFloor, Pays, Range
<1> QED BY <1>1, <1>2, <1>3, PTL DEF Spec

-----------------------------------------------------------------------------
(* The recipient. *)

\* A payment to the recipient, with the change if there is any.
PaysRecipient(outs) ==
    \E v, c \in 0..U64Max :
        /\ outs = Payments(v, c)
        /\ request.sendAll => c = 0
        /\ ~request.sendAll => v = request.amount

ToSelf(tx) == \A i \in DOMAIN tx.outs : tx.outs[i].to = "change"

\* Until the last transaction is delivered the batch pays nobody, and the
\* candidate pays the recipient.
RecipientInv ==
    /\ TInv
    /\ pc # "done" => answer = "pending"
    /\ pc = "check" => PaysRecipient(candidate.outs)
    /\ answer # "Built" => \A i \in DOMAIN batch : ToSelf(batch[i])
    /\ answer = "Built" =>
           /\ Len(batch) > 0
           /\ \A i \in 1..(Len(batch) - 1) : ToSelf(batch[i])
           /\ PaysRecipient(batch[Len(batch)].outs)

LEMMA SelectRecipientInv ==
    ASSUME RecipientInv, SelectUtxos
    PROVE  RecipientInv'
<1>1. TInv'
  BY SelectTInv DEF RecipientInv
<1>2. PaysRecipient(candidate'.outs)
  <2>1. PICK order \in Orders : \E coins : \E paid, change \in 0..U64Max :
            /\ candidate' = [ins |-> Selection(coins), outs |-> Payments(paid, change),
                             payload |-> request.payload]
            /\ request.sendAll => change = 0
            /\ ~request.sendAll => paid = request.amount
    BY SelectAre DEF RecipientInv
  <2>2. PICK coins : \E paid, change \in 0..U64Max :
            /\ candidate' = [ins |-> Selection(coins), outs |-> Payments(paid, change),
                             payload |-> request.payload]
            /\ request.sendAll => change = 0
            /\ ~request.sendAll => paid = request.amount
    BY <2>1
  <2> QED BY <2>2 DEF PaysRecipient
<1>3. pc = "select" /\ pc' = "check" /\ UNCHANGED <<batch, answer, request>>
  BY DEF SelectUtxos
<1> QED BY <1>1, <1>2, <1>3 DEF RecipientInv, PaysRecipient

LEMMA MergeRecipientInv ==
    ASSUME RecipientInv, Merge \/ MergeWithMore
    PROVE  RecipientInv'
<1>1. TInv /\ TInv'
  BY MergeTInv DEF RecipientInv
<1>2. PaysRecipient(candidate'.outs)
  <2>1. PICK coins : candidate' = MergeOf(coins)
    BY DEF Merge, MergeWithMore
  <2>2. PICK change \in 0..U64Max :
            /\ candidate'.outs = Payments(Sent, change)
            /\ Sent \in 0..U64Max
            /\ request.sendAll => change = 0
            /\ ~request.sendAll => Sent = request.amount
    BY <1>1, <2>1, MergeOutputs
  <2> QED BY <2>2 DEF PaysRecipient
<1>3. pc = "merge" /\ pc' = "check" /\ UNCHANGED <<batch, answer, request>>
  BY DEF Merge, MergeWithMore
<1> QED BY <1>1, <1>2, <1>3 DEF RecipientInv, PaysRecipient

LEMMA DeliverRecipientInv ==
    ASSUME RecipientInv, Deliver
    PROVE  RecipientInv'
<1>1. TInv'
  BY DeliverTInv DEF RecipientInv
<1>2. /\ pc = "check" /\ answer # "Built" /\ batch' = Append(batch, candidate)
      /\ answer' = "Built" /\ pc' = "done" /\ UNCHANGED request
  BY DEF Deliver, RecipientInv
<1>3. /\ Len(batch) \in Nat /\ Len(batch') = Len(batch) + 1 /\ DOMAIN batch = 1..Len(batch)
      /\ batch'[Len(batch')] = candidate
      /\ \A i \in 1..Len(batch) : batch'[i] = batch[i]
  BY <1>2, AppendProperties, LenProperties DEF RecipientInv, TInv, IInv, IsSeq
<1>4. Len(batch') - 1 = Len(batch) /\ Len(batch') > 0
  BY <1>3
<1>5. \A i \in 1..(Len(batch') - 1) : ToSelf(batch'[i])
  BY <1>2, <1>3, <1>4 DEF RecipientInv
<1>6. PaysRecipient(batch'[Len(batch')].outs)
  BY <1>2, <1>3 DEF RecipientInv
<1> QED BY <1>1, <1>2, <1>4, <1>5, <1>6 DEF RecipientInv, PaysRecipient

LEMMA SplitRecipientInv ==
    ASSUME RecipientInv, Split
    PROVE  RecipientInv'
<1>1. TInv /\ TInv'
  BY SplitTInv DEF RecipientInv
<1> DEFINE splits == SplitTransactions
<1>2. /\ pc = "check" /\ answer = "pending" /\ batch' = batch \o splits
      /\ pc' = "merge" /\ UNCHANGED <<answer, request>>
  BY DEF Split, MustSplit, RecipientInv
<1>3. \A tx \in Range(splits) : ToSelf(tx)
  <2>1. ASSUME NEW k \in 1..SplitCount PROVE ToSelf(splits[k])
    <3>1. PICK v \in 0..U64Max : splits[k].outs = <<Change(v)>>
      BY <1>1, SplitsGood
    <3> HIDE DEF splits
    <3>2. \A i \in DOMAIN <<Change(v)>> : <<Change(v)>>[i].to = "change"
      BY DEF Change
    <3> QED BY <3>1, <3>2 DEF ToSelf
  <2>2. DOMAIN splits = 1..SplitCount
    BY <1>1, SplitsGood
  <2> HIDE DEF splits
  <2> QED BY <2>1, <2>2 DEF Range
<1>4. \A tx \in Range(batch) : ToSelf(tx)
  BY <1>2 DEF RecipientInv, Range
<1>5. Range(batch') = Range(batch) \cup Range(splits)
  BY <1>1, <1>2, SplitsGood, ConcatSeq DEF TInv, IInv
<1> HIDE DEF splits
<1>6. \A i \in DOMAIN batch' : ToSelf(batch'[i])
  BY <1>3, <1>4, <1>5 DEF Range
<1> QED BY <1>1, <1>2, <1>6 DEF RecipientInv

LEMMA NextRecipientInv == RecipientInv /\ [Next]_vars => RecipientInv'
<1> SUFFICES ASSUME RecipientInv, [Next]_vars PROVE RecipientInv'
  OBVIOUS
<1>1. TInv'
  BY NextTInv DEF RecipientInv
<1>2. CASE Fails
  <2>1. DOMAIN batch' = {} /\ answer' # "Built" /\ pc' = "done"
    BY <1>2, FailsAre, ErrorsType
  <2> QED BY <1>1, <2>1 DEF RecipientInv
<1>3. CASE Validate \/ (\E r \in NodeRates : FeeLimits(r)) \/ DaaAdvances \/ UNCHANGED vars
  <2>1. /\ UNCHANGED <<batch, answer, request, candidate>>
        /\ (pc' = "check" => pc = "check") /\ (pc' # "done" => pc # "done")
    BY <1>3 DEF Validate, FeeLimits, DaaAdvances, vars
  <2> QED BY <1>1, <2>1 DEF RecipientInv, PaysRecipient
<1>4. CASE SelectUtxos
  BY <1>4, SelectRecipientInv
<1>5. CASE Deliver
  BY <1>5, DeliverRecipientInv
<1>6. CASE Split
  BY <1>6, SplitRecipientInv
<1>7. CASE Merge \/ MergeWithMore
  BY <1>7, MergeRecipientInv
<1> QED BY <1>2, <1>3, <1>4, <1>5, <1>6, <1>7 DEF Next, Fails

\* The one output of a payment that goes to the recipient.
LEMMA RecipientsOf ==
    ASSUME NEW v \in 0..U64Max, NEW c \in 0..U64Max
    PROVE  Filter(Payments(v, c), LAMBDA out : out.to = "recipient") = <<Recipient(v)>>
<1> DEFINE outs == Payments(v, c)
           Kept == {i \in DOMAIN outs : outs[i].to = "recipient"}
<1>1. Filter(outs, LAMBDA out : out.to = "recipient") = Pick(outs, Kept)
  BY DEF Filter, Pick, Rank
<1>2. outs[1] = Recipient(v) /\ Kept = {1} /\ 1 \in DOMAIN outs
  <2>1. \A x : Recipient(x).to = "recipient" /\ Change(x).to = "change"
    BY DEF Recipient, Change
  <2>2. CASE c > 0
    BY <2>1, <2>2 DEF Payments
  <2>3. CASE ~(c > 0)
    BY <2>1, <2>3 DEF Payments
  <2> QED BY <2>2, <2>3
<1>3. IsSeq(outs)
  BY PaymentsGood DEF Worth
<1>4. Cardinality({1}) = 1
  BY FS_Singleton
<1> HIDE DEF outs, Kept
<1>5. /\ IsSeq(Pick(outs, Kept)) /\ Len(Pick(outs, Kept)) = 1
      /\ \E at \in Bijection(1..1, {1}) : \A k \in 1..1 : Pick(outs, Kept)[k] = outs[at[k]]
  <2>1. Kept \in SUBSET DOMAIN outs /\ Cardinality(Kept) = 1
    BY <1>2, <1>4
  <2>2. /\ IsSeq(Pick(outs, Kept)) /\ Len(Pick(outs, Kept)) = Cardinality(Kept)
        /\ \E at \in Bijection(1..Cardinality(Kept), Kept) :
               \A k \in 1..Cardinality(Kept) : Pick(outs, Kept)[k] = outs[at[k]]
    BY <1>3, <2>1, PickProperties
  <2> QED BY <1>2, <2>1, <2>2
<1>6. Pick(outs, Kept)[1] = Recipient(v)
  <2>1. PICK at \in Bijection(1..1, {1}) : \A k \in 1..1 : Pick(outs, Kept)[k] = outs[at[k]]
    BY <1>5
  <2>2. at[1] = 1 /\ 1 \in 1..1
    BY DEF Bijection, Injection
  <2> QED BY <1>2, <2>1, <2>2
<1>7. Pick(outs, Kept) = <<Recipient(v)>>
  BY <1>5, <1>6 DEF IsSeq
<1> QED BY <1>1, <1>7 DEF outs

\* However often a payment is split and merged: the recipient is paid once, in
\* the last transaction, what was asked for or all that it leaves.
THEOREM GeneratorPaysRecipientOnce == Spec => []RecipientPaidOnce
<1>1. Init => RecipientInv
  <2> SUFFICES ASSUME Init PROVE RecipientInv
    OBVIOUS
  <2>1. DOMAIN batch = {} /\ pc = "validate" /\ answer = "pending"
    BY DEF Init
  <2> QED BY <2>1, InitTInv DEF RecipientInv
<1>2. RecipientInv => RecipientPaidOnce
  <2> SUFFICES ASSUME RecipientInv, answer = "Built"
               PROVE  /\ \A i \in 1..(Len(batch) - 1) : \A out \in Range(batch[i].outs) : out.to = "change"
                      /\ Filter(Last(batch).outs, LAMBDA out : out.to = "recipient")
                           = <<Recipient(IF request.sendAll THEN TrueValue(Last(batch).outs)
                                                            ELSE request.amount)>>
    BY DEF RecipientPaidOnce, Built
  <2>1. \A i \in 1..(Len(batch) - 1) : \A out \in Range(batch[i].outs) : out.to = "change"
    BY DEF RecipientInv, ToSelf, Range
  <2>2. PICK v \in 0..U64Max, c \in 0..U64Max :
            /\ Last(batch).outs = Payments(v, c)
            /\ request.sendAll => c = 0
            /\ ~request.sendAll => v = request.amount
    BY DEF RecipientInv, PaysRecipient, Last
  <2>3. Filter(Last(batch).outs, LAMBDA out : out.to = "recipient") = <<Recipient(v)>>
    BY <2>2, RecipientsOf
  <2>4. v = IF request.sendAll THEN TrueValue(Last(batch).outs) ELSE request.amount
    <3>1. TrueValue(Last(batch).outs) = v + c
      BY <2>2, PaymentsGood
    <3> QED BY <2>2, <3>1, U64Type
  <2> QED BY <2>1, <2>3, <2>4
<1> QED BY <1>1, <1>2, NextRecipientInv, PTL DEF Spec
=============================================================================
