------------------------ MODULE TransactionGenerator ------------------------
(***************************************************************************)
(* One call of TransactionGenerator::create_unsigned_transactions: the fee  *)
(* limits, the coin selection, and the splitting and merging of a          *)
(* transaction that is too heavy for the node.                              *)
(*                                                                         *)
(* The caller holds the mutexes of the UTXO manager and of the generator   *)
(* throughout, so the coins stay as they are; what may change between the  *)
(* two looks at the DAG is its DAA score, and with it which coinbase        *)
(* outputs are mature.  maybe_auto_compound_transaction calls itself with   *)
(* the merge transaction: here its state returns to "check".               *)
(***************************************************************************)
EXTENDS Mass, Sequences, FiniteSets, SequencesExt

CONSTANTS
    Wallets,           \* the coin lists the wallet may have, ascending by amount
    Requests,          \* the transaction descriptions clients may send
    WalletAddresses,   \* the addresses the wallet knows
    NodeRates,         \* the fee rates the node may suggest
    MinChangeTarget,   \* MIN_CHANGE_TARGET
    DefaultMaxFee,     \* SOMPI_PER_KASPA
    MaxDaa             \* bound on the DAA score of one behaviour

\* One input fits into a transaction, whatever its number of signatures: the
\* generator divides by the number of inputs that fit.
ASSUME GeneratorAssumption ==
    /\ \A w \in Wallets : w \in Seq(Range(w))
    /\ \A r \in Requests : r.payload \in Nat
    /\ NodeRates \subseteq Nat
    /\ DefaultMaxFee \in Nat
    /\ MaxDaa \in Nat
    /\ ComputeMass(1, 1, 0) <= MaxStandardMass

\* Amounts are u64, and the view lists a coin once, under the outpoint of a
\* transaction that is not one of those to be built.
ASSUME CoinsAssumption ==
    /\ \A w \in Wallets : \A i \in DOMAIN w :
           /\ w[i].value \in 0..U64Max /\ w[i].since \in Nat
           /\ w[i].id[1] # "split"
           /\ \A j \in DOMAIN w : w[j].id = w[i].id => j = i
    /\ \A r \in Requests : r.amount \in 0..U64Max /\ r.limit \in Nat /\ r.sendAll \in BOOLEAN

VARIABLES
    utxos,       \* utxo_manager.utxos_sorted_by_amount
    request,     \* the TransactionDescription
    daa,         \* the node's virtual DAA score
    pc,          \* where the call stands
    rate,        \* fee_rate
    maxFee,      \* max_fee
    selected,    \* original_selected_utxos
    candidate,   \* the transaction maybe_auto_compound_transaction looks at
    pieces,      \* the outputs of the split transactions of this level
    batch,       \* the transactions made so far
    topUps,      \* history: how many merges added coins
    answer       \* "pending", "Built", or the error

vars == <<utxos, request, daa, pc, rate, maxFee, selected, candidate, pieces,
          batch, topUps, answer>>

NoTx == [ins |-> <<>>, outs |-> <<>>, payload |-> 0]

Init ==
    /\ utxos \in Wallets
    /\ request \in Requests
    /\ daa = 0
    /\ pc = "validate"
    /\ rate = 0
    /\ maxFee = 0
    /\ selected = <<>>
    /\ candidate = NoTx
    /\ pieces = <<>>
    /\ batch = <<>>
    /\ topUps = 0
    /\ answer = "pending"

TotalOf(values) ==
    LET sum[n \in 0..Len(values)] == IF n = 0 THEN 0 ELSE sum[n - 1] + values[n]
    IN  sum[Len(values)]
Values(coinsOrOuts) == [i \in DOMAIN coinsOrOuts |-> coinsOrOuts[i].value]
Value(coinsOrOuts) == U64(TotalOf(Values(coinsOrOuts)))

TxComputeMass(tx) == ComputeMass(Len(tx.ins), Len(tx.outs), tx.payload)
TxFeeMass(tx) == FeeMass(Len(tx.ins), Len(tx.outs), tx.payload)

\* estimate_fee and estimate_mass: two outputs unless the recipient gets it all.
EstimateFee(coins, recipientValue, payload) ==
    LET outs == IF Value(coins) > recipientValue THEN 2 ELSE 1
    IN  Smaller(FeeAt(rate, FeeMass(Len(coins), outs, payload)), maxFee)

Recipient(v) == [to |-> "recipient", value |-> v]
Change(v) == [to |-> "change", value |-> v]

\* The outputs of a payment: change only if there is some.
Payments(paid, change) ==
    IF change > 0 THEN <<Recipient(paid), Change(change)>> ELSE <<Recipient(paid)>>

\* Every error ends the call; transactions made before it are thrown away.
Fail(error) ==
    /\ answer' = error
    /\ pc' = "done"
    /\ batch' = <<>>
    /\ UNCHANGED <<utxos, request, daa, rate, maxFee, selected, candidate,
                   pieces, topUps>>

-----------------------------------------------------------------------------
(* Validation and fee limits. *)

CoinIds == {utxos[i].id : i \in DOMAIN utxos}

\* The first check that fails gives the error.
Objection ==
    IF request.to = "malformed" THEN "InvalidAddress"
    ELSE IF request.from # {} /\ request.utxos # {} THEN "BuildFailed"
    ELSE IF ~(request.from \subseteq WalletAddresses) THEN "InvalidAddress"
    ELSE IF ~(request.utxos \subseteq CoinIds) THEN "UtxoNotFound"
    ELSE "none"

Refuse ==
    /\ pc = "validate"
    /\ Objection # "none"
    /\ Fail(Objection)

Validate ==
    /\ pc = "validate"
    /\ Objection = "none"
    /\ pc' = "limits"
    /\ UNCHANGED <<utxos, request, daa, rate, maxFee, selected, candidate,
                   pieces, batch, topUps, answer>>

\* Rate limits below the minimal rate of the mempool are refused.
RefuseRate ==
    /\ pc = "limits"
    /\ request.policy \in {"maxFeeRate", "exactFeeRate"}
    /\ request.limit < RateUnit
    /\ Fail("FeeTooLow")

\* calculate_fee_limits: r is what the node suggests.
FeeLimits(r) ==
    /\ pc = "limits"
    /\ ~(request.policy \in {"maxFeeRate", "exactFeeRate"} /\ request.limit < RateUnit)
    /\ rate' = CASE request.policy = "maxFeeRate" -> Smaller(r, request.limit)
                 [] request.policy = "exactFeeRate" -> request.limit
                 [] OTHER -> r
    /\ maxFee' = CASE request.policy = "maxFee" -> request.limit
                   [] request.policy = "none" -> DefaultMaxFee
                   [] OTHER -> U64Max
    /\ pc' = "select"
    /\ UNCHANGED <<utxos, request, daa, selected, candidate, pieces, batch,
                   topUps, answer>>

-----------------------------------------------------------------------------
(* Coin selection. *)

\* is_utxo_unspendable, and the filter of from_addresses.
Usable(coin) ==
    /\ coin.since <= daa
    /\ request.from = {} \/ coin.addr \in request.from

\* SelectSeq, without its recursion, for the provers.
Filter(s, Keep(_)) ==
    LET kept == {i \in DOMAIN s : Keep(s[i])}
    IN  [k \in 1..Cardinality(kept) |->
            s[CHOOSE i \in kept : Cardinality({j \in kept : j < i}) = k - 1]]

\* The coins in the order the loop meets them: a preselection is a hash map.
Orders ==
    IF request.utxos = {} THEN {utxos}
    ELSE SetToSeqs({utxos[i] : i \in {j \in DOMAIN utxos : utxos[j].id \in request.utxos}})

\* The fee the selection reserves: the estimate for the first coin, capped by
\* the limit, once for each coin taken.
ReservedFee(coins, n) ==
    IF n = 0 THEN 0
    ELSE U64(n * EstimateFee(<<coins[1]>>,
                             IF request.sendAll THEN coins[1].value ELSE request.amount,
                             request.payload))

Spend(coins, n) == U64(request.amount + ReservedFee(coins, n))

\* The amount and the fees of all coins together stay below 2^64: then neither
\* this sum nor the outputs' wrap.
AmountsFit ==
    \A w \in Wallets, r \in Requests : \A fee \in NodeRates \cup {r.limit}, outs \in {1, 2} :
        r.amount + Len(w) * FeeAt(fee, FeeMass(1, outs, r.payload)) <= U64Max

\* The loop stops after n coins when they pay exactly, or when there are
\* several and the change is worth having.
StopsAt(coins, n) ==
    LET total == Value(SubSeq(coins, 1, n))
    IN  /\ ~request.sendAll
        /\ \/ total = Spend(coins, n)
           \/ n > 1 /\ total >= U64(Spend(coins, n) + MinChangeTarget)

Taken(coins) ==
    LET stops == {n \in 1..Len(coins) : StopsAt(coins, n)}
    IN  IF stops = {} THEN Len(coins) ELSE Min(stops)

Selection(coins) == SubSeq(coins, 1, Taken(coins))

TotalSpend(coins) ==
    IF request.sendAll THEN Value(Selection(coins)) ELSE Spend(coins, Taken(coins))

Affordable(coins) ==
    /\ Value(Selection(coins)) >= TotalSpend(coins)
    /\ ~(request.sendAll /\ Value(Selection(coins)) = 0)

SelectUtxos ==
    /\ pc = "select"
    /\ \E order \in Orders :
           LET coins == Filter(order, Usable)
               total == Value(Selection(coins))
               paid == IF request.sendAll
                         THEN U64(total - ReservedFee(coins, Taken(coins)))
                         ELSE request.amount
           IN  /\ Affordable(coins)
               /\ selected' = Selection(coins)
               /\ candidate' = [ins |-> Selection(coins),
                                outs |-> Payments(paid, total - TotalSpend(coins)),
                                payload |-> request.payload]
    /\ pc' = "check"
    /\ UNCHANGED <<utxos, request, daa, rate, maxFee, pieces, batch, topUps, answer>>

CannotAfford ==
    /\ pc = "select"
    /\ \E order \in Orders : ~Affordable(Filter(order, Usable))
    /\ Fail("InsufficientFunds")

-----------------------------------------------------------------------------
(* Compounding. *)

\* check_transaction_fee_rate: the sums are u64, the fee limit is not looked at.
Overdrawn(tx) == Value(tx.ins) < Value(tx.outs)
Underpaid(tx) == Value(tx.ins) - Value(tx.outs) < TxFeeMass(tx)
PaysItsWay(tx) == ~Overdrawn(tx) /\ ~Underpaid(tx)

\* The error of the first of txs that does not pay its way.
FeeError(txs) ==
    LET bad == {i \in DOMAIN txs : ~PaysItsWay(txs[i])}
    IN  IF Overdrawn(txs[Min(bad)]) THEN "InsufficientFunds" ELSE "FeeTooLow"

CheckFails ==
    /\ pc = "check"
    /\ ~PaysItsWay(candidate)
    /\ Fail(FeeError(<<candidate>>))

Deliver ==
    /\ pc = "check"
    /\ PaysItsWay(candidate)
    /\ TxComputeMass(candidate) < MaxStandardMass
    /\ batch' = Append(batch, candidate)
    /\ answer' = "Built"
    /\ pc' = "done"
    /\ UNCHANGED <<utxos, request, daa, rate, maxFee, selected, candidate,
                   pieces, topUps>>

\* split_and_input_per_split_counts.
\* Mutants: the mass of a split transaction without its inputs is forgotten;
\* the inputs of an incomplete last split are.
InputsPerEmptySplit == MaxStandardMass \div InputMass
InputsPerSplit == (MaxStandardMass - ComputeMass(0, 1, 0)) \div InputMass
FullSplitCount == Len(candidate.ins) \div InputsPerSplit
SplitCount == CeilDiv(Len(candidate.ins), InputsPerSplit)

\* create_split_transaction: some inputs, one output back to the wallet.
SplitOf(coins) ==
    LET total == Value(coins)
    IN  [ins |-> coins,
         outs |-> <<Change(U64(total - EstimateFee(coins, total, 0)))>>,
         payload |-> 0]

SplitTransactions ==
    [k \in 1..SplitCount |->
        SplitOf(SubSeq(candidate.ins, (k - 1) * InputsPerSplit + 1,
                       Smaller(k * InputsPerSplit, Len(candidate.ins))))]

MustSplit ==
    /\ pc = "check"
    /\ PaysItsWay(candidate)
    /\ TxComputeMass(candidate) >= MaxStandardMass

\* The output of the k-th transaction of the batch, as a coin of the next one.
PieceOf(tx, k) ==
    [id |-> <<"split", k>>, value |-> tx.outs[1].value, addr |-> "change", since |-> 0]

\* Mutant: split transactions are not checked.
SplitUnchecked ==
    /\ MustSplit
    /\ batch' = batch \o SplitTransactions
    /\ pieces' = [k \in DOMAIN SplitTransactions |->
                      PieceOf(SplitTransactions[k], Len(batch) + k)]
    /\ pc' = "merge"
    /\ UNCHANGED <<utxos, request, daa, rate, maxFee, selected, candidate,
                   topUps, answer>>

Split ==
    /\ MustSplit
    /\ LET splits == SplitTransactions
       IN  /\ \A k \in DOMAIN splits : PaysItsWay(splits[k])
           /\ batch' = batch \o splits
           /\ pieces' = [k \in DOMAIN splits |-> PieceOf(splits[k], Len(batch) + k)]
    /\ pc' = "merge"
    /\ UNCHANGED <<utxos, request, daa, rate, maxFee, selected, candidate,
                   topUps, answer>>

SplitFails ==
    /\ MustSplit
    /\ \E k \in 1..SplitCount : ~PaysItsWay(SplitTransactions[k])
    /\ Fail(FeeError(SplitTransactions))

\* merge_transaction: what the pieces leave after the merge's fee, what the
\* recipient is to get, and what is missing.
Available ==
    U64(Value(pieces) - EstimateFee(pieces, request.amount, candidate.payload))

\* Mutant: the value sent is reduced for every request.
SentWhatIsLeft == IF request.sendAll THEN Available ELSE Smaller(request.amount, Available)

Sent == IF request.sendAll THEN Available ELSE request.amount
Missing == IF Available < Sent THEN Sent - Available ELSE 0

MergeOf(coins) ==
    [ins |-> coins,
     outs |-> Payments(Sent, IF Available > Sent THEN Available - Sent ELSE 0),
     payload |-> candidate.payload]

Merge ==
    /\ pc = "merge"
    /\ Missing = 0
    /\ candidate' = MergeOf(pieces)
    /\ pieces' = <<>>
    /\ pc' = "check"
    /\ UNCHANGED <<utxos, request, daa, rate, maxFee, selected, batch, topUps, answer>>

\* more_utxos_for_merge_transaction: each coin counts less the fee of an input.
\* Mutant: the coins the selection took are offered again.
AnyCoins == Filter(utxos, Usable)

OtherCoins ==
    Filter(utxos, LAMBDA coin : Usable(coin) /\ coin \notin Range(selected))

ValueAdded(coins, n) ==
    U64(TotalOf(Values(SubSeq(coins, 1, n))) - n * FeeAt(rate, ApproxInputMass))

Enough(coins) == {n \in 1..Len(coins) : ValueAdded(coins, n) >= Missing}

MergeWithMore ==
    /\ pc = "merge"
    /\ Missing > 0
    /\ request.utxos = {}
    /\ Enough(OtherCoins) # {}
    /\ candidate' = MergeOf(pieces \o SubSeq(OtherCoins, 1, Min(Enough(OtherCoins))))
    /\ topUps' = topUps + 1
    /\ pieces' = <<>>
    /\ pc' = "check"
    /\ UNCHANGED <<utxos, request, daa, rate, maxFee, selected, batch, answer>>

MergeFails ==
    /\ pc = "merge"
    /\ Missing > 0
    /\ request.utxos # {} \/ Enough(OtherCoins) = {}
    /\ Fail("InsufficientFunds")

-----------------------------------------------------------------------------
\* The questions to the node: the fee estimate, the DAG's state, and that again
\* when a merge looks for more coins.
AsksNode ==
    \/ pc = "limits" /\ request.policy \in {"maxFee", "none"}
    \/ pc = "limits" /\ request.policy = "maxFeeRate" /\ request.limit >= RateUnit
    \/ pc = "select"
    \/ pc = "merge" /\ Missing > 0 /\ request.utxos = {}

RpcFails == AsksNode /\ Fail("Rpc")

\* Blocks arrive meanwhile.
DaaAdvances ==
    /\ pc # "done"
    /\ daa < MaxDaa
    /\ daa' = daa + 1
    /\ UNCHANGED <<utxos, request, pc, rate, maxFee, selected, candidate,
                   pieces, batch, topUps, answer>>

Next ==
    \/ Refuse \/ Validate
    \/ RefuseRate \/ (\E r \in NodeRates : FeeLimits(r))
    \/ SelectUtxos \/ CannotAfford
    \/ CheckFails \/ Deliver \/ Split \/ SplitFails
    \/ Merge \/ MergeWithMore \/ MergeFails
    \/ RpcFails \/ DaaAdvances

Spec == Init /\ [][Next]_vars

-----------------------------------------------------------------------------
(* Properties. *)

TrueValue(coinsOrOuts) == TotalOf(Values(coinsOrOuts))

Spends(tx) == {tx.ins[i].id : i \in DOMAIN tx.ins}
Built == answer = "Built"

TypeOK ==
    /\ utxos \in Wallets
    /\ request \in Requests
    /\ daa \in 0..MaxDaa
    /\ pc \in {"validate", "limits", "select", "check", "merge", "done"}
    /\ rate \in Nat
    /\ maxFee \in Nat
    /\ topUps \in Nat
    /\ answer \in {"pending", "Built", "InvalidAddress", "BuildFailed", "UtxoNotFound",
                   "FeeTooLow", "InsufficientFunds", "Rpc"}
    /\ \A coin \in Range(selected) : coin \in Range(utxos)
    /\ \A tx \in Range(batch) \cup {candidate} :
           /\ Range(Values(tx.ins) \o Values(tx.outs)) \subseteq 0..U64Max
           /\ {out.to : out \in Range(tx.outs)} \subseteq {"recipient", "change"}

\* No transaction of the batch creates money, and each pays the node's relay
\* floor of one sompi per gram, although every sum and difference on the way
\* wraps (check_transaction_fee_rate; MIN_FEE_RATE).
PaysRelayFloor ==
    \A tx \in Range(batch) :
        TrueValue(tx.ins) - TrueValue(tx.outs) >= TxFeeMass(tx)

\* However often a payment is split and merged, the recipient is paid once, in
\* the last transaction, and in full: the amount asked for, or all that the
\* transaction leaves (is_send_all).
RecipientPaidOnce ==
    Built =>
        /\ \A i \in 1..(Len(batch) - 1) : \A out \in Range(batch[i].outs) : out.to = "change"
        /\ Filter(Last(batch).outs, LAMBDA out : out.to = "recipient")
               = <<Recipient(IF request.sendAll THEN TrueValue(Last(batch).outs)
                                                ELSE request.amount)>>

\* Every coin the selection took, and every output of a split transaction, is
\* spent by exactly one transaction of the batch: no split forgets an input
\* (split_and_input_per_split_counts rounds the count up).
NothingLeftBehind ==
    Built =>
        \A id \in {coin.id : coin \in Range(selected)}
                  \cup {<<"split", k>> : k \in 1..(Len(batch) - 1)} :
            Cardinality({k \in DOMAIN batch : id \in Spends(batch[k])}) = 1

\* The transactions can be submitted in their order: each input is a coin this
\* request may spend or the output of an earlier transaction, and none is spent
\* twice.  Only while at most one merge had to add coins: a second one does not
\* see what the first has added.
SubmittableInOrder ==
    Built /\ topUps <= 1 =>
        \A k \in DOMAIN batch :
            /\ Cardinality(Spends(batch[k])) = Len(batch[k].ins)
            /\ \A j \in 1..(k - 1) : Spends(batch[j]) \cap Spends(batch[k]) = {}
            /\ \A coin \in Range(batch[k].ins) :
                   \/ /\ coin \in Range(utxos) /\ Usable(coin)
                      /\ request.utxos = {} \/ coin.id \in request.utxos
                   \/ coin.id[1] = "split" /\ coin.id[2] < k

\* The point of splitting: no transaction of the batch is above the mass the
\* node relays (maybe_auto_compound_transaction).
StandardMass == \A tx \in Range(batch) : TxComputeMass(tx) <= MaxStandardMass

\* The limit given with a request, or the default of 1 KAS, bounds the fees
\* (transaction_generator.rs: "Default to a bound of max 1 KAS as fee";
\* args.rs: "Maximum fee in Sompi").
FeesWithinLimit ==
    Built /\ request.policy \in {"maxFee", "none"} =>
        TotalOf([k \in DOMAIN batch |-> TrueValue(batch[k].ins) - TrueValue(batch[k].outs)])
            <= maxFee
=============================================================================
