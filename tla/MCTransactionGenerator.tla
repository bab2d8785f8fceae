----------------------- MODULE MCTransactionGenerator -----------------------
(***************************************************************************)
(* Wallets of up to seven coins, of dust (less than the fee of its input)  *)
(* to plenty, one of which may be an immature coinbase output, and one of  *)
(* eight coins, which is merged in two levels.  A transaction of three     *)
(* inputs is already too heavy.  An input costs three times what an output *)
(* does, as the check of a signature makes it cost; so a merge may fall     *)
(* short of what the selection reserved.                                    *)
(***************************************************************************)
EXTENDS TransactionGenerator

Amounts == {2, 12, 30}
Sorted(n) == {s \in [1..n -> Amounts] : \A i \in 1..(n - 1) : s[i] <= s[i + 1]}

\* The coins with these amounts: the k-th matures at `since`, the others are mature.
CoinsOf(s, k, since) ==
    [i \in DOMAIN s |->
        [id |-> <<"coin", i>>, value |-> s[i],
         addr |-> IF i = 2 THEN "B" ELSE "A",
         since |-> IF i = k THEN since ELSE 0]]

MCWallets ==
    {CoinsOf(s, 1, 0) : s \in {<<>>, <<2>>, <<30>>, [i \in 1..8 |-> 12]}}
    \cup {CoinsOf(s, 4, since) : s \in Sorted(4), since \in {0, 1, 2}}
    \cup {CoinsOf(s, k, 1) : s \in {<<2, 12, 12>>, <<12, 12, 12>>, <<2, 12, 12, 12, 12>>,
                                   <<12, 12, 12, 12, 30>>, <<12, 12, 12, 12, 12, 12, 30>>},
                            k \in {1, 3}}

Plain == [to |-> "valid", amount |-> 15, sendAll |-> FALSE, utxos |-> {}, from |-> {},
          payload |-> 0, policy |-> "exactFeeRate", limit |-> 2]

MCRequests ==
    {[Plain EXCEPT !.amount = a, !.payload = p] : a \in {0, 5, 12, 18, 21, 28, 35, 49}, p \in {0, 3}}
    \cup {[Plain EXCEPT !.sendAll = TRUE, !.amount = 0, !.payload = p] : p \in {0, 3}}
    \cup {[Plain EXCEPT !.policy = pl, !.limit = l, !.amount = a] :
              pl \in {"maxFeeRate", "maxFee", "none"}, l \in {1, 3, 12}, a \in {5, 30}}
    \cup {[Plain EXCEPT !.from = f, !.amount = a] : f \in {{"A"}, {"A", "B"}, {"Z"}}, a \in {5, 36}}
    \cup {[Plain EXCEPT !.utxos = u, !.amount = a] :
              u \in {{<<"coin", 2>>, <<"coin", 3>>, <<"coin", 4>>}, {<<"coin", 9>>}}, a \in {5, 15}}
    \cup {[Plain EXCEPT !.utxos = {<<"coin", 1>>}, !.from = {"A"}], [Plain EXCEPT !.to = "malformed"]}

\* What the proof of PaysRelayFloor asks of the amounts and fees holds of these.
ASSUME AmountsFit
=============================================================================
