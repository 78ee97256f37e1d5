-------------------------- MODULE MCPrivBatchHook --------------------------
(***************************************************************************)
(* Small instances of PrivBatchHook for TLC.                               *)
(***************************************************************************)
EXTENDS PrivBatchHook, TLC

CONSTANTS T0, T1, Alice, Bob

(* Both pools trade the same pair, as two fee tiers do. *)
MCCurrency0 == [p \in Pools |-> T0]
MCCurrency1 == [p \in Pools |-> T1]

MCUsers == {Alice, Bob}
MCTokens == {T0, T1}

Swap(user, tokenIn, amount, min, nonce, deadline) ==
    [user |-> user, tokenIn |-> tokenIn,
     tokenOut |-> IF tokenIn = T0 THEN T1 ELSE T0,
     amountIn |-> amount, minAmountOut |-> min, recipient |-> user,
     nonce |-> nonce, deadline |-> deadline]

MCBalance == [a \in Accounts |-> [t \in MCTokens |->
                 IF a = Hook THEN 0
                 ELSE IF a = PoolManager THEN 4 ELSE 6]]

(* Two sells of T0 that share an output unevenly, a buy against them, a    *)
(* sell with the nonce of the first that expires before the second batch,  *)
(* and one more for a second batch with the buy.                           *)
SellA == Swap(Alice, T0, 3, 2, 1, 5)
SellB == Swap(Bob, T0, 2, 1, 1, 5)
BuyC == Swap(Bob, T1, 1, 1, 2, 5)
SellSameNonce == Swap(Alice, T0, 2, 1, 1, 3)
SellD == Swap(Alice, T0, 2, 2, 2, 5)

KeccakHashOf == SellA :> 1 @@ SellB :> 2 @@ BuyC :> 3 @@ SellSameNonce :> 4 @@ SellD :> 5
KeccakIntents == DOMAIN KeccakHashOf
KeccakHashes == 1..5

(* Two pools: a pair of intents, one of which expires.                     *)
SellEarly == Swap(Bob, T0, 2, 1, 1, 3)
PairHashOf == SellA :> 1 @@ SellEarly :> 2
PairIntents == DOMAIN PairHashOf
PairHashes == 1..2

(* Both paths: the pair beside two Poseidon hashes with proofs, under      *)
(* which submitRevealForZK may store either intent.                        *)
MixedHashes == 1..4
MixedProvable == {3, 4}

(* Bound: both paths in one pool, or the keccak path in both pools. *)
Used(p, h) == pending[p][h] + revealed[p][h] > 0
PathsOrPools ==
    \/ \A p \in Pools \ {CHOOSE p \in Pools : TRUE}, h \in Hashes : ~Used(p, h)
    \/ \A p \in Pools, h \in Provable : ~Used(p, h)
=============================================================================
