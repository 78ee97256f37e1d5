------------------------ MODULE BatchSettlementProofs ------------------------
(***************************************************************************)
(* What the arithmetic of BatchSettlement.tla guarantees of any batch, of  *)
(* any size: the facts about it that the proofs of PrivBatchHook.tla cite. *)
(***************************************************************************)
EXTENDS BatchSettlement, SumTheorems

(* A sequence of intents, as far as the arithmetic looks at it. *)
IsBatch(is) ==
    \E n \in Nat : /\ DOMAIN is = 1..n
                   /\ \A k \in 1..n : is[k].amountIn \in Nat /\ is[k].minAmountOut \in Nat

LEMMA BatchPositions ==
    ASSUME NEW is, IsBatch(is)
    PROVE  /\ IsFiniteSet(DOMAIN is) /\ DOMAIN is \subseteq Nat
           /\ \A k \in DOMAIN is : is[k].amountIn \in Nat /\ is[k].minAmountOut \in Nat
  <1>1. PICK n \in Nat :
           /\ DOMAIN is = 1..n
           /\ \A k \in 1..n : is[k].amountIn \in Nat /\ is[k].minAmountOut \in Nat
    BY DEF IsBatch
  <1>2. IsFiniteSet(1..n)
    BY FS_Interval
  <1> QED  BY <1>1, <1>2

LEMMA SumInNat ==
    ASSUME NEW is, IsBatch(is), NEW ks \in SUBSET DOMAIN is
    PROVE  SumIn(is, ks) \in Nat /\ SumMinOut(is, ks) \in Nat
  <1>1. /\ IsFiniteSet(ks)
        /\ NatOn([k \in DOMAIN is |-> is[k].amountIn], ks)
        /\ NatOn([k \in DOMAIN is |-> is[k].minAmountOut], ks)
    BY BatchPositions, SubsetCount DEF NatOn
  <1> QED  BY <1>1, SumNat DEF SumIn, SumMinOut

LEMMA DivBound ==
    ASSUME NEW x \in Nat, NEW d \in Nat, d > 0
    PROVE  x \div d \in Nat /\ d * (x \div d) <= x
  OBVIOUS

(* The floor shares of a batch that distributes. *)
Floors(is, c0, c1, out) ==
    [k \in Eligible(is, c0, c1) |-> FloorShare(is, c0, c1, out, k)]

LEMMA FloorBound ==
    ASSUME NEW is, IsBatch(is), NEW c0, NEW c1, NEW out \in Nat,
           Distributes(is, c0, c1, out), NEW k \in Eligible(is, c0, c1)
    PROVE  /\ FloorShare(is, c0, c1, out, k) \in Nat
           /\ TotalInput(is, c0, c1) * FloorShare(is, c0, c1, out, k) <= out * is[k].amountIn
  <1>1. k \in DOMAIN is /\ is[k].amountIn \in Nat
    BY BatchPositions DEF Eligible
  <1>2. TotalInput(is, c0, c1) \in Nat /\ TotalInput(is, c0, c1) > 0
    BY SumInNat DEF TotalInput, Eligible, Distributes
  <1>3. out * is[k].amountIn \in Nat
    BY <1>1
  <1> QED  BY <1>2, <1>3, DivBound DEF FloorShare

(* Together they are no more than the output: T times each is at most the  *)
(* output times the input of its position, and the inputs add up to T.     *)
LEMMA FloorsFit ==
    ASSUME NEW is, IsBatch(is), NEW c0, NEW c1, NEW out \in Nat,
           Distributes(is, c0, c1, out)
    PROVE  /\ IsFiniteSet(Eligible(is, c0, c1))
           /\ NatOn(Floors(is, c0, c1, out), Eligible(is, c0, c1))
           /\ SumFunctionOnSet(Floors(is, c0, c1, out), Eligible(is, c0, c1)) <= out
  <1> DEFINE E == Eligible(is, c0, c1)
             T == TotalInput(is, c0, c1)
             floor == Floors(is, c0, c1, out)
             input == [k \in DOMAIN is |-> is[k].amountIn]
             scaledFloor == [k \in E |-> T * floor[k]]
             scaledInput == [k \in E |-> out * input[k]]
  <1>1. E \subseteq DOMAIN is /\ IsFiniteSet(E)
    BY BatchPositions, SubsetCount DEF Eligible
  <1>2. T \in Nat /\ T > 0 /\ T = SumFunctionOnSet(input, E)
    BY <1>1, SumInNat DEF TotalInput, Distributes, SumIn
  <1>3. NatOn(floor, E) /\ NatOn(input, E)
    BY <1>1, BatchPositions, FloorBound DEF NatOn, Floors
  <1>4. \A k \in E : T * floor[k] <= out * input[k]
    BY <1>1, FloorBound DEF Floors
  <1> HIDE DEF E, T, floor, input
  <1>5. IntOn(floor, E) /\ IntOn(input, E)
    BY <1>3 DEF NatOn, IntOn
  <1>6. IntOn(scaledFloor, E) /\ IntOn(scaledInput, E) /\ \A k \in E : scaledFloor[k] <= scaledInput[k]
    BY <1>2, <1>4, <1>5 DEF IntOn
  <1>7. /\ SumFunctionOnSet(scaledFloor, E) = T * SumFunctionOnSet(floor, E)
        /\ SumFunctionOnSet(scaledInput, E) = out * T
    BY <1>1, <1>2, <1>5, SumScaled
  <1> HIDE DEF scaledFloor, scaledInput
  <1>8. T * SumFunctionOnSet(floor, E) <= out * T
    BY <1>1, <1>6, <1>7, SumMonotone
  <1>9. SumFunctionOnSet(floor, E) \in Nat
    BY <1>1, <1>3, SumNat
  <1>10. \A a, b, d \in Nat : d > 0 /\ d * a <= b * d => a <= b
    OBVIOUS
  <1>11. SumFunctionOnSet(floor, E) <= out
    BY <1>2, <1>8, <1>9, <1>10
  <1> QED  BY <1>1, <1>3, <1>11 DEF E, floor

(* A batch that distributes has one last eligible position. *)
LEMMA LastEligible ==
    ASSUME NEW is, IsBatch(is), NEW c0, NEW c1, NEW out, Distributes(is, c0, c1, out)
    PROVE  \E k \in Eligible(is, c0, c1) : \A j \in Eligible(is, c0, c1) : j <= k
  <1> DEFINE E == Eligible(is, c0, c1)
             bounds == {m \in Nat : \A j \in E : j <= m}
  <1>1. PICK n \in Nat : DOMAIN is = 1..n
    BY DEF IsBatch
  <1>2. E \subseteq 1..n
    BY <1>1 DEF Eligible
  <1>3. E # {}
    BY SumEmpty DEF Distributes, TotalInput, SumIn
  <1> HIDE DEF E
  <1>4. n \in bounds
    BY <1>2
  <1>5. PICK m \in bounds : \A i \in bounds : m <= i
    BY <1>4, LeastNatural
  <1>6. m \in E
    <2> SUFFICES ASSUME m \notin E PROVE FALSE
      OBVIOUS
    <2>1. \A j \in E : j <= m - 1 /\ m >= 1
      BY <1>2, <1>5
    <2>2. m - 1 \in bounds
      BY <1>3, <2>1, <1>5
    <2> QED  BY <1>5, <2>2
  <1> QED  BY <1>5, <1>6 DEF E

(* Every payout is a natural: the remainder the last position gets is not  *)
(* negative, and is at least its floor share.                              *)
LEMMA PayoutNat ==
    ASSUME NEW is, IsBatch(is), NEW c0, NEW c1, NEW out \in Nat, NEW k \in DOMAIN is
    PROVE  /\ Payout(is, c0, c1, out, k) \in Nat
           /\ Distributes(is, c0, c1, out) /\ k \in Eligible(is, c0, c1) =>
                 Payout(is, c0, c1, out, k) >= FloorShare(is, c0, c1, out, k)
  <1> DEFINE E == Eligible(is, c0, c1)
             floor == Floors(is, c0, c1, out)
  <1>1. CASE ~Distributes(is, c0, c1, out) \/ k \notin E
    BY <1>1 DEF Payout
  <1>2. CASE Distributes(is, c0, c1, out) /\ k \in E
    <2>1. /\ IsFiniteSet(E) /\ NatOn(floor, E)
          /\ SumFunctionOnSet(floor, E) <= out
      BY <1>2, FloorsFit
    <2>2. floor[k] = FloorShare(is, c0, c1, out, k) /\ floor[k] \in Nat
      BY <1>2, <2>1 DEF Floors, NatOn
    <2>3. IsFiniteSet(E \ {k}) /\ NatOn(floor, E \ {k}) /\ IntOn(floor, E)
      BY <2>1, SubsetCount DEF NatOn, IntOn
    <2>4. SumFunctionOnSet(floor, E) = floor[k] + SumFunctionOnSet(floor, E \ {k})
      BY <1>2, <2>1, <2>3, SumRemove
    <2>5. SumFunctionOnSet(floor, E \ {k}) \in Nat
      BY <2>3, SumNat
    <2>6. \/ Payout(is, c0, c1, out, k) = out - SumFunctionOnSet(floor, E \ {k})
          \/ Payout(is, c0, c1, out, k) = floor[k]
      BY <1>2, <2>2 DEF Payout, Floors
    <2> QED  BY <2>1, <2>2, <2>4, <2>5, <2>6
  <1> QED  BY <1>1, <1>2

(* What _validateSlippage compares, the floor share, bounds what is paid.   *)
LEMMA MinimumIsPaid ==
    ASSUME NEW is, IsBatch(is), NEW c0, NEW c1, NEW out \in Nat,
           SlippageOK(is, c0, c1, out), Distributes(is, c0, c1, out),
           NEW k \in Eligible(is, c0, c1)
    PROVE  Payouts(is, c0, c1, out)[k] >= is[k].minAmountOut
  <1>1. k \in DOMAIN is /\ is[k].minAmountOut \in Nat
    BY BatchPositions DEF Eligible
  <1>2. FloorShare(is, c0, c1, out, k) >= is[k].minAmountOut
    BY DEF SlippageOK
  <1>3. /\ Payout(is, c0, c1, out, k) \in Nat
        /\ Payout(is, c0, c1, out, k) >= FloorShare(is, c0, c1, out, k)
        /\ FloorShare(is, c0, c1, out, k) \in Nat
    BY <1>1, PayoutNat, FloorBound
  <1> QED  BY <1>1, <1>2, <1>3 DEF Payouts

(* A batch that does not distribute pays nothing. *)
LEMMA NothingPaid ==
    ASSUME NEW is, IsBatch(is), NEW c0, NEW c1, NEW out, NEW ks \in SUBSET DOMAIN is,
           \/ ~Distributes(is, c0, c1, out)
           \/ ks \cap Eligible(is, c0, c1) = {}
    PROVE  SumFunctionOnSet(Payouts(is, c0, c1, out), ks) = 0
  <1> DEFINE payouts == Payouts(is, c0, c1, out)
             good == {T \in SUBSET ks : SumFunctionOnSet(payouts, T) = 0}
  <1>1. IsFiniteSet(ks)
    BY BatchPositions, SubsetCount
  <1>2. \A k \in ks : payouts[k] = 0
    BY DEF Payouts, Payout
  <1> HIDE DEF payouts
  <1>3. {} \in good
    BY SumEmpty
  <1>4. ASSUME NEW T \in SUBSET ks, NEW x \in ks \ T, T \in good
        PROVE  T \cup {x} \in good
    <2>1. IsFiniteSet(T) /\ IntOn(payouts, T \cup {x})
      BY <1>1, <1>2, SubsetCount DEF IntOn
    <2>2. SumFunctionOnSet(payouts, T \cup {x}) = payouts[x] + SumFunctionOnSet(payouts, T)
      BY <2>1, SumAdd
    <2> QED  BY <1>2, <1>4, <2>2
  <1> HIDE DEF good
  <1>5. ks \in good
    BY <1>1, <1>3, <1>4, SubsetInduction
  <1> QED  BY <1>5 DEF good, payouts

(* The output is handed out whole, or not at all. *)
LEMMA OutputIsPaid ==
    ASSUME NEW is, IsBatch(is), NEW c0, NEW c1, NEW out \in Nat
    PROVE  SumFunctionOnSet(Payouts(is, c0, c1, out), DOMAIN is) =
              IF Distributes(is, c0, c1, out) THEN out ELSE 0
  <1> DEFINE E == Eligible(is, c0, c1)
             payouts == Payouts(is, c0, c1, out)
             floor == Floors(is, c0, c1, out)
  <1>1. CASE ~Distributes(is, c0, c1, out)
    BY <1>1, NothingPaid
  <1>2. CASE Distributes(is, c0, c1, out)
    <2>1. IsFiniteSet(DOMAIN is) /\ E \subseteq DOMAIN is /\ IntOn(payouts, DOMAIN is)
      <3>1. IsFiniteSet(DOMAIN is) /\ E \subseteq DOMAIN is
        BY BatchPositions DEF Eligible
      <3>2. \A k \in DOMAIN is : payouts[k] = Payout(is, c0, c1, out, k)
        BY DEF Payouts
      <3>3. \A k \in DOMAIN is : Payout(is, c0, c1, out, k) \in Nat
        BY PayoutNat
      <3>4. \A k \in DOMAIN is : payouts[k] \in Int
        BY <3>2, <3>3
      <3> QED  BY <3>1, <3>4 DEF IntOn
    <2>2. IsFiniteSet(E) /\ NatOn(floor, E)
      BY <1>2, FloorsFit
    <2>3. PICK last \in E : \A j \in E : j <= last
      BY <1>2, LastEligible
    <2>4. payouts[last] = out - SumFunctionOnSet(floor, E \ {last})
      BY <1>2, <2>1, <2>3 DEF Payouts, Payout, Floors
    <2>5. \A k \in E \ {last} : payouts[k] = floor[k]
      <3> SUFFICES ASSUME NEW k \in E \ {last} PROVE payouts[k] = floor[k]
        OBVIOUS
      <3>1. k \in Nat /\ last \in Nat /\ k \in DOMAIN is
        BY <2>1, <2>3, BatchPositions
      <3>2. ~(\A j \in E : j <= k)
        BY <2>3, <3>1
      <3> QED  BY <1>2, <3>1, <3>2 DEF Payouts, Payout, Floors
    <2>6. SumFunctionOnSet(payouts, DOMAIN is \ E) = 0
      BY <2>1, NothingPaid
    <2> HIDE DEF E, payouts, floor
    <2>7. /\ IsFiniteSet(E \ {last}) /\ IntOn(floor, E \ {last}) /\ NatOn(floor, E \ {last})
          /\ IntOn(payouts, E \ {last}) /\ IntOn(payouts, E)
      BY <2>1, <2>2, SubsetCount DEF IntOn, NatOn
    <2>8. SumFunctionOnSet(payouts, E \ {last}) = SumFunctionOnSet(floor, E \ {last})
      BY <2>5, <2>7, SumCongruence
    <2>9. SumFunctionOnSet(payouts, E) = payouts[last] + SumFunctionOnSet(payouts, E \ {last})
      BY <2>2, <2>3, <2>7, SumRemove
    <2>10. SumFunctionOnSet(payouts, DOMAIN is) =
              SumFunctionOnSet(payouts, E) + SumFunctionOnSet(payouts, DOMAIN is \ E)
      BY <2>1, SumSplit
    <2>11. SumFunctionOnSet(floor, E \ {last}) \in Nat
      BY <2>7, SumNat
    <2> QED  BY <1>2, <2>4, <2>6, <2>8, <2>9, <2>10, <2>11 DEF payouts
  <1> QED  BY <1>1, <1>2

(* Every user pays in one of the pool's currencies. *)
PoolCurrencies(is, c0, c1) == \A k \in DOMAIN is : is[k].tokenIn \in {c0, c1}

(* The positions that pay in the currency the hook swaps in. *)
PayIn(is, c0, c1) == {k \in DOMAIN is : is[k].tokenIn = InputCurrency(is, c0, c1)}

(* The net input is no more than what the batch's users pay in of that     *)
(* currency, when they pay in the pool's.                                  *)
LEMMA InputIsCovered ==
    ASSUME NEW is, IsBatch(is), NEW c0, NEW c1, c0 # c1, ValidSwap(is, c0),
           PoolCurrencies(is, c0, c1)
    PROVE  /\ NetInput(is, c0) \in Nat
           /\ NetInput(is, c0) <= SumIn(is, PayIn(is, c0, c1))
  <1>1. /\ Sells0(is, c0) = {k \in DOMAIN is : is[k].tokenIn = c0}
        /\ Sells1(is, c0) = {k \in DOMAIN is : is[k].tokenIn = c1}
    BY DEF Sells0, Sells1, PoolCurrencies
  <1>2. /\ Sells0(is, c0) \in SUBSET DOMAIN is /\ Sells1(is, c0) \in SUBSET DOMAIN is
    BY DEF Sells0, Sells1
  <1>3. /\ SumIn(is, Sells0(is, c0)) \in Nat /\ SumIn(is, Sells1(is, c0)) \in Nat
        /\ SumMinOut(is, Sells0(is, c0)) \in Nat /\ SumMinOut(is, Sells1(is, c0)) \in Nat
    BY <1>2, SumInNat
  <1>4. CASE ZeroForOne(is, c0)
    <2>1. NetInput(is, c0) = SumIn(is, Sells0(is, c0)) - SumMinOut(is, Sells1(is, c0))
      BY <1>4 DEF NetInput, NetDelta0
    <2>2. NetInput(is, c0) > 0 /\ InputCurrency(is, c0, c1) = c0
      BY <1>4, <2>1 DEF ZeroForOne, NetDelta0, InputCurrency
    <2>3. NetInput(is, c0) \in Nat /\ NetInput(is, c0) <= SumIn(is, Sells0(is, c0))
      BY <1>3, <2>1, <2>2
    <2>4. PayIn(is, c0, c1) = Sells0(is, c0)
      BY <1>1, <2>2, Zenon DEF PayIn
    <2> QED  BY <2>3, <2>4
  <1>5. CASE ~ZeroForOne(is, c0)
    <2>1. NetInput(is, c0) = SumIn(is, Sells1(is, c0)) - SumMinOut(is, Sells0(is, c0))
      BY <1>5 DEF NetInput, NetDelta1
    <2>2. NetInput(is, c0) > 0 /\ InputCurrency(is, c0, c1) = c1
      BY <1>5, <2>1 DEF ValidSwap, OneForZero, NetDelta1, InputCurrency
    <2>3. NetInput(is, c0) \in Nat /\ NetInput(is, c0) <= SumIn(is, Sells1(is, c0))
      BY <1>3, <2>1, <2>2
    <2>4. PayIn(is, c0, c1) = Sells1(is, c0)
      BY <1>1, <2>2, Zenon DEF PayIn
    <2> QED  BY <2>3, <2>4
  <1> QED  BY <1>4, <1>5
=============================================================================
