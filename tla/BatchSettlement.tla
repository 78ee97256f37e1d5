-------------------------- MODULE BatchSettlement --------------------------
(***************************************************************************)
(* The arithmetic of one batch of PrivBatchHook: what a sequence of swap   *)
(* intents nets to, which way the hook swaps, who is eligible for the swap *)
(* output and how that output is divided.  No state: PrivBatchHook.tla     *)
(* calls these operators from its batch actions.                           *)
(*                                                                         *)
(* `is' is the sequence of intents a batch executes, in calldata order     *)
(* (the contract copies each into a UserContribution, field by field), and *)
(* c0, c1 are the pool key's currency0 and currency1.  uint256 is Nat: the *)
(* amounts of the model are far from 2^256, where checked arithmetic would *)
(* revert.                                                                 *)
(***************************************************************************)
EXTENDS Integers, Sequences, FiniteSetsExt

(* Sums over a set of positions of the batch. *)
SumIn(is, ks) == SumFunctionOnSet([k \in DOMAIN is |-> is[k].amountIn], ks)

SumMinOut(is, ks) == SumFunctionOnSet([k \in DOMAIN is |-> is[k].minAmountOut], ks)

(* The branch of the delta loop an intent takes: its input is currency0, or *)
(* the loop counts it on the currency1 side.                                *)
Sells0(is, c0) == {k \in DOMAIN is : is[k].tokenIn = c0}

Sells1(is, c0) == DOMAIN is \ Sells0(is, c0)

(* Mutant: the counter side's minimum is added instead of subtracted. *)
NetDelta0_wrongSign(is, c0) ==
    SumIn(is, Sells0(is, c0)) + SumMinOut(is, Sells1(is, c0))

NetDelta0(is, c0) == SumIn(is, Sells0(is, c0)) - SumMinOut(is, Sells1(is, c0))

NetDelta1(is, c0) == SumIn(is, Sells1(is, c0)) - SumMinOut(is, Sells0(is, c0))

(* The two directions a batch may swap in; a batch in neither reverts with *)
(* InvalidNetDeltaSign.                                                    *)
ZeroForOne(is, c0) == NetDelta0(is, c0) > 0 /\ NetDelta1(is, c0) < 0

OneForZero(is, c0) == NetDelta1(is, c0) > 0 /\ NetDelta0(is, c0) < 0

ValidSwap(is, c0) == ZeroForOne(is, c0) \/ OneForZero(is, c0)

InputCurrency(is, c0, c1) == IF ZeroForOne(is, c0) THEN c0 ELSE c1

OutputCurrency(is, c0, c1) == IF ZeroForOne(is, c0) THEN c1 ELSE c0

(* The exact input handed to poolManager.swap. *)
NetInput(is, c0) ==
    IF ZeroForOne(is, c0) THEN NetDelta0(is, c0) ELSE NetDelta1(is, c0)

(* Positions whose intent swaps in the direction of the batch. *)
Eligible(is, c0, c1) ==
    {k \in DOMAIN is : /\ is[k].tokenIn = InputCurrency(is, c0, c1)
                       /\ is[k].tokenOut = OutputCurrency(is, c0, c1)}

TotalInput(is, c0, c1) == SumIn(is, Eligible(is, c0, c1))

(* Whether any of an output `out' is validated and handed out at all. *)
Distributes(is, c0, c1, out) == out > 0 /\ TotalInput(is, c0, c1) > 0

FloorShare(is, c0, c1, out, k) ==
    (out * is[k].amountIn) \div TotalInput(is, c0, c1)

(* _validateSlippage does not revert.  Mutant: the minimums are compared in *)
(* total.                                                                  *)
SlippageOK_total(is, c0, c1, out) ==
    Distributes(is, c0, c1, out) => out >= SumMinOut(is, Eligible(is, c0, c1))

SlippageOK(is, c0, c1, out) ==
    Distributes(is, c0, c1, out) =>
        \A k \in Eligible(is, c0, c1) :
            FloorShare(is, c0, c1, out, k) >= is[k].minAmountOut

(* Mutant: the last user gets a floor share too, and dust remains. *)
Payout_noRemainder(is, c0, c1, out, k) ==
    IF Distributes(is, c0, c1, out) /\ k \in Eligible(is, c0, c1)
    THEN FloorShare(is, c0, c1, out, k)
    ELSE 0

(* What the intent at position k is paid: its floor share, except that the *)
(* last eligible position takes the remainder.                             *)
Payout(is, c0, c1, out, k) ==
    LET eligible == Eligible(is, c0, c1)
        Last == \A j \in eligible : j <= k
    IN  IF ~Distributes(is, c0, c1, out) \/ k \notin eligible
        THEN 0
        ELSE IF Last
             THEN out - SumFunctionOnSet([j \in eligible |-> FloorShare(is, c0, c1, out, j)],
                                         eligible \ {k})
             ELSE FloorShare(is, c0, c1, out, k)

Payouts(is, c0, c1, out) == [k \in DOMAIN is |-> Payout(is, c0, c1, out, k)]

=============================================================================
