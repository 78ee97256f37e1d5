---------------------------- MODULE BaseStrategy ----------------------------
(***************************************************************************)
(* strategies/BaseStrategy.ts: what the strategies share, and the decision *)
(* they return.  Amounts, prices and percentages are integers in units     *)
(* that keep the code's comparisons exact; the code computes them in       *)
(* floating point, whose rounding is left out.                             *)
(***************************************************************************)
EXTENDS Integers

CONSTANTS
    MinAmountIn, MaxAmountIn,   \* tradingSettings
    SlippageBps,                \* defaultSlippageBps
    PriceScale                  \* a price of 1 as an integer

ASSUME StrategyAssumption ==
    /\ MinAmountIn \in Nat /\ MaxAmountIn \in Nat /\ MinAmountIn <= MaxAmountIn
    /\ SlippageBps \in 0..10000 /\ PriceScale \in Nat \ {0}

VARIABLES
    decision,       \* what shouldTrade returned last
    coolingDown     \* lastTradeTimestamp of the pool is within the cooldown

Least(a, b) == IF a < b THEN a ELSE b
Most(a, b) == IF a < b THEN b ELSE a
Magnitude(a) == IF a < 0 THEN -a ELSE a

NoTrade == [trade |-> FALSE]

(* min plus a percentage of the range between min and max. *)
ScaledAmount(percent) == MinAmountIn + ((MaxAmountIn - MinAmountIn) * percent) \div 100
ClampedAmount(amount) == Most(MinAmountIn, Least(amount, MaxAmountIn))

(* A price that is not positive (the fetcher's fall-back) protects nothing. *)
ExpectedOut(amountIn, price, direction) ==
    IF direction = "ZERO_FOR_ONE"
    THEN (amountIn * price) \div PriceScale
    ELSE (amountIn * PriceScale) \div price
MinAmountOut(amountIn, price, direction, bps) ==
    IF price <= 0 THEN 0
    ELSE (ExpectedOut(amountIn, price, direction) * (10000 - bps)) \div 10000

Traded(who, direction, amountIn, price, bps, percent) ==
    [trade |-> TRUE, strategy |-> who, direction |-> direction, amountIn |-> amountIn,
     minAmountOut |-> MinAmountOut(amountIn, price, direction, bps),
     price |-> price, confidence |-> percent]

(* shouldTrade returns d: the cooldown starts with a trade. *)
Decides(d) ==
    /\ decision' = d
    /\ coolingDown' = d.trade

Waits == decision' = NoTrade /\ UNCHANGED coolingDown

DecisionTypeOK ==
    /\ coolingDown \in BOOLEAN
    /\ decision.trade =>
          /\ decision.direction \in {"ZERO_FOR_ONE", "ONE_FOR_ZERO"}
          /\ decision.confidence \in 0..100
=============================================================================
