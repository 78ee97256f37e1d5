----------------------------- MODULE Strategies -----------------------------
(***************************************************************************)
(* strategies/MomentumAgent.ts, LiquidityAgent.ts and ArbitrageAgent.ts    *)
(* with their default configurations, on market data as                    *)
(* utils/marketData.ts fetches it or as another source may give it.        *)
(* MeanReversion has the fourth strategy.  shouldTrade is one step: what   *)
(* overlapping polls do to the cooldown is in TradingAgent.                *)
(***************************************************************************)
EXTENDS MeanReversion, Sequences

CONSTANTS
    Changes,            \* price changes, in hundredths of a percent
    Liquidities,        \* total liquidity
    Volumes,            \* volume in the last hour
    MarketPrices,       \* current price, in units of PriceScale
    References          \* reference prices: [price, confidence in percent]

ASSUME MarketAssumption ==
    /\ Changes \subseteq Int
    /\ Liquidities \subseteq Nat /\ Volumes \subseteq Nat /\ MarketPrices \subseteq Nat
    /\ References \subseteq [price : Nat, confidence : Nat]

VARIABLES
    source,             \* where the market data came from
    previousLiquidity,  \* of the liquidity strategy, in a sequence of at most one
    referencePrices     \* of the arbitrage strategy, not stale

strategyVars == <<reversionVars, source, previousLiquidity, referencePrices>>

(* What fetchMarketData returns: price changes are not implemented and the *)
(* sides are halves.  A failed read gives a price or a liquidity of zero.  *)
FetchedChange == 0
FetchedSides(total) == <<total \div 2, total - total \div 2>>
Sides(total, from) ==
    IF from = "fetcher" THEN {FetchedSides(total)}
    ELSE {<<x, total - x>> : x \in {total \div 4, total \div 2, (3 * total) \div 4}}

StrategiesInit ==
    /\ ReversionInit
    /\ source = "fetcher" /\ previousLiquidity = <<>> /\ referencePrices = {}

(* ---------------------------- Momentum --------------------------------- *)

TooVolatile(h, d) == Magnitude(h) > 2000 \/ Magnitude(d) > 2000
CompositeMomentum(h, d) == 6 * h + 4 * d            \* tenths of the unit
MomentumThreshold == 1100

Sign(x) == IF x > 0 THEN 1 ELSE IF x < 0 THEN -1 ELSE 0

(* In 1/6000: weights 0.6 and 0.4, full at three times the thresholds.     *)
MomentumConfidence(h, d) ==
    LET signals == 24 * Least(Magnitude(h), 150) + 4 * Least(Magnitude(d), 600)
        bonus == IF Sign(h) = Sign(d) THEN 900 ELSE -900
    IN  Most(600, Least(signals + bonus, 6000))

(* More than 60% of the five latest swaps are aligned with the trend.      *)
TrendConfirmed(aligned, swaps) == swaps >= 5 /\ aligned * 10 > 6 * 5
MomentumPercent(h, d, confirmed) ==
    (IF confirmed THEN Least(12 * MomentumConfidence(h, d), 60000)
                  ELSE 7 * MomentumConfidence(h, d)) \div 600

MomentumDirection(h, d) == IF CompositeMomentum(h, d) > 0 THEN "ZERO_FOR_ONE" ELSE "ONE_FOR_ZERO"

MomentumDecision(h, d, p, confirmed) ==
    IF TooVolatile(h, d) \/ Magnitude(CompositeMomentum(h, d)) < MomentumThreshold
    THEN NoTrade
    ELSE LET percent == MomentumPercent(h, d, confirmed)
         IN  Traded("momentum", MomentumDirection(h, d), ScaledAmount(percent), p, SlippageBps, percent)

Momentum(from, h, d, p, aligned, swaps) ==
    /\ from = "fetcher" => h = FetchedChange /\ d = FetchedChange
    /\ source' = from
    /\ IF coolingDown THEN Waits ELSE Decides(MomentumDecision(h, d, p, TrendConfirmed(aligned, swaps)))
    /\ UNCHANGED <<emaVars, previousLiquidity, referencePrices>>

(* ---------------------------- Liquidity -------------------------------- *)

ImbalanceRatio(sides) ==                            \* in 1/1000
    LET low == Least(sides[1], sides[2])
    IN  IF low = 0 THEN 1000 ELSE (Most(sides[1], sides[2]) * 1000) \div low
Imbalanced(sides) == ImbalanceRatio(sides) >= 1500
HighVolume(volume, total) == total > 0 /\ (volume * 10000) \div total >= 1000

SuddenChange(total) ==
    \E prev \in {previousLiquidity[i] : i \in 1..Len(previousLiquidity)} \ {0} :
        (Magnitude(total - prev) * 10000) \div prev >= 1000

(* In 1/15000.  Imbalance says 0.3 to 0.7; volume adds 0.15 or says 0.25;  *)
(* a sudden change adds 0.1 or says 0.2.                                   *)
ImbalanceSignal(sides) ==
    IF Imbalanced(sides) THEN 4500 + 4 * Least(ImbalanceRatio(sides) - 1500, 1500) ELSE 0
(* Mutant: high volume alone counts like an imbalance. *)
WithVolume_asImbalance(signal, high) ==
    IF ~high THEN signal ELSE IF signal > 0 THEN Least(signal + 2250, 15000) ELSE 4500

WithVolume(signal, high) ==
    IF ~high THEN signal ELSE IF signal > 0 THEN Least(signal + 2250, 15000) ELSE 3750
WithChange(signal, sudden) ==
    IF ~sudden THEN signal ELSE IF signal > 0 THEN Least(signal + 1500, 15000) ELSE 3000
LiquidityConfidence(sides, volume, total) ==
    WithChange(WithVolume(ImbalanceSignal(sides), HighVolume(volume, total)), SuddenChange(total))

(* Buys the scarcer side; without an imbalance, sells token0. *)
LiquidityDirection(sides) ==
    IF Imbalanced(sides) /\ sides[1] < sides[2] THEN "ONE_FOR_ZERO" ELSE "ZERO_FOR_ONE"

LiquidityDecision(sides, volume, total, p) ==
    LET confidence == LiquidityConfidence(sides, volume, total)
        percent == confidence \div 150
        amount == ClampedAmount((((total * 100) \div 10000) * percent) \div 100)
    IN  IF confidence < 4500 THEN NoTrade
        ELSE Traded("liquidity", LiquidityDirection(sides), amount, p, SlippageBps, percent)

(* The liquidity is remembered except during the cooldown, so the first    *)
(* change after it is measured from before the trade.                      *)
Liquidity(from, total, sides, volume, p) ==
    /\ sides \in Sides(total, from)
    /\ source' = from
    /\ IF coolingDown \/ total < 1000
       THEN Waits /\ UNCHANGED previousLiquidity
       ELSE /\ Decides(LiquidityDecision(sides, volume, total, p))
            /\ previousLiquidity' = <<total>>
    /\ UNCHANGED <<emaVars, referencePrices>>

(* ---------------------------- Arbitrage -------------------------------- *)

(* Spreads from 0.3% to 10% of the current price are opportunities.        *)
Spread(r, p) == Magnitude(r.price - p)
Opportunity(r, p) ==
    /\ r.price > 0 /\ p > 0
    /\ 1000 * Spread(r, p) >= 3 * p /\ 10 * Spread(r, p) <= p
ArbitrageConfidence(r, p) ==                        \* in 1/10000
    Most(1000, Least((20000 * Spread(r, p) * r.confidence) \div (3 * p), 10000))
ArbitragePercent(r, p) == Least((ArbitrageConfidence(r, p) * Spread(r, p)) \div (2 * p), 100)
Merit(r, p) == Spread(r, p) * ArbitrageConfidence(r, p)

ArbitrageDecision(r, p) ==
    Traded("arbitrage", IF r.price > p THEN "ONE_FOR_ZERO" ELSE "ZERO_FOR_ONE",
           ScaledAmount(ArbitragePercent(r, p)), p, 30, ArbitrageConfidence(r, p) \div 100)

(* The best opportunity; of several equal ones, the first in some order.   *)
Arbitrage(from, p) ==
    LET found == {r \in referencePrices : Opportunity(r, p)}
    IN  /\ source' = from
        /\ IF coolingDown \/ found = {}
           THEN Waits
           ELSE \E r \in found :
                   /\ \A o \in found : Merit(o, p) <= Merit(r, p)
                   /\ Decides(ArbitrageDecision(r, p))
        /\ UNCHANGED <<emaVars, previousLiquidity, referencePrices>>

UpdateReferencePrices(refs) ==
    /\ referencePrices' = refs
    /\ UNCHANGED <<reversionVars, source, previousLiquidity>>

(* Prices older than five minutes are filtered out. *)
ReferenceGetsStale(r) ==
    /\ referencePrices' = referencePrices \ {r}
    /\ UNCHANGED <<reversionVars, source, previousLiquidity>>

StrategiesNext ==
    \/ ReversionNext /\ UNCHANGED <<source, previousLiquidity, referencePrices>>
    \/ \E from \in {"fetcher", "other"}, p \in MarketPrices :
          \/ \E h, d \in Changes, a \in {3, 4}, n \in {4, 5} : Momentum(from, h, d, p, a, n)
          \/ \E total \in Liquidities, volume \in Volumes :
                \E sides \in Sides(total, from) : Liquidity(from, total, sides, volume, p)
          \/ Arbitrage(from, p)
    \/ \E refs \in SUBSET References : UpdateReferencePrices(refs)
    \/ \E r \in referencePrices : ReferenceGetsStale(r)

StrategiesSpec == StrategiesInit /\ [][StrategiesNext]_strategyVars

StrategiesTypeOK ==
    /\ DecisionTypeOK /\ EMATypeOK
    /\ source \in {"fetcher", "other"} /\ referencePrices \subseteq References
    /\ Len(previousLiquidity) <= 1

(* On the data that the agents really fetch, the strategies are nearly     *)
(* silent: the momentum strategy never trades, since price changes are not *)
(* implemented, and the liquidity strategy only when a high volume and a   *)
(* sudden change come together, since both sides are half of the total     *)
(* (fetchMarketData, shouldTrade).                                         *)
FetchedDataSignals ==
    (decision.trade /\ source = "fetcher") =>
        /\ decision.strategy # "momentum"
        /\ decision.strategy = "liquidity" =>
              decision.confidence = 35 /\ decision.direction = "ZERO_FOR_ONE"
=============================================================================
