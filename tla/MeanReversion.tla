--------------------------- MODULE MeanReversion ---------------------------
(***************************************************************************)
(* strategies/MeanReversionAgent.ts: moving averages of the price and of   *)
(* its square, updated with the current price BEFORE the current price is  *)
(* compared with them.  With a smoothing factor K / D the averages after n *)
(* updates are emaA / emaM and emaB / emaM for integers, with emaM = D^n:  *)
(* the model is exact.  The default period of 20 is K = 2, D = 21.         *)
(***************************************************************************)
EXTENDS BaseStrategy

CONSTANTS
    K, D,           \* emaSmoothingFactor, or 2 and emaPeriod + 1
    Prices,         \* prices, in any unit
    MinDataPoints,
    MaxDataPoints   \* bound (the code keeps the last 1000)

ASSUME EMAAssumption ==
    /\ K \in Nat /\ D \in Nat /\ 0 < K /\ K < D
    /\ Prices \subseteq Nat
    /\ MinDataPoints \in Nat /\ MaxDataPoints \in Nat

VARIABLES
    dataPoints,         \* length of the price history
    price,              \* the current price
    emaM, emaA, emaB    \* emaValues = emaA / emaM, emaSquaredValues = emaB / emaM

emaVars == <<dataPoints, price, emaM, emaA, emaB>>
reversionVars == <<decision, coolingDown, emaVars>>

(* The z-score is Deviation / sqrt(Variance), both times emaM. *)
Deviation == price * emaM - emaA
Variance == emaB * emaM - emaA * emaA

EMAInit ==
    /\ dataPoints = 0 /\ price = 0
    /\ emaM = 1 /\ emaA = 0 /\ emaB = 0

FirstPrice(p) == emaM' = 1 /\ emaA' = p /\ emaB' = p * p
NextPrice(p) ==
    /\ emaM' = D * emaM
    /\ emaA' = p * K * emaM + emaA * (D - K)
    /\ emaB' = p * p * K * emaM + emaB * (D - K)
(* Mutant: later prices do not reach the averages before they are compared. *)
UpdateEMA_later(p) == IF dataPoints = 0 THEN FirstPrice(p) ELSE UNCHANGED <<emaM, emaA, emaB>>

UpdateEMA(p) == IF dataPoints = 0 THEN FirstPrice(p) ELSE NextPrice(p)

(* |z| against t / 2; without variance the code says z = 0. *)
Beyond(d, v, t) == v > 0 /\ 4 * d * d >= t * t * v
RegimeChange(d, v) == v > 0 /\ d * d > 25 * v

BaseConfidence(d, v) ==
    IF Beyond(d, v, 7) THEN 90 ELSE IF Beyond(d, v, 5) THEN 65 ELSE IF Beyond(d, v, 3) THEN 40 ELSE 0
ReversionConfidence(d, v, confirmed) ==
    IF confirmed THEN Least((BaseConfidence(d, v) * 12) \div 10, 100)
                 ELSE (BaseConfidence(d, v) * 7) \div 10

ReversionDecision(d, v, p, confirmed) ==
    LET confidence == ReversionConfidence(d, v, confirmed)
        direction == IF d > 0 THEN "ZERO_FOR_ONE" ELSE "ONE_FOR_ZERO"
    IN  IF RegimeChange(d, v) \/ BaseConfidence(d, v) = 0 \/ confidence < 30
        THEN NoTrade
        ELSE Traded("mean-reversion", direction, ScaledAmount(confidence), p, SlippageBps, confidence)

(* shouldTrade: during the cooldown the averages are not updated.          *)
Observe(p, confirmed) ==
    /\ dataPoints < MaxDataPoints
    /\ IF coolingDown \/ p <= 0
       THEN Waits /\ UNCHANGED emaVars
       ELSE /\ dataPoints' = dataPoints + 1 /\ price' = p
            /\ UpdateEMA(p)
            /\ Decides(IF dataPoints' < MinDataPoints THEN NoTrade
                       ELSE ReversionDecision(p * emaM' - emaA', emaB' * emaM' - emaA' * emaA', p, confirmed))

ResetPool ==
    /\ dataPoints' = 0 /\ price' = 0 /\ emaM' = 1 /\ emaA' = 0 /\ emaB' = 0
    /\ coolingDown' = FALSE /\ UNCHANGED decision

CooldownOver == coolingDown /\ coolingDown' = FALSE /\ UNCHANGED decision

ReversionInit == EMAInit /\ decision = NoTrade /\ coolingDown = FALSE
ReversionNext ==
    \/ \E p \in Prices, confirmed \in BOOLEAN : Observe(p, confirmed)
    \/ ResetPool
    \/ CooldownOver /\ UNCHANGED emaVars
ReversionSpec == ReversionInit /\ [][ReversionNext]_reversionVars

EMATypeOK ==
    /\ dataPoints \in Nat /\ price \in Nat
    /\ emaM \in Nat \ {0} /\ emaA \in Nat /\ emaB \in Nat

(* Because the current price is part of the averages it is compared with,  *)
(* the square of the z-score is at most (1 - k) / k, whatever the prices:  *)
(* 3.08 squared for the default period (updateEMA, calculateStatistics).   *)
ZScoreBounded == K * Deviation * Deviation <= (D - K) * Variance
=============================================================================
