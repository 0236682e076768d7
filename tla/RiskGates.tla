----------------------------- MODULE RiskGates ------------------------------
(***************************************************************************)
(* risk/: the RiskEngine (limits.py) with its protection level, the        *)
(* PreTradeRiskChecker (pre_trade.py) and the AdaptivePositionSizer        *)
(* (sizing.py), as app/main.py drives them: size, check, send what the     *)
(* check made of the order.                                                *)
(*                                                                         *)
(* Order values, drawdown and profit of the day are percent of the         *)
(* capital; stress losses are thousandths of a percent.                    *)
(***************************************************************************)
EXTENDS Integers, Sequences, FiniteSets, FiniteSetsExt

CONSTANTS
  Drawdowns, DailyPnls, Leverages, \* what the portfolio may show
  MaxDrawdown, MaxDaily, MaxLeverage, MaxPosition, \* RiskLimits
  LossWarning, LossLimit,          \* consecutive_loss_warning, max_consecutive_losses
  Sizes,                           \* order values asked for
  Stakes, Vols, Liquidity, Regimes,\* inputs of the stress tests
  MultiplierSteps                  \* bound: how often the multiplier adapts

ASSUME RiskConstants ==
  /\ Drawdowns \subseteq Int /\ DailyPnls \subseteq Int /\ Leverages \subseteq Int
  /\ MaxDrawdown \in Nat /\ MaxDaily \in Nat /\ MaxLeverage \in Nat /\ MaxPosition \in Nat
  /\ LossWarning \in Nat /\ LossLimit \in Nat /\ Sizes \subseteq Nat /\ MultiplierSteps \in Nat
  /\ Stakes \subseteq Nat /\ Vols \subseteq Nat /\ Liquidity \subseteq 0..10 /\ Regimes \subseteq 0..10

VARIABLES
  folio,         \* [drawdown, daily, leverage]
  riskLevel, riskHalted, lossRow,  \* of the RiskEngine
  evaluatedOn,   \* history: the portfolio of the last evaluation since a reset
  lastOrder,     \* history: [asked, approved, sent, level] of the last check
  multiplier,    \* _current_risk_multiplier, in percent
  adapted,       \* history: adaptations
  preTrade       \* the last PreTradeRiskResult

engineVars == <<folio, riskLevel, riskHalted, lossRow, evaluatedOn, lastOrder>>
sizerVars == <<multiplier, adapted>>
riskVars == <<engineVars, sizerVars, preTrade>>

NoEvaluation == [drawdown |-> 0, daily |-> 0, leverage |-> 0]
NoOrder == [asked |-> 0, approved |-> FALSE, sent |-> 0, level |-> 0]
NoPreTrade == [approved |-> FALSE, composite |-> 0, failing |-> 0]

RiskInit ==
  /\ folio = NoEvaluation /\ riskLevel = 0 /\ riskHalted = FALSE /\ lossRow = 0
  /\ evaluatedOn = NoEvaluation /\ lastOrder = NoOrder
  /\ multiplier = 100 /\ adapted = 0 /\ preTrade = NoPreTrade

-----------------------------------------------------------------------------
Market ==
  /\ folio' \in [drawdown : Drawdowns, daily : DailyPnls, leverage : Leverages]
  /\ UNCHANGED <<riskLevel, riskHalted, lossRow, evaluatedOn, lastOrder, sizerVars, preTrade>>

RecordTradeResult(pnl) ==
  /\ lossRow' = IF pnl >= 0 THEN 0 ELSE IF lossRow < LossLimit THEN lossRow + 1 ELSE lossRow
  /\ UNCHANGED <<folio, riskLevel, riskHalted, evaluatedOn, lastOrder, sizerVars, preTrade>>

\* The level of evaluate_protection_level: the first condition that holds.
LevelFor(f) ==
  IF f.drawdown > MaxDrawdown THEN 3
  ELSE IF 10 * f.drawdown > 8 * MaxDrawdown THEN 2
  ELSE IF f.daily > MaxDaily \/ -f.daily > MaxDaily THEN 3
  ELSE IF lossRow >= LossLimit THEN 2
  ELSE IF lossRow >= LossWarning THEN 1
  ELSE 0

EvaluateProtection ==
  /\ riskLevel' = Max({riskLevel, LevelFor(folio)})
  /\ riskHalted' = (riskHalted \/ LevelFor(folio) = 3)
  /\ evaluatedOn' = folio
  /\ UNCHANGED <<folio, lossRow, lastOrder, sizerVars, preTrade>>

\* check_order: a daily loss counts only once the level restricts trading.
Approves ==
  /\ ~riskHalted
  /\ folio.leverage <= MaxLeverage /\ folio.drawdown <= MaxDrawdown
  /\ folio.daily < -MaxDaily => riskLevel < 2

\* The application sends adjusted_quantity where there is one, else the
\* quantity of the order, which the check has changed in place.
CheckAndSend(asked) ==
  LET clipped == asked > MaxPosition
      value == IF clipped THEN MaxPosition ELSE asked
  IN /\ lastOrder' = [asked |-> asked, approved |-> Approves, level |-> riskLevel,
                      sent |-> IF ~Approves THEN 0
                               ELSE IF clipped \/ riskLevel = 0 THEN value ELSE value \div 2]
     /\ UNCHANGED <<folio, riskLevel, riskHalted, lossRow, evaluatedOn, sizerVars, preTrade>>

\* apply_protection_action, for whoever calls it: any level, and a halt besides it
\* for the top one, which no lower level takes back.
ApplyProtectionAction(level) ==
  /\ riskLevel' = level /\ riskHalted' = (riskHalted \/ level = 3)
  /\ UNCHANGED <<folio, lossRow, evaluatedOn, lastOrder, sizerVars, preTrade>>

\* reset() and unhalt() leave the same state.
ResetRisk ==
  /\ riskLevel > 0 \/ riskHalted \/ lossRow > 0
  /\ riskLevel' = 0 /\ riskHalted' = FALSE /\ lossRow' = 0 /\ evaluatedOn' = NoEvaluation
  /\ UNCHANGED <<folio, lastOrder, sizerVars, preTrade>>

-----------------------------------------------------------------------------
\* record_return of the adaptive sizer, once five returns are known.
Adapt(average) ==
  LET moved == CASE average = "negative" -> (multiplier * 90) \div 100
                 [] average = "good"     -> (multiplier * 105) \div 100
                 [] average = "small"    -> multiplier
  IN /\ adapted < MultiplierSteps /\ adapted' = adapted + 1
     /\ multiplier' = Max({30, Min({150, moved})})
     /\ UNCHANGED <<engineVars, preTrade>>

\* calculate_size, as a value: at most a fifth of the capital, then scaled.
SizeFor(wanted) == (Min({wanted, 20}) * multiplier) \div 100

-----------------------------------------------------------------------------
Scenarios == {"spike", "crisis", "gap", "slippage"}
ScenarioWeight == [spike |-> 30, crisis |-> 25, gap |-> 25, slippage |-> 20]

\* run_stress_tests; stake and vol in percent, liq in tenths.
StressLoss(stake, vol, liq) ==
  [spike    |-> (stake * vol * 378) \div 100,
   crisis   |-> stake * (IF liq > 7 THEN 100 ELSE IF liq > 4 THEN 300 ELSE 600),
   gap      |-> stake * vol * 30,
   slippage |-> (2 * stake * (100 + 5 * stake) * (100 + 3 * vol)) \div 1000]

\* compute_composite_risk, in thousandths.
Composite(thin, loss, failing, regime, liq) ==
  LET weighted == loss.spike * ScenarioWeight.spike + loss.crisis * ScenarioWeight.crisis
                    + loss.gap * ScenarioWeight.gap + loss.slippage * ScenarioWeight.slippage
  IN (IF thin THEN 90 ELSE 0) + (Min({failing * 250, 500}) \div 5)
       + (Min({weighted \div 1000, 300}) \div 5) + 15 * regime + 15 * (10 - liq)

\* pre_trade_check of a trade whose edge covers its costs; thin: by under 5 bps.
PreTradeVerdict(loss, thin, regime, liq) ==
  LET failing == Cardinality({s \in Scenarios : loss[s] > 5000})
      composite == Composite(thin, loss, failing, regime, liq)
  IN [approved |-> composite < 700 /\ failing <= 1, composite |-> composite, failing |-> failing]

PreTradeCheck ==
  /\ \E stake \in Stakes, vol \in Vols, liq \in Liquidity, regime \in Regimes, thin \in BOOLEAN :
       preTrade' = PreTradeVerdict(StressLoss(stake, vol, liq), thin, regime, liq)
  /\ UNCHANGED <<engineVars, sizerVars>>

EngineNext ==
  \/ Market \/ EvaluateProtection \/ ResetRisk
  \/ \E pnl \in {-1, 1} : RecordTradeResult(pnl)
  \/ \E asked \in Sizes : CheckAndSend(asked)
  \/ \E level \in 1..3 : ApplyProtectionAction(level)

SizerNext == \E average \in {"negative", "small", "good"} : Adapt(average)

-----------------------------------------------------------------------------
RiskTypeOK ==
  /\ riskLevel \in 0..3 /\ riskHalted \in BOOLEAN /\ lossRow \in 0..LossLimit
  /\ multiplier \in 30..150

\* The top level is a halt, and a drawdown that was too deep when it was evaluated
\* halts until a reset, whatever the portfolio recovers and whoever lowers the level.
HaltOutlastsLevel ==
  /\ riskLevel = 3 => riskHalted
  /\ evaluatedOn.drawdown > MaxDrawdown => riskHalted

\* Nothing is sent while halted, and never more than max_position_size_pct.
SentIsBounded ==
  lastOrder.sent <= MaxPosition /\ (lastOrder.level = 3 => lastOrder.sent = 0)

\* The adaptive sizer multiplies after the cap: it asks for up to 30 % of the
\* capital, never more.
AdaptiveSizeBounded == \A wanted \in Sizes : SizeFor(wanted) <= 30

\* The composite score cannot reject a trade: with every part at its worst it
\* is 0.55, and the limit is 0.7; only the count of failed stress tests can.
CompositeNeverDecides ==
  preTrade.composite <= 550 /\ (preTrade.failing <= 1 /\ preTrade # NoPreTrade => preTrade.approved)

\* "Daily loss > 100% of max: CLOSE_ALL_HALT" (evaluate_protection_level):
\* refuted, a drawdown above 80 % of its limit is found first and only restricts.
DailyLossHalts == evaluatedOn.daily < -MaxDaily => riskHalted

\* "Reduce sizes by 50% (ProtectionLevel.REDUCE_SIZE)" (RiskEngine): an order
\* that is also clipped is sent unhalved.
ReducedIsHalved == lastOrder.level >= 1 => 2 * lastOrder.sent <= MaxPosition
=============================================================================
