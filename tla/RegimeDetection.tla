-------------------------- MODULE RegimeDetection --------------------------
(***************************************************************************)
(* RegimeClassifier (regime/classifier.py), its MicrostructureDetector and *)
(* the predictions of KronosModel, as app/main.py calls them: once for     *)
(* every tick.  Ratios are in percent; what np.std and np.polyfit make of  *)
(* the prices is an input.  Windows are short forms of those in the code.  *)
(***************************************************************************)
EXTENDS Integers, Sequences, FiniteSets, FiniteSetsExt, SequencesExt, Functions

CONSTANTS
  Ticks,           \* what a tick shows: [bid, ask, spread], depths and spread_bps
  Answers,         \* regimes the model is heard to answer
  Volatilities,    \* realized volatility, in percent
  DepthWindow,     \* window_size of the detector
  DepthReady, PressureReady, BaselineAt, ResilienceWindow,  \* ticks before each is known
  VolatilityReady, RegimeReady,  \* prices before the volatility and the regime are
  Ttl, Day,        \* cache_ttl_seconds, and when timedelta.seconds starts again
  Gaps,            \* seconds between two ticks
  MaxTicks         \* bound on the length of the price history

ASSUME RegimeConstants ==
  /\ \A t \in Ticks : t.bid \in Nat \ {0} /\ t.ask \in Nat \ {0} /\ t.spread \in Nat \ {0}
  /\ Volatilities \subseteq Nat /\ Gaps \subseteq Nat
  /\ DepthWindow \in Nat \ {0} /\ DepthReady \in Nat /\ PressureReady \in Nat \ {0}
  /\ BaselineAt \in Nat \ {0} /\ ResilienceWindow \in Nat \ {0}
  /\ VolatilityReady \in Nat /\ RegimeReady \in Nat
  /\ Ttl \in Nat \ {0} /\ Day \in Nat \ {0} /\ MaxTicks \in Nat

VARIABLES
  loaded,          \* KronosModel.is_loaded; a classifier without drops the model
  ticks,           \* length of price_history
  book,            \* bid_depth_history and ask_depth_history
  spreads,         \* spread_history
  flows,           \* ofi_history
  baseline,        \* baseline_depth and baseline_spread, doubled; 0 for None
  predicted,       \* prediction_cache: [regime, confidence, age, old]
  regime           \* the last RegimeState

regimeVars == <<loaded, ticks, book, spreads, flows, baseline, predicted, regime>>

NoPrediction == [regime |-> "none", confidence |-> 0, age |-> 0, old |-> FALSE]

RegimeInit ==
  /\ loaded \in BOOLEAN
  /\ ticks = 0 /\ book = <<>> /\ spreads = <<>> /\ flows = <<>>
  /\ baseline = [depth |-> 0, spread |-> 0] /\ predicted = NoPrediction
  /\ regime = [market |-> "unknown", volatility |-> 20, liquidity |-> "normal", pressure |-> 0,
               resilience |-> 50, risk |-> 0, caution |-> FALSE, scale |-> 100, kronos |-> NoPrediction]

-----------------------------------------------------------------------------
\* deque(maxlen=window_size)
Pushed(q, e) == IF Len(q) < DepthWindow THEN Append(q, e) ELSE Append(Tail(q), e)
TotalOf(q) == SumFunction(q)
Bids(q) == [i \in DOMAIN q |-> q[i].bid]

\* The number that is k-th in order.
Placed(q, k) ==
  q[CHOOSE i \in DOMAIN q : /\ Cardinality({j \in DOMAIN q : q[j] < q[i]}) < k
                            /\ k <= Cardinality({j \in DOMAIN q : q[j] <= q[i]})]

\* np.median, doubled: the sum of the two in the middle.
DoubleMedian(q) == Placed(q, (Len(q) + 1) \div 2) + Placed(q, Len(q) \div 2 + 1)

\* _compute_ofi compares the depths with the last of the history, where update has
\* appended them already.
Imbalance(q) ==
  LET now == Last(q)  before == Last(q) IN
  (95 * ((now.bid - before.bid) - (now.ask - before.ask))) \div (now.bid + now.ask)

\* The baselines are taken once, and kept.
BaselineAfter(q, s) ==
  IF baseline.depth = 0 /\ Len(q) >= BaselineAt
  THEN [depth |-> DoubleMedian(Bids(q)), spread |-> DoubleMedian(s)] ELSE baseline

\* _classify_liquidity_regime of the detector: the mean against the baseline.
LiquidityOf(q, base) ==
  IF Len(q) < DepthReady THEN "unknown"
  ELSE IF base.depth = 0 THEN "normal"
  ELSE IF 4 * TotalOf(Bids(q)) > 3 * base.depth * Len(q) THEN "abundant"
  ELSE IF 4 * TotalOf(Bids(q)) < base.depth * Len(q) THEN "scarce" ELSE "normal"

Clipped(n, low, high) == Max({low, Min({n, high})})

Pressure(s, f, base) ==
  LET ratio == IF base.spread = 0 THEN (100 * Last(s) * Len(s)) \div TotalOf(s)
               ELSE (200 * Last(s)) \div base.spread
      recent == SubSeq(f, Max({1, Len(f) - 4}), Len(f))
      flow == IF Len(f) < PressureReady THEN 0 ELSE TotalOf(recent) \div Len(recent) IN
  IF Len(s) < PressureReady THEN 0 ELSE Clipped((ratio - 100) \div 2 - flow, 0 - 100, 100)

\* Half of current / median, in percent and at most twice.
Resilience(q) ==
  LET recent == Bids(SubSeq(q, Len(q) - ResilienceWindow + 1, Len(q))) IN
  IF Len(q) < ResilienceWindow THEN 50
  ELSE Clipped((200 * Last(recent)) \div DoubleMedian(recent), 0, 200) \div 2

-----------------------------------------------------------------------------
\* _classify_market_regime, from the volatility and what the prices tell.
MarketFor(prices, volatility, trend) ==
  IF prices < RegimeReady THEN "unknown" ELSE IF volatility > 40 THEN "crisis"
  ELSE IF volatility > 25 THEN "high_volatility" ELSE trend

\* predict_regime: an answer of the model, or the fallback when the inference fails,
\* whose regime is never used; both are cached.
Predictions ==
  [regime : Answers, confidence : {80}, age : {0}, old : {FALSE}]
    \cup {[regime |-> "fallback", confidence |-> 70, age |-> 0, old |-> FALSE]}

\* timedelta.seconds leaves the days out: age is within a day, old tells of more.
Aged(p, gap) == [p EXCEPT !.age = (p.age + gap) % Day, !.old = p.old \/ p.age + gap >= Day]
Cached(p) == p.regime # "none" /\ p.age < Ttl

\* _merge_kronos_regime: only an answer of the model is confident enough.
Merged(market, p) ==
  IF p.confidence <= 70 THEN market
  ELSE IF p.regime = "normal" THEN "range_bound" ELSE p.regime

VolatilityRisk(v) ==
  IF v < 5 THEN 0 ELSE IF v < 10 THEN 10 ELSE IF v < 20 THEN 20 ELSE IF v < 40 THEN 35 ELSE 50

Risk(market, v, liquidity, pressure) ==
  Min({100, (CASE market = "crisis" -> 40 [] market = "high_volatility" -> 25 [] OTHER -> 0)
            + VolatilityRisk(v)
            + (CASE liquidity = "stressed" -> 20 [] liquidity = "scarce" -> 10 [] OTHER -> 0)
            + (15 * Max({pressure, 0 - pressure})) \div 100})

\* Mutant: caution asks for the merged regime alone.
CautionByRegime(market, v, risk) == market \in {"crisis", "high_volatility"}

Caution(market, v, risk) == risk > 60 \/ v >= 20

PositionScale(risk, v, resilience) ==
  LET base == (200 - risk) \div 2
      byVolatility == IF v >= 40 THEN base \div 4 ELSE IF v >= 20 THEN base \div 2 ELSE base IN
  Max({10, IF resilience < 30 THEN byVolatility \div 2 ELSE byVolatility})

\* update
UpdateClassifier ==
  \E tick \in Ticks, measured \in Volatilities, gap \in Gaps,
     trend \in {"trending_up", "trending_down", "range_bound"} :
    LET prices == Min({ticks + 1, MaxTicks})
        volatility == IF prices < VolatilityReady THEN 20 ELSE measured
        q == Pushed(book, [bid |-> tick.bid, ask |-> tick.ask])
        s == Pushed(spreads, tick.spread)
        f == Pushed(flows, Imbalance(q))
        base == BaselineAfter(q, s)
        pressure == Pressure(s, f, base)
        depth == LiquidityOf(q, base)
        liquidity == CASE depth \in {"abundant", "scarce"} -> depth
                       [] pressure > 70 -> "stressed" [] OTHER -> "normal"
        aged == IF predicted = NoPrediction THEN predicted ELSE Aged(predicted, gap) IN
    /\ ticks' = prices /\ book' = q /\ spreads' = s /\ flows' = f /\ baseline' = base
    /\ IF loaded /\ prices >= RegimeReady
       THEN predicted' \in IF Cached(aged) THEN {aged} ELSE Predictions
       ELSE predicted' = aged
    /\ LET used == IF loaded /\ prices >= RegimeReady THEN predicted' ELSE NoPrediction
           market == Merged(MarketFor(prices, volatility, trend), used)
           risk == Risk(market, volatility, liquidity, pressure) IN
       regime' = [market |-> market, volatility |-> volatility, liquidity |-> liquidity,
                  pressure |-> pressure, resilience |-> Resilience(q), risk |-> risk,
                  caution |-> Caution(market, volatility, risk),
                  scale |-> PositionScale(risk, volatility, Resilience(q)), kronos |-> used]
    /\ UNCHANGED loaded

RegimeNext == UpdateClassifier

\* get_calibration_params: what Kronos has for the regime replaces the scale; a regime
\* it does not know is a normal one.
CalibratedScale ==
  IF ~ loaded THEN regime.scale
  ELSE CASE regime.market = "high_volatility" -> 50 [] regime.market = "low_volatility" -> 120
         [] regime.market = "trending_down" -> 80 [] regime.market = "unknown" -> 50 [] OTHER -> 100

-----------------------------------------------------------------------------
RegimeTypeOK ==
  /\ ticks \in 0 .. MaxTicks /\ Len(book) = Len(spreads) /\ Len(book) <= DepthWindow
  /\ regime.liquidity \in {"abundant", "scarce", "stressed", "normal"}
  /\ regime.pressure \in -100 .. 100 /\ regime.resilience \in 0 .. 100
  /\ regime.risk \in 0 .. 100 /\ regime.scale \in 10 .. 100

\* Whatever the model predicts, a volatility that is high asks for caution and halves
\* the position; a prediction takes a crisis from the report, not from the size.
CautionSurvives == regime.volatility >= 20 /\ ticks > 0 => regime.caution /\ regime.scale <= 50

\* The flow of orders presses on nothing: the pressure is that of the spread, which is
\* never below minus a half, and no spread up to the first of the book raises it.
PressureIsSpread ==
  /\ regime.pressure >= -50
  /\ baseline.spread # 0 /\ 2 * Last(spreads) <= baseline.spread => regime.pressure <= 0

\* A prediction that is used is not older than its time to live, up to whole days.
PredictionIsFresh == regime.kronos.age < Ttl

(* What the code says of itself; TLC refutes it. *)

\* cache_ttl_seconds: no prediction is used for longer.
PredictionExpires == ~ regime.kronos.old

\* "Get risk calibration parameters for current regime.": what is calibrated in a
\* crisis is not larger than what the regime allows.
CrisisIsCalibrated == regime.market = "crisis" => CalibratedScale <= regime.scale
=============================================================================
