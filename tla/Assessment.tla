----------------------------- MODULE Assessment -----------------------------
(***************************************************************************)
(* What the engines make of results: DrawdownAnalyzer and                  *)
(* ExecutionQualityEngine.  They do not meet: each has a Next of its own.  *)
(* Prices are in currency, returns and scores in percent, slippage in bp.  *)
(***************************************************************************)
EXTENDS Integers, Sequences, FiniteSets, FiniteSetsExt, SequencesExt, Functions

CONSTANTS
  Capital,         \* initial_capital
  Equities,        \* values of the account
  Changes,         \* daily profits, given beside the value
  AccelerationWindow, SpikeWindow,
  SpikeSquare,     \* the square of SPIKE_ZSCORE_THRESHOLD
  DrawdownLimit,   \* length of _drawdown_history
  MaxUpdates, MaxReturns,  \* bounds
  Slippages, Latencies,    \* of a fill, in bp and in tenths of LATENCY_ALERT_MS
  QualityHalf,     \* half of the slippages that are compared
  MaxQuality       \* bound on the fills and misses

ASSUME AssessmentConstants ==
  /\ Capital \in Nat \ {0} /\ Equities \subseteq Nat /\ Changes \subseteq Int
  /\ AccelerationWindow \in Nat /\ AccelerationWindow >= 3
  /\ SpikeWindow \in Nat \ {0} /\ SpikeSquare \in Nat /\ SpikeWindow <= SpikeSquare + 1
  /\ DrawdownLimit \in Nat \ {0} /\ MaxUpdates \in Nat /\ MaxReturns \in Nat
  /\ Slippages \subseteq Nat /\ Latencies \subseteq Nat /\ QualityHalf \in Nat \ {0} /\ MaxQuality \in Nat

VARIABLES
  peak, trough, inDrawdown, losses,  \* of DrawdownAnalyzer
  pace,            \* _drawdown_rates
  periods,         \* _period_returns
  flagged,         \* _acceleration_detected and _spike_detected
  required,        \* the actions the last update asks for
  ended,           \* _drawdown_history: the depths
  updates,         \* number of updates
  lowest           \* history: the lowest value since the drawdown began

analyzerVars == <<peak, trough, inDrawdown, losses, pace, periods, flagged, required, ended,
                  updates, lowest>>

VARIABLES
  slips,           \* _slippage_history
  fillAttempts, fillSuccesses,
  lastQuality,     \* _last_quality_score
  degradations,    \* _degradation_count
  qualityAlerts,   \* history: the kinds of alerts published
  worstSlip        \* history: the largest slippage so far

qualityVars == <<slips, fillAttempts, fillSuccesses, lastQuality, degradations, qualityAlerts, worstSlip>>
assessmentVars == <<analyzerVars, qualityVars>>

AssessmentInit ==
  /\ peak = Capital /\ trough = Capital /\ inDrawdown = FALSE /\ losses = 0
  /\ pace = <<>> /\ periods = <<>> /\ flagged = {} /\ required = {}
  /\ ended = <<>> /\ updates = 0 /\ lowest = Capital
  /\ slips = <<>> /\ fillAttempts = 0 /\ fillSuccesses = 0 /\ lastQuality = 100
  /\ degradations = 0 /\ qualityAlerts = {} /\ worstSlip = 0

-----------------------------------------------------------------------------
Whole(q) == SumFunction(q)
Newest(q, length) == SubSeq(q, Max({1, Len(q) - length + 1}), Len(q))

\* (peak - value) / peak, in percent
Depth(top, value) == (100 * (top - value)) \div top

\* recent / historical < 0.8, of the means of the last two and of the others: for
\* losses, that is when they slow down.
Accelerates(q) ==
  LET n == Len(q)  recent == q[n] + q[n - 1]  older == Whole(SubSeq(q, 1, n - 2)) IN
  /\ n >= AccelerationWindow /\ older # 0
  /\ IF older > 0 THEN 5 * recent * (n - 2) < 8 * older ELSE 5 * recent * (n - 2) > 8 * older

\* _detect_spiky_losses: (return - mean) / deviation < -3.
Spiky(q) ==
  LET n == Len(q)
      variance == n * Whole([i \in DOMAIN q |-> q[i] * q[i]]) - Whole(q) * Whole(q) IN
  /\ n >= SpikeWindow /\ variance > 0
  /\ \E i \in DOMAIN q :
       LET z == n * q[i] - Whole(q) IN z < 0 /\ z * z > SpikeSquare * variance

\* record_return
RecordReturn ==
  \E return \in {0, -1} :
    /\ Len(periods) < MaxReturns
    /\ periods' = Newest(Append(periods, return), 2 * SpikeWindow)
    /\ UNCHANGED <<peak, trough, inDrawdown, losses, pace, flagged, required, ended, updates, lowest,
                   qualityVars>>

\* _record_drawdown_end: a new peak is in place when the drawdown it ends is recorded.
EndedWith(top, low, value) == Newest(Append(ended, Depth(top, low)), DrawdownLimit)

\* What an update, with the rates it leaves, finds and asks for.
FoundIn(rates) ==
  (IF Accelerates(rates) THEN {"acceleration"} ELSE {}) \cup (IF Spiky(periods) THEN {"spike"} ELSE {})

Asked(depth, abrupt, losing, found) ==
  (IF depth >= 20 THEN {"halt_all_trading"} ELSE IF depth >= 10 THEN {"reduce_position_sizes"} ELSE {})
  \cup (IF abrupt THEN {"monitor_drawdown_rate"} ELSE {})
  \cup (IF losing >= 5 THEN {"review_strategy"} ELSE {})
  \cup (found \ flagged)
  \cup (IF "acceleration" \in found THEN {"increase_reserves"} ELSE {})
  \cup (IF "spike" \in found THEN {"volatility_exit"} ELSE {})

\* update_drawdown.  If the alert of a limit cannot be published, it ends there and
\* returns nothing.
UpdateDrawdown ==
  \E value \in Equities, pnl \in Changes :
    LET top == Max({peak, value})
        deep == 100 * (top - value) > top
        depth == Depth(top, value)
        rates == Newest(Append(pace, (1000 * pnl) \div top), 2 * AccelerationWindow)
        begins == deep /\ ~ inDrawdown
        losing == IF pnl >= 0 THEN 0 ELSE IF value > peak THEN 1 ELSE losses + 1 IN
    /\ updates < MaxUpdates /\ updates' = updates + 1
    /\ peak' = top /\ losses' = losing /\ inDrawdown' = deep
    /\ ended' = IF inDrawdown /\ ~ deep THEN EndedWith(top, trough, value) ELSE ended
    /\ trough' = IF begins THEN value ELSE IF deep THEN Min({trough, value}) ELSE trough
    /\ lowest' = IF inDrawdown /\ deep THEN Min({lowest, value}) ELSE IF deep THEN value ELSE lowest
    /\ \/ depth >= 10 /\ UNCHANGED <<pace, flagged, required>>
       \/ /\ pace' = rates
          /\ flagged' = IF depth < 10 THEN {} ELSE flagged \cup FoundIn(rates)
          /\ required' = Asked(depth, 20 * Max({pnl, 0 - pnl}) > top, losing, FoundIn(rates))
    /\ UNCHANGED <<periods, qualityVars>>

AnalyzerNext == RecordReturn \/ UpdateDrawdown

\* get_drawdown_report: 'in_drawdown' is FALSE until a drawdown has ended.
ReportsDrawdown == ended # <<>> /\ inDrawdown

-----------------------------------------------------------------------------
\* record_fill; a latency is only good for an alert.
RecordFill ==
  \E slip \in Slippages, latency \in Latencies :
    /\ fillAttempts < MaxQuality
    /\ slips' = Newest(Append(slips, slip), 2 * QualityHalf)
    /\ fillAttempts' = fillAttempts + 1 /\ fillSuccesses' = fillSuccesses + 1
    /\ worstSlip' = Max({worstSlip, slip})
    /\ qualityAlerts' = qualityAlerts \cup (IF slip > 5 THEN {"slippage"} ELSE {})
                          \cup (IF latency > 10 THEN {"latency"} ELSE {})
    /\ UNCHANGED <<lastQuality, degradations, analyzerVars>>

RecordMiss ==
  /\ fillAttempts < MaxQuality /\ fillAttempts' = fillAttempts + 1
  /\ UNCHANGED <<slips, fillSuccesses, lastQuality, degradations, qualityAlerts, worstSlip, analyzerVars>>

\* int(n * 0.99) is the last element of a short history.
Highest(q) == Max(ToSet(q))

\* quality_score; latency_p99 is taken from the slippages.
Quality ==
  LET slip == Max({0, 100 - (5 * Whole(slips)) \div Len(slips)})
      fill == (100 * fillSuccesses) \div fillAttempts
      latency == Max({0, 100 - Highest(slips) \div 10})
  IN  (40 * slip + 30 * fill + 30 * latency) \div 100

\* _detect_degradation: against the last score, if there is one, or the older slippages.
Degrading(score) ==
  /\ lastQuality # 0
  /\ \/ 5 * (score - lastQuality) < 0 - lastQuality
     \/ /\ Len(slips) >= 2 * QualityHalf
        /\ 2 * Whole(Newest(slips, QualityHalf)) > 3 * Whole(SubSeq(slips, 1, QualityHalf))

\* calculate_quality_score: without a fill nothing is said of the misses.
CalculateQuality ==
  /\ slips # <<>>
  /\ lastQuality' = Quality
  /\ degradations' = IF Degrading(Quality) THEN Min({3, degradations + 1}) ELSE 0
  /\ UNCHANGED <<slips, fillAttempts, fillSuccesses, qualityAlerts, worstSlip, analyzerVars>>

ShouldThrottle == degradations >= 3 \/ lastQuality < 70

QualityNext == RecordFill \/ RecordMiss \/ CalculateQuality

-----------------------------------------------------------------------------
AssessmentTypeOK ==
  /\ peak \in Equities \cup {Capital} /\ trough <= peak /\ Len(pace) <= 2 * AccelerationWindow
  /\ flagged \subseteq {"acceleration", "spike"} /\ Len(ended) <= DrawdownLimit
  /\ fillSuccesses <= fillAttempts /\ lastQuality \in 0 .. 100 /\ degradations \in 0 .. 3

\* The trough is that of the drawdown there is, across recoveries and new peaks; and
\* what is recorded of a drawdown is never less than it was.
TroughIsLowest ==
  /\ inDrawdown => trough = lowest
  /\ \A i \in DOMAIN ended : ended[i] >= 1

\* An ended drawdown is recorded at least as deep as it was from the peak before it.
DepthIsNotUnderstated ==
  [][Len(ended') > Len(ended) => Last(ended') >= Depth(peak, lowest)]_assessmentVars

\* Reserves are asked for when losses slow down, not when they grow.
GrowingLossesAskForNothing ==
  (/\ \A i \in DOMAIN pace : pace[i] < 0
   /\ \A i \in 2 .. Len(pace) : pace[i] <= pace[i - 1])
    => "increase_reserves" \notin required

\* Spikes hide each other: of two equal ones in the history neither stands out, and
\* in a window that is just complete nothing does.
SpikesHideEachOther ==
  Spiky(periods) =>
    Len(periods) > SpikeWindow /\ Cardinality({i \in DOMAIN periods : periods[i] = -1}) = 1

\* Misses never throttle: as long as what is filled is filled without slippage, the
\* score stays where it is enough, however many orders are missed.
MissesNeverThrottle ==
  worstSlip = 0 => ~ ShouldThrottle

(* What the code says of itself; TLC refutes it. *)

\* "Detect if drawdown rate is increasing over multiple periods.": losses each of
\* which is larger than the one before ask for reserves.
GrowingLossesAreSeen ==
  (/\ updates >= AccelerationWindow /\ \A i \in DOMAIN pace : pace[i] < 0
   /\ \A i \in 2 .. Len(pace) : pace[i] < pace[i - 1])
    => "increase_reserves" \in required

\* "Get comprehensive drawdown report.": a drawdown there is is reported.
DrawdownIsReported == inDrawdown => ReportsDrawdown
=============================================================================
