-------------------------- MODULE DecisionPipeline --------------------------
(***************************************************************************)
(* The processors between the order book and the decision, for one symbol: *)
(* FeatureProcessor, AlphaProcessor, RegimeProcessor, EdgeEstimationEngine *)
(* and PositiveExpectationEngine; and those that look back on the trades:  *)
(* EdgeTruthEngine, RealityGapMonitor and PositiveExpectationEngine again. *)
(* Each is a task with a queue of its own; they meet in the state store.   *)
(* The bus hands an event to every processor of its channel, whatever its  *)
(* type, and once for each type the processor subscribed there.  A failed  *)
(* write or publication loses what it was for: it is logged and no more.   *)
(*                                                                         *)
(* Ratios are in percent and edges and costs in hundredths of a basis      *)
(* point.  Quotients are rounded towards zero, which makes no edge larger. *)
(***************************************************************************)
EXTENDS Integers, Sequences, FiniteSets, SequencesExt

CONSTANTS
  Books,          \* order books: [ofi, depth, spread, bps, volatility], depth
                  \* and spread being the z-scores they have against a history
  MinHistory,     \* books before there is a z-score
  CacheTtl,       \* _cache_ttl_ms of RegimeProcessor
  MaxBooks, MaxHeard, MaxPipelineTime,  \* bounds: the signals that are sent beget others
  Edges, Pnls,    \* expected edges in the store, and realized profits
  MinFills,       \* fills before EdgeTruthEngine judges them
  MinTruths,      \* MIN_TRADES_FOR_ASSESSMENT
  GapWindow,      \* window_size of RealityGapMonitor
  ScoreWindow,    \* window of PositiveExpectationEngine
  MaxFills, MaxReconciled     \* bounds

ASSUME PipelineConstants ==
  /\ \A b \in Books : /\ b.ofi \in -100 .. 100 /\ b.depth \in Int /\ b.spread \in Int
                      /\ b.bps \in Nat /\ b.volatility \in Nat
  /\ MinHistory \in Nat /\ CacheTtl \in Nat \ {0} /\ MaxBooks \in Nat /\ MaxHeard \in Nat /\ MaxPipelineTime \in Nat
  /\ Edges \subseteq Int /\ Pnls \subseteq Int /\ MinFills \in Nat \ {0} /\ MinTruths \in Nat
  /\ GapWindow \in Nat \ {0} /\ ScoreWindow \in Nat \ {0} /\ MaxFills \in Nat /\ MaxReconciled \in Nat

VARIABLES
  pipelineTime,
  booked,         \* number of order books
  heardCount,     \* number of events that were heard on the channel of signals
  toAlpha, toRegime, toEstimate, toDecide,  \* the queues
  regimeCached,   \* _last_update of RegimeProcessor
  regimeKey,      \* regime:{symbol}: the regime and its time
  unwritten,      \* history: the write of the cached regime failed
  regimeSeen,     \* the time at which RegimeProcessor last handled features
  decided         \* decisions, with the estimate behind each

regimeFacts == <<regimeCached, regimeKey, unwritten, regimeSeen>>
signalPath == <<pipelineTime, booked, heardCount, toAlpha, toRegime, toEstimate, toDecide, regimeFacts, decided>>

VARIABLES
  fills,          \* number of fills in _trade_history
  expected,       \* the expected edges beside them
  reconciled,     \* number of reconciliations published
  toTruth, toGap, toScore,   \* the queues of the three processors
  gapEdges,       \* RealityGapMonitor's expected edges
  gapHistory,     \* and its gaps
  truthKey,       \* edge_truth:{symbol}: the score, 0 for none and for zero
  gapKey,         \* reality_gap:{symbol}: the history in it
  holding,        \* what the two writers of gapKey have read and will write
  entered,        \* history: how many entries were written to gapKey
  overlapped      \* history: one was written over another's

truthPath == <<fills, expected, reconciled, toTruth, toGap, toScore, gapEdges, gapHistory,
               truthKey, gapKey, holding, entered, overlapped>>
pipelineVars == <<signalPath, truthPath>>

Away == [at |-> "idle", read |-> <<>>, entry |-> 0]

SignalInit ==
  /\ pipelineTime = 0 /\ booked = 0 /\ heardCount = 0
  /\ toAlpha = <<>> /\ toRegime = <<>> /\ toEstimate = <<>> /\ toDecide = <<>>
  /\ regimeKey = [market |-> "unknown", at |-> -1]
  /\ regimeCached = -1 /\ unwritten = FALSE /\ regimeSeen = -1
  /\ decided = {}

TruthInit ==
  /\ fills = 0 /\ expected = <<>> /\ reconciled = 0
  /\ toTruth = <<>> /\ toGap = <<>> /\ toScore = <<>>
  /\ gapEdges = <<>> /\ gapHistory = <<>> /\ truthKey = 0 /\ gapKey = <<>>
  /\ holding = [w \in {"gap", "score"} |-> Away]
  /\ entered = 0 /\ overlapped = FALSE

-----------------------------------------------------------------------------
Magnitude(n) == IF n < 0 THEN 0 - n ELSE n
Capped(n, most) == Min({n, most})
SumAll(q) == FoldLeft(LAMBDA total, e : total + e, 0, q)
LastOf(q, n) == SubSeq(q, Max({1, Len(q) - n + 1}), Len(q))

\* _compute_microstructure_score
Microstructure(b) ==
  (40 * Max({0, 100 - 10 * b.bps}) + 30 * (100 - Magnitude(b.ofi))
   + 30 * Max({0, 100 - b.volatility})) \div 100

\* What AlphaProcessor and RegimeProcessor, which do not ask for the type, read in
\* an event that has no features.
NoFeatures == [ofi |-> 0, volatility |-> 0, score |-> 50, depth |-> 0, spread |-> 0]

\* An event is heard on the channel, as f by those two; the others that hear it
\* leave what is not for them.
Heard(rest, f) ==
  /\ heardCount < MaxHeard /\ heardCount' = heardCount + 1
  /\ toAlpha' = Append(rest, f) /\ toRegime' = Append(toRegime, f)
Unheard(rest) == toAlpha' = rest /\ UNCHANGED <<heardCount, toRegime>>

\* Two subscriptions to one channel: the second copy comes unless the first one has
\* been processed by then.
Copies(e) == {<<e>>, <<e, e>>}

\* FeatureProcessor: z-scores are 0 until there is a history.
ComputeFeatures ==
  \E b \in Books :
    LET f == [ofi |-> b.ofi, volatility |-> b.volatility, score |-> Microstructure(b),
              depth |-> IF booked' < MinHistory THEN 0 ELSE b.depth,
              spread |-> IF booked' < MinHistory THEN 0 ELSE b.spread] IN
    /\ booked < MaxBooks /\ booked' = booked + 1
    /\ Heard(toAlpha, f) \/ Unheard(toAlpha)
    /\ UNCHANGED <<pipelineTime, toEstimate, toDecide, regimeFacts, decided, truthPath>>

\* The EDGE_TRUTH of the engine below, or what a listener of another channel took.
OtherEvent ==
  /\ Heard(toAlpha, NoFeatures)
  /\ UNCHANGED <<pipelineTime, booked, toEstimate, toDecide, regimeFacts, decided, truthPath>>

FiltersPassed(f) ==
  Cardinality({x \in {"ofi", "depth", "quality"} :
                 CASE x = "ofi" -> Magnitude(f.ofi) >= 30
                   [] x = "depth" -> Magnitude(f.depth) >= 150
                   [] OTHER -> f.score >= 40})

Signed(n, threshold) == IF n > threshold THEN 1 ELSE IF n < 0 - threshold THEN -1 ELSE 0

\* _determine_direction: the flow decides if it can, else the depth.
Direction(f) == IF Signed(f.ofi, 30) # 0 THEN Signed(f.ofi, 30) ELSE Signed(f.depth, 150)

Strength(f) ==
  (50 * Capped((100 * Magnitude(f.ofi)) \div 30, 100)
   + 30 * Capped((100 * Magnitude(f.depth)) \div 150, 100)
   + 20 * Capped((100 * Magnitude(f.spread)) \div 150, 100)) \div 100

AlphaConfidence(f) == (f.score * FiltersPassed(f)) \div 3

\* _estimate_edge: the sign of the edge is the direction.
AlphaEdge(f) ==
  IF AlphaConfidence(f) < 50 THEN 0
  ELSE Direction(f) * ((500 * Strength(f) * AlphaConfidence(f)) \div 10000)

\* AlphaProcessor reads the regime there is.  It hears its own signal, and makes
\* another one of it, without direction.
GenerateSignal ==
  LET f == Head(toAlpha)
      s == [direction |-> Direction(f), strength |-> Strength(f), confidence |-> AlphaConfidence(f),
            edge |-> AlphaEdge(f), regime |-> regimeKey.market] IN
  /\ toAlpha # <<>>
  /\ \/ /\ FiltersPassed(f) # 0 /\ Heard(Tail(toAlpha), NoFeatures)
        /\ toEstimate' = Append(toEstimate, s)
     \/ Unheard(Tail(toAlpha)) /\ UNCHANGED toEstimate
  /\ UNCHANGED <<pipelineTime, booked, toDecide, regimeFacts, decided, truthPath>>

MarketRegime(f) ==
  IF Magnitude(f.spread) > 70 THEN "volatile"
  ELSE IF Magnitude(f.ofi) > 60 THEN "trending" ELSE "ranging"

\* RegimeProcessor leaves events aside while its cache is valid, and fills it before
\* it writes.
DetectRegime ==
  LET f == Head(toRegime)
      valid == regimeCached >= 0 /\ pipelineTime - regimeCached < CacheTtl IN
  /\ toRegime # <<>> /\ toRegime' = Tail(toRegime)
  /\ regimeSeen' = pipelineTime
  /\ \/ valid /\ UNCHANGED <<regimeCached, regimeKey, unwritten>>
     \/ /\ ~ valid /\ regimeCached' = pipelineTime
        /\ \/ regimeKey' = [market |-> MarketRegime(f), at |-> pipelineTime] /\ unwritten' = FALSE
           \/ unwritten' = TRUE /\ UNCHANGED regimeKey
  /\ UNCHANGED <<pipelineTime, booked, heardCount, toAlpha, toEstimate, toDecide, decided, truthPath>>

\* Fees, slippage and the default penalty: signals have no latency, and nobody
\* writes risk:{symbol}.
TotalCost(s) == 400 + 200 + s.strength + 500

\* Mutant: the edge is taken for a percentage.
EstimatePercent ==
  LET s == Head(toEstimate)
      net == 100 * s.edge - TotalCost(s)
      return == (net * s.strength * s.confidence) \div 10000 IN
  /\ toEstimate # <<>> /\ toEstimate' = Tail(toEstimate)
  /\ \/ /\ s.direction # 0 /\ s.confidence >= 30 /\ Heard(toAlpha, NoFeatures)
        /\ \E copies \in Copies([return |-> return, cost |-> TotalCost(s), confidence |-> s.confidence]) :
             toDecide' = toDecide \o copies
     \/ Unheard(toAlpha) /\ UNCHANGED toDecide
  /\ UNCHANGED <<pipelineTime, booked, regimeFacts, decided, truthPath>>

\* EdgeEstimationEngine; its history of earlier signals stays empty, so that the
\* multiplier of the confidence is 1 for the negative edges it then sees.  What is no
\* signal has no direction for it.
Estimate ==
  LET s == Head(toEstimate)
      net == s.edge - TotalCost(s)
      return == (net * s.strength * s.confidence) \div 10000 IN
  /\ toEstimate # <<>> /\ toEstimate' = Tail(toEstimate)
  /\ \/ /\ s.direction # 0 /\ s.confidence >= 30 /\ Heard(toAlpha, NoFeatures)
        /\ \E copies \in Copies([return |-> return, cost |-> TotalCost(s), confidence |-> s.confidence]) :
             toDecide' = toDecide \o copies
     \/ Unheard(toAlpha) /\ UNCHANGED toDecide
  /\ UNCHANGED <<pipelineTime, booked, regimeFacts, decided, truthPath>>

\* PositiveExpectationEngine; the estimate has one number for edge and return.
Verdict(e) ==
  IF /\ e.confidence >= 30 /\ e.return >= 100
     /\ 2 * e.return >= 3 * e.cost /\ 2 * e.cost <= e.return
     /\ truthKey = 0 \/ truthKey >= 50
  THEN "ACCEPT" ELSE "REJECT"

DecideOnEstimate ==
  /\ toDecide # <<>> /\ toDecide' = Tail(toDecide)
  /\ decided' = decided \cup {[estimate |-> Head(toDecide), verdict |-> Verdict(Head(toDecide))]}
  /\ Heard(toAlpha, NoFeatures) \/ Unheard(toAlpha)
  /\ UNCHANGED <<pipelineTime, booked, toEstimate, regimeFacts, truthPath>>

PipelineTick ==
  /\ pipelineTime < MaxPipelineTime /\ pipelineTime' = pipelineTime + 1
  /\ UNCHANGED <<booked, heardCount, toAlpha, toRegime, toEstimate, toDecide, regimeFacts, decided, truthPath>>

SignalNext ==
  \/ ComputeFeatures \/ OtherEvent \/ GenerateSignal \/ DetectRegime \/ Estimate \/ DecideOnEstimate
  \/ PipelineTick

-----------------------------------------------------------------------------
\* ORDER_FILLED: an edge of zero in the store counts as none.
RecordFilled ==
  \E edge \in Edges :
    /\ fills < MaxFills /\ fills' = fills + 1
    /\ expected' = IF edge = 0 THEN expected ELSE Append(expected, edge)
    /\ UNCHANGED <<signalPath, truthKey, reconciled, toTruth, toGap, toScore, gapEdges, gapHistory, gapKey,
                   holding, entered, overlapped>>

\* POSITION_RECONCILED goes to two processors.
Reconciled ==
  \E pnl \in Pnls :
    /\ reconciled < MaxReconciled /\ reconciled' = reconciled + 1
    /\ toTruth' = Append(toTruth, pnl)
    /\ toGap' = Append(toGap, [type |-> "reconciled", value |-> pnl])
    /\ UNCHANGED <<signalPath, truthKey, fills, expected, toScore, gapEdges, gapHistory, gapKey, holding, entered, overlapped>>

\* EdgeTruthEngine: all fills get the profit of the last reconciliation, and of
\* the expected edges the mean; buys and sells only differ in the sign.  That other
\* processors hear the truth, too, is OtherEvent.
MeasureTruth ==
  LET pnl == Head(toTruth)
      mean == IF expected = <<>> THEN 0 ELSE SumAll(expected) \div Len(expected) IN
  /\ toTruth # <<>> /\ toTruth' = Tail(toTruth)
  /\ \/ UNCHANGED <<toScore, toGap, truthKey>>
     \/ /\ fills >= MinFills
        /\ truthKey' = IF mean = 0 THEN 100 ELSE (100 * pnl) \div mean
        /\ \/ /\ \E copies \in Copies(truthKey') : toScore' = toScore \o copies
              /\ toGap' = Append(toGap, [type |-> "truth", value |-> mean])
           \/ UNCHANGED <<toScore, toGap>>
  /\ UNCHANGED <<signalPath, fills, expected, reconciled, gapEdges, gapHistory, gapKey, holding, entered, overlapped>>

NoteTruth ==
  /\ holding["gap"].at = "idle" /\ toGap # <<>> /\ Head(toGap).type = "truth"
  /\ toGap' = Tail(toGap)
  /\ gapEdges' = LastOf(Append(gapEdges, Head(toGap).value), GapWindow)
  /\ UNCHANGED <<signalPath, truthKey, fills, expected, reconciled, toTruth, toScore, gapHistory, gapKey, holding,
                 entered, overlapped>>

\* The gap of one reconciliation to the sum of all expectations, in percent.
Gap(pnl) ==
  LET sum == SumAll(gapEdges) IN IF sum = 0 THEN 0 ELSE (100 * (sum - pnl)) \div Magnitude(sum)

\* RealityGapMonitor reads the key; what it cuts off its own history is cut off a
\* copy.
MeasureGap ==
  /\ holding["gap"].at = "idle" /\ toGap # <<>> /\ Head(toGap).type = "reconciled"
  /\ toGap' = Tail(toGap)
  /\ IF Len(gapEdges) < MinTruths THEN UNCHANGED <<gapHistory, holding>>
     ELSE LET gap == Gap(Head(toGap).value) IN
          /\ gapHistory' = Append(gapHistory, gap)
          /\ holding' = [holding EXCEPT !["gap"] = [at |-> "set", read |-> gapKey, entry |-> gap]]
  /\ UNCHANGED <<signalPath, truthKey, fills, expected, reconciled, toTruth, toScore, gapEdges, gapKey, entered, overlapped>>

\* PositiveExpectationEngine keeps scores under the same key.
NoteScore ==
  /\ holding["score"].at = "idle" /\ toScore # <<>> /\ toScore' = Tail(toScore)
  /\ holding' = [holding EXCEPT !["score"] = [at |-> "set", read |-> gapKey, entry |-> Head(toScore)]]
  /\ UNCHANGED <<signalPath, truthKey, fills, expected, reconciled, toTruth, toGap, gapEdges, gapHistory, gapKey,
                 entered, overlapped>>

\* Both write what they read with their entry behind it, or fail to.
WriteKey(w) ==
  LET window == IF w = "gap" THEN GapWindow ELSE ScoreWindow IN
  /\ holding[w].at = "set" /\ holding' = [holding EXCEPT ![w] = Away]
  /\ \/ /\ gapKey' = LastOf(Append(holding[w].read, [by |-> w, entry |-> holding[w].entry]), window)
        /\ entered' = entered + 1 /\ overlapped' = (overlapped \/ holding[w].read # gapKey)
     \/ UNCHANGED <<gapKey, entered, overlapped>>
  /\ UNCHANGED <<signalPath, truthKey, fills, expected, reconciled, toTruth, toGap, toScore, gapEdges, gapHistory>>

TruthNext ==
  \/ RecordFilled \/ Reconciled \/ MeasureTruth \/ NoteTruth \/ MeasureGap \/ NoteScore
  \/ \E w \in {"gap", "score"} : WriteKey(w)

-----------------------------------------------------------------------------
PipelineTypeOK ==
  /\ booked \in 0 .. MaxBooks /\ heardCount \in 0 .. MaxHeard /\ pipelineTime \in 0 .. MaxPipelineTime
  /\ regimeKey.market \in {"unknown", "volatile", "trending", "ranging"}
  /\ \A d \in decided : d.verdict \in {"ACCEPT", "REJECT"}
  /\ fills \in 0 .. MaxFills /\ reconciled \in 0 .. MaxReconciled
  /\ \A w \in DOMAIN holding : holding[w].at \in {"idle", "set"}

\* The strongest signal has an edge of five basis points, and the least cost is
\* eleven: whatever the books, no estimate is positive and no decision is to trade.
NothingIsWorthItsCost ==
  \A d \in decided : d.verdict = "REJECT" /\ d.estimate.return <= 0

\* An event that RegimeProcessor has handled has not found a regime that was older
\* than the lifetime of the cache, in its cache nor, unless the write failed, in the
\* key that the others read.
RegimeIsRenewed ==
  regimeSeen >= 0 =>
    regimeSeen - regimeCached < CacheTtl /\ (unwritten \/ regimeKey.at = regimeCached)

\* The history under the key that two processors write loses an entry only when
\* one wrote what it had read before the other wrote.
OnlyOverlapsLose ==
  ~ overlapped /\ entered <= Min({GapWindow, ScoreWindow}) => Len(gapKey) = entered

(* What the code says of itself; TLC refutes it. *)

\* "window_size: int = 50": the monitor keeps no more gaps than its window.
GapsWithinWindow == Len(gapHistory) <= GapWindow
=============================================================================
