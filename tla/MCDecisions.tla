---------------------------- MODULE MCDecisions ----------------------------
(***************************************************************************)
(* How decisions come about, in parts that share no state: each run of     *)
(* this model is a run of one of them, drawn by part, while the others     *)
(* stay as they began.                                                     *)
(***************************************************************************)
EXTENDS Governors, RiskGates, Learning, ModelLifecycle, SignalPool, DecisionPipeline, RegimeDetection,
        Assessment

CONSTANT Parts    \* the parts this configuration runs

MCFloors ==
  {[symbols |-> {"a", "b", "c"}, callers |-> 1, trades |-> 4],
   [symbols |-> {"a", "b"}, callers |-> 2, trades |-> 4]}
MCRateLimits == {[window |-> 1, most |-> 2], [window |-> 3, most |-> 3]}

MCDailyPnls == {-4, 1, 5}
MCPerformances == {-400, 600}
MCChanges == {-8, -3, 4}

MCRegistries ==
  {[bus |-> FALSE, callers |-> 1, rollbacks |-> FALSE, moves |-> 7, faults |-> 1],
   [bus |-> TRUE, callers |-> 1, rollbacks |-> FALSE, moves |-> 7, faults |-> 0],
   [bus |-> FALSE, callers |-> 1, rollbacks |-> TRUE, moves |-> 6, faults |-> 1],
   [bus |-> FALSE, callers |-> 2, rollbacks |-> TRUE, moves |-> 5, faults |-> 0]}

MCProposals ==
  {[symbol |-> "BTC", edge |-> 20, confidence |-> 60, size |-> 1, price |-> 2, impact |-> 1],
   [symbol |-> "BTC", edge |-> 20, confidence |-> 40, size |-> 1, price |-> 0, impact |-> 1],
   [symbol |-> "ETH", edge |-> 20, confidence |-> 60, size |-> 1, price |-> 1, impact |-> 5]}
MCFactories ==
  LET one == {CHOOSE p \in MCProposals : p.symbol = "ETH"} IN
  {[past |-> FALSE, proposals |-> MCProposals, signals |-> 2, scored |-> 0, outcomes |-> 2, turns |-> 2,
    time |-> 2],
   [past |-> TRUE, proposals |-> one, signals |-> 1, scored |-> 3, outcomes |-> 0, turns |-> 0, time |-> 2],
   [past |-> TRUE, proposals |-> one, signals |-> 2, scored |-> 2, outcomes |-> 0, turns |-> 0, time |-> 0]}
MCErrors == {-1, 5}
MCProfits == {-1, 1, 2}

MCBooks ==
  {[ofi |-> 80, depth |-> 200, spread |-> 50, bps |-> 0, volatility |-> 5],
   [ofi |-> -10, depth |-> -200, spread |-> 100, bps |-> 2, volatility |-> 40],
   [ofi |-> 10, depth |-> 0, spread |-> 0, bps |-> 9, volatility |-> 100]}
MCEdges == {-6, 0, 2}
MCPnls == {-4, 5}

MCTicks ==
  {[bid |-> 4, ask |-> 4, spread |-> 2], [bid |-> 1, ask |-> 4, spread |-> 2],
   [bid |-> 9, ask |-> 1, spread |-> 6]}

VARIABLE part

decisionsVars == <<part, governorVars, riskVars, learningVars, lifecycleVars, alphaVars, pipelineVars,
                   regimeVars, assessmentVars>>

\* What another part would choose at its beginning is chosen once.
DecisionsInit ==
  /\ part \in Parts
  /\ GovernorInit /\ (part # "rates" => floor = CHOOSE f \in Floors : TRUE)
  /\ RiskInit /\ LearningInit
  /\ LifecycleInit /\ (part # "models" => registry = CHOOSE r \in Registries : TRUE)
  /\ AlphaInit /\ (part # "signals" => factory = CHOOSE f \in Factories : TRUE)
  /\ SignalInit /\ TruthInit
  /\ RegimeInit /\ (part # "regimes" => loaded)
  /\ AssessmentInit

DecisionsNext ==
  /\ UNCHANGED part
  /\ \/ /\ \/ part = "phases" /\ PhaseNext
           \/ part = "rates" /\ RateNext
           \/ part = "resolver" /\ ResolverNext
        /\ UNCHANGED <<riskVars, learningVars, lifecycleVars, alphaVars, pipelineVars, regimeVars, assessmentVars>>
     \/ /\ \/ part = "limits" /\ EngineNext
           \/ part = "sizes" /\ SizerNext
           \/ part = "checks" /\ PreTradeCheck
        /\ UNCHANGED <<governorVars, learningVars, lifecycleVars, alphaVars, pipelineVars, regimeVars,
                       assessmentVars>>
     \/ /\ \/ part = "learner" /\ LearnerNext
           \/ part = "drift" /\ DriftNext
           \/ part = "data" /\ AddData
        /\ UNCHANGED <<governorVars, riskVars, lifecycleVars, alphaVars, pipelineVars, regimeVars, assessmentVars>>
     \/ /\ part = "models" /\ LifecycleNext
        /\ UNCHANGED <<governorVars, riskVars, learningVars, alphaVars, pipelineVars, regimeVars, assessmentVars>>
     \/ /\ part = "signals" /\ AlphaNext
        /\ UNCHANGED <<governorVars, riskVars, learningVars, lifecycleVars, pipelineVars, regimeVars,
                       assessmentVars>>
     \/ /\ \/ part = "pipeline" /\ SignalNext
           \/ part = "truth" /\ TruthNext
        /\ UNCHANGED <<governorVars, riskVars, learningVars, lifecycleVars, alphaVars, regimeVars, assessmentVars>>
     \/ /\ part = "regimes" /\ RegimeNext
        /\ UNCHANGED <<governorVars, riskVars, learningVars, lifecycleVars, alphaVars, pipelineVars, assessmentVars>>
     \/ /\ \/ part = "drawdowns" /\ AnalyzerNext
           \/ part = "quality" /\ QualityNext
        /\ UNCHANGED <<governorVars, riskVars, learningVars, lifecycleVars, alphaVars, pipelineVars, regimeVars>>

DecisionsSpec == DecisionsInit /\ [][DecisionsNext]_decisionsVars

-----------------------------------------------------------------------------
DecisionsTypeOK ==
  /\ GovernorTypeOK /\ RiskTypeOK /\ LearningTypeOK /\ LifecycleTypeOK
  /\ SignalTypeOK /\ PipelineTypeOK /\ RegimeTypeOK /\ AssessmentTypeOK

\* engines/ and risk/: trading stops in time, at a rate it keeps, and nothing is
\* larger than the halt, the limits and the sizer leave it.
RiskIsGoverned ==
  /\ DecisionsTypeOK
  /\ SevereStopsInTime /\ RatesHeld /\ ThreeSymbolsTradeOnce /\ DecisionsCounted
  /\ HaltOutlastsLevel /\ SentIsBounded /\ AdaptiveSizeBounded /\ CompositeNeverDecides

\* learning/ and models/: what is learned is what was seen, and what trades was judged.
LearningIsSound ==
  /\ FirstTradeDecides /\ CusumIsBestSuffix /\ ValidationIsUnseen
  /\ OnlyJudgedTrade /\ QuietOperatorHasOneActive

\* alpha/ and processors/: no signal comes before there is history or outlives its
\* merit, no edge pays for its costs, the cached regime is within its lifetime
\* and, unless its write failed, the one in the key, and an entry of the history that
\* two processors write is only lost where they overlap.
DecisionsAreDerived ==
  /\ NoneOutlivesItsMerit /\ HistoryFirst /\ TurnoverSpaced
  /\ NothingIsWorthItsCost /\ RegimeIsRenewed /\ OnlyOverlapsLose

\* regime/ and engines/: caution survives every prediction, and those are not stale;
\* what drawdowns, losses and misses are taken for.
AssessmentsAreSound ==
  /\ CautionSurvives /\ PressureIsSpread /\ PredictionIsFresh
  /\ TroughIsLowest /\ GrowingLossesAskForNothing /\ SpikesHideEachOther /\ MissesNeverThrottle

\* A signal goes back only by being validated again, and a drawdown is not recorded
\* shallower than it was.
NothingIsUndone == NeverRevived /\ DepthIsNotUnderstated
=============================================================================
