------------------------------ MODULE MCOrders ------------------------------
(***************************************************************************)
(* What becomes of orders, in parts that share no state: each run of this  *)
(* model is a run of one of them, drawn by part, while the others stay as  *)
(* they began.                                                             *)
(***************************************************************************)
EXTENDS Portfolio, SimulatedExecution, OrderProcessors, OrderRouting, SafetyAdapter,
        ExchangeValidator

CONSTANTS
  Parts,          \* the parts this configuration runs
  s1, s2

MCEngines ==
  {[mode |-> "SIM", confirmed |-> FALSE, orders |-> 2],
   [mode |-> "PAPER", confirmed |-> FALSE, orders |-> 2],
   [mode |-> "LIVE", confirmed |-> TRUE, orders |-> 1],
   [mode |-> "LIVE", confirmed |-> FALSE, orders |-> 1]}

MCDays ==
  {[fills |-> 2, decisions |-> 0, triggers |-> 0, faults |-> 0, state |-> TRUE, copies |-> {0, 1, 2}],
   [fills |-> 2, decisions |-> 0, triggers |-> 1, faults |-> 1, state |-> TRUE, copies |-> {2}],
   [fills |-> 1, decisions |-> 1, triggers |-> 0, faults |-> 2, state |-> TRUE, copies |-> {1, 2}],
   [fills |-> 1, decisions |-> 1, triggers |-> 1, faults |-> 0, state |-> FALSE, copies |-> {1}]}

MCIntents ==
  [size : {4, 6, 9}, depth : {0, 20, 60}, type : {"market", "limit"},
   preferred : {"none", "okx"}, bestMaker : BOOLEAN]

MCExchanges == <<"binance", "bybit", "okx">>

MCBridges ==
  {[mode |-> "paper", confirmed |-> TRUE, killSwitch |-> TRUE, sends |-> 3, switches |-> 4],
   [mode |-> "paper", confirmed |-> TRUE, killSwitch |-> FALSE, sends |-> 1, switches |-> 3],
   [mode |-> "simulation", confirmed |-> FALSE, killSwitch |-> TRUE, sends |-> 2, switches |-> 3]}

MCLots == [r \in Requests |-> 2]

VARIABLE part

portfolioVars == vars
deskVars == <<part, portfolioVars, engineVars, orderVars, routingVars, bridgeVars,
              validatorVars>>

\* What another part would choose at its beginning is chosen once.
DeskInit ==
  /\ part \in Parts
  /\ Init
  /\ EngineInit /\ (part # "engine" => engine = CHOOSE e \in Engines : TRUE)
  /\ OrderInit /\ (part # "processors" => day = CHOOSE d \in Days : TRUE)
  /\ RoutingInit /\ (part # "routing" => intent = CHOOSE i \in Intents : TRUE)
  /\ BridgeInit /\ (part # "bridge" => bridge = CHOOSE b \in Bridges : TRUE)
  /\ ValidatorInit

DeskNext ==
  /\ UNCHANGED part
  /\ \/ /\ part = "portfolio" /\ Next
        /\ UNCHANGED <<engineVars, orderVars, routingVars, bridgeVars, validatorVars>>
     \/ /\ part = "engine" /\ EngineNext
        /\ UNCHANGED <<portfolioVars, orderVars, routingVars, bridgeVars, validatorVars>>
     \/ /\ part = "processors" /\ OrderNext
        /\ UNCHANGED <<portfolioVars, engineVars, routingVars, bridgeVars, validatorVars>>
     \/ /\ part = "routing" /\ RoutingNext
        /\ UNCHANGED <<portfolioVars, engineVars, orderVars, bridgeVars, validatorVars>>
     \/ /\ part = "bridge" /\ BridgeNext
        /\ UNCHANGED <<portfolioVars, engineVars, orderVars, routingVars, validatorVars>>
     \/ /\ part = "validator" /\ ValidatorNext
        /\ UNCHANGED <<portfolioVars, engineVars, orderVars, routingVars, bridgeVars>>

\* The processors' tasks, the health check and the gateway's tasks run.
DeskFair ==
  /\ WF_orderVars(part = "processors" /\ HandleFill)
  /\ WF_orderVars(part = "processors" /\ PortfolioProcess)
  /\ WF_orderVars(part = "processors" /\ RiskProcess)
  /\ WF_orderVars(part = "processors" /\ ExecutionProcess)
  /\ WF_bridgeVars(part = "bridge" /\ HealthCheck)
  /\ \A r \in Requests : WF_bridgeVars(part = "bridge" /\ SubmitToGateway(r))

DeskSpec == DeskInit /\ [][DeskNext]_deskVars /\ DeskFair

-----------------------------------------------------------------------------
DeskTypeOK == TypeOK /\ EngineTypeOK /\ OrderTypeOK /\ RoutingTypeOK /\ BridgeTypeOK
             /\ ValidatorTypeOK

\* portfolio/portfolio.py: the accounts balance, and the drawdown is what it says.
AccountsBalance == DeskTypeOK /\ ValueConserved /\ DrawdownBounds

\* execution/ and processors/: what is held is what was reported, at prices of its own
\* side and, on paper, in its own book; the portfolio processor books every copy of a
\* fill it is handed and shows it, but for what is in its queue or failed to be written.
FillsAreHeld ==
  /\ HeldIsReported /\ EntryIsOfThisSide /\ OwnBook /\ NeverOverfilled
  /\ OneSidedIsBooked /\ RiskIsBehind /\ MatchedIsEqual

\* executors/, vnpy_bridge/ and core/exchange_validator.py: pieces within the limits by
\* the best route, a request once and every call on record; what is validated keeps to
\* the rates, the limit of the position and what the exchange takes.
OrdersAreSentOnce ==
  /\ PlanKeepsLimits /\ SentByTheBest /\ OneOrderPerRequest /\ EveryCallAudited
  /\ AcceptedWithinRates /\ HoldingNearLimit /\ AcceptedFitExchange

\* The portfolio's books catch up, and a broken link arms the kill switch.
DeskProgress ==
  /\ part = "processors" => BooksCatchUp
  /\ part = "bridge" => BrokenLinkArms
=============================================================================
