---------------------------- MODULE SafetyAdapter ----------------------------
(***************************************************************************)
(* vnpy_bridge/: the VnpyAdapter (adapter.py) checks an order and hands it *)
(* to the VnpyGateway (gateway.py), which accepts it in a task of its own; *)
(* the VnpyFeed (feed.py) keeps the subscriptions.                         *)
(*                                                                         *)
(* send_order holds the adapter's lock from its first check to the answer  *)
(* of the gateway, and nothing in it suspends, except in simulation.  What *)
(* the gateway has taken it accepts after a sleep, whatever is armed then. *)
(* The operator connects, disconnects and arms the kill switch at any time.*)
(***************************************************************************)
EXTENDS Naturals, Sequences, FiniteSets, SequencesExt

CONSTANTS
  Bridges,      \* [mode, confirmed, killSwitch, sends, switches]: execution mode
                \* at the start, live_confirmed, enable_kill_switch, and bounds on
                \* the calls
  Requests,     \* request_ids
  Lots,         \* volume of each request
  PositionLimit,\* max_position_per_symbol
  AuditLimit    \* _audit_log is halved beyond this

\* No request is called like the sleeper that is none.
ASSUME BridgeAssumption ==
  /\ AuditLimit \in Nat /\ "nobody" \notin Requests
  /\ \A b \in Bridges : b.mode \in {"simulation", "paper", "live"} /\ {b.confirmed, b.killSwitch} \subseteq BOOLEAN

VARIABLES
  bridge,
  execMode,     \* config.execution_mode
  armed,        \* _kill_switch_armed
  gatewayUp, feedUp,
  healthLoops,  \* tasks of _health_check_loop
  ownLoop,      \* whether _health_check_task is one of them
  simulating,   \* the request whose simulated fill sleeps, if any
  gatewayOrders,\* _orders of the gateway
  submissions,  \* tasks of the gateway on their way
  accepted,     \* history: orders the gateway accepted, counted by request
  audit,        \* _audit_log
  sends,        \* calls of send_order that began
  lost,         \* audit rows dropped
  tickHandlers, \* symbols with a handler, in the feed
  subscriptions,\* _subscriptions of the feed
  switches      \* what the operator did

loopVars == <<healthLoops, ownLoop>>
linkVars == <<gatewayUp, feedUp, tickHandlers, subscriptions, loopVars>>
orderLogVars == <<simulating, gatewayOrders, submissions, accepted, audit, sends, lost>>
bridgeVars == <<bridge, execMode, armed, linkVars, orderLogVars, switches>>

Idle == "nobody"
Instruments == {"btc", "eth"}
Switch == switches < bridge.switches /\ switches' = switches + 1

BridgeInit ==
  /\ bridge \in Bridges /\ execMode = bridge.mode
  /\ armed = TRUE
  /\ gatewayUp = FALSE /\ feedUp = FALSE
  /\ healthLoops = 0 /\ ownLoop = FALSE
  /\ simulating = Idle /\ gatewayOrders = [r \in Requests |-> "none"]
  /\ submissions = {} /\ accepted = [r \in Requests |-> 0]
  /\ audit = <<>> /\ sends = 0 /\ lost = 0
  /\ tickHandlers = {} /\ subscriptions = {}
  /\ switches = 0

-----------------------------------------------------------------------------
\* initialize() of the adapter; connect() of the gateway and of the feed.  Each call
\* starts one more health loop and forgets the one before.
Initialize ==
  /\ Switch
  /\ gatewayUp' = TRUE /\ feedUp' = TRUE
  /\ healthLoops' = healthLoops + 1 /\ ownLoop' = TRUE
  /\ UNCHANGED <<bridge, execMode, armed, tickHandlers, subscriptions, orderLogVars>>

\* shutdown() of the adapter
Shutdown ==
  /\ Switch
  /\ healthLoops' = IF ownLoop THEN healthLoops - 1 ELSE healthLoops
  /\ ownLoop' = FALSE
  /\ gatewayUp' = FALSE /\ feedUp' = FALSE /\ subscriptions' = {}
  /\ UNCHANGED <<bridge, execMode, armed, tickHandlers, orderLogVars>>

GatewayDisconnect ==
  /\ gatewayUp /\ Switch /\ gatewayUp' = FALSE
  /\ UNCHANGED <<bridge, execMode, armed, feedUp, tickHandlers, subscriptions, loopVars,
                 orderLogVars>>

\* The feed forgets what was subscribed, not who listens.
FeedDisconnect ==
  /\ feedUp /\ Switch /\ feedUp' = FALSE
  /\ subscriptions' = {}
  /\ UNCHANGED <<bridge, execMode, armed, gatewayUp, tickHandlers, loopVars, orderLogVars>>

SubscribeTick(s) ==
  /\ s \notin tickHandlers \/ s \notin subscriptions
  /\ tickHandlers' = tickHandlers \cup {s}
  /\ subscriptions' = IF s \in tickHandlers THEN subscriptions ELSE subscriptions \cup {s}
  /\ UNCHANGED <<bridge, execMode, armed, gatewayUp, feedUp, loopVars, orderLogVars, switches>>

ArmKillSwitch ==
  /\ ~armed /\ Switch /\ armed' = TRUE
  /\ UNCHANGED <<bridge, execMode, linkVars, orderLogVars>>

DisarmKillSwitch ==
  /\ armed /\ Switch /\ armed' = FALSE
  /\ UNCHANGED <<bridge, execMode, linkVars, orderLogVars>>

Healthy == gatewayUp /\ feedUp

\* set_execution_mode
SetExecutionMode(m) ==
  /\ m # execMode /\ (m = "live" => bridge.confirmed) /\ Healthy /\ Switch
  /\ execMode' = m
  /\ UNCHANGED <<bridge, armed, linkVars, orderLogVars>>

\* Mutant: the feed is not looked at.
HealthCheckOfGateway ==
  /\ healthLoops > 0 /\ bridge.killSwitch /\ ~gatewayUp /\ ~armed
  /\ armed' = TRUE
  /\ UNCHANGED <<bridge, execMode, linkVars, orderLogVars, switches>>

\* _health_check_loop, where there is one
HealthCheck ==
  /\ healthLoops > 0 /\ bridge.killSwitch /\ ~Healthy /\ ~armed
  /\ armed' = TRUE
  /\ UNCHANGED <<bridge, execMode, linkVars, orderLogVars, switches>>

-----------------------------------------------------------------------------
\* The audit row of a call, in its finally.
Audit(r, result) ==
  LET rows == Append(audit, [request |-> r, result |-> result])
      over == Len(rows) > AuditLimit IN
  /\ audit' = IF over THEN SubSeq(rows, Len(rows) - (AuditLimit \div 2) + 1, Len(rows))
              ELSE rows
  /\ lost' = IF over THEN lost + Len(rows) - (AuditLimit \div 2) ELSE lost

\* _check_position_limit: nothing ever adds to _symbol_exposure, nor to the
\* order times _check_rate_limit counts.
CheckLimits(r) == Lots[r] <= PositionLimit

Refused(r) == armed \/ ~Healthy \/ ~CheckLimits(r)

\* Mutant: a known request is not looked up.
GatewaySendAgain(r) ==
  /\ gatewayOrders' = [gatewayOrders EXCEPT ![r] = "submitted"]
  /\ submissions' = submissions \cup {r}

\* send_order of the gateway: a known request gets its old answer.
GatewaySend(r) ==
  IF gatewayOrders[r] # "none" THEN UNCHANGED <<gatewayOrders, submissions>>
  ELSE /\ gatewayOrders' = [gatewayOrders EXCEPT ![r] = "submitted"]
       /\ submissions' = submissions \cup {r}

\* send_order of the adapter, in paper and live mode.
SendOrder(r) ==
  /\ sends < bridge.sends /\ simulating = Idle
  /\ sends' = sends + 1
  /\ IF Refused(r) \/ (execMode # "simulation" /\ ~bridge.confirmed)
     THEN Audit(r, "rejected") /\ UNCHANGED <<simulating, gatewayOrders, submissions>>
     ELSE IF execMode = "simulation"
     THEN simulating' = r /\ UNCHANGED <<gatewayOrders, submissions, audit, lost>>
     ELSE GatewaySend(r) /\ Audit(r, gatewayOrders'[r]) /\ UNCHANGED simulating
  /\ UNCHANGED <<bridge, execMode, armed, linkVars, accepted, switches>>

\* _handle_simulation answers with a status that has no .value: the row stays
\* "pending" and the caller gets an error.
SimulatedAnswer ==
  /\ simulating # Idle
  /\ Audit(simulating, "pending") /\ simulating' = Idle
  /\ UNCHANGED <<bridge, execMode, armed, linkVars, gatewayOrders, submissions,
                 accepted, sends, switches>>

\* _submit_to_gateway, after its sleep: neither the switch nor the link is asked.
SubmitToGateway(r) ==
  /\ r \in submissions /\ submissions' = submissions \ {r}
  /\ gatewayOrders' = [gatewayOrders EXCEPT ![r] = "accepted"]
  /\ accepted' = [accepted EXCEPT ![r] = @ + 1]
  /\ UNCHANGED <<bridge, execMode, armed, linkVars, simulating, audit, sends, lost, switches>>

BridgeNext ==
  \/ Initialize \/ Shutdown \/ GatewayDisconnect \/ FeedDisconnect \/ ArmKillSwitch
  \/ DisarmKillSwitch \/ HealthCheck \/ SimulatedAnswer
  \/ \E s \in Instruments : SubscribeTick(s)
  \/ \E m \in {"simulation", "paper", "live"} : SetExecutionMode(m)
  \/ \E r \in Requests : SendOrder(r) \/ SubmitToGateway(r)

\* The health loop and the tasks of the gateway are scheduled by the event loop.
BridgeFair ==
  /\ WF_bridgeVars(HealthCheck)
  /\ \A r \in Requests : WF_bridgeVars(SubmitToGateway(r))

BridgeSpec == BridgeInit /\ [][BridgeNext]_bridgeVars /\ BridgeFair

-----------------------------------------------------------------------------
BridgeTypeOK ==
  /\ bridge \in Bridges /\ execMode \in {"simulation", "paper", "live"}
  /\ {armed, gatewayUp, feedUp, ownLoop} \subseteq BOOLEAN /\ healthLoops \in Nat
  /\ gatewayOrders \in [Requests -> {"none", "submitted", "accepted"}]
  /\ subscriptions \subseteq tickHandlers /\ Len(audit) <= AuditLimit

\* However often a caller repeats a request, it becomes one order
\* ("Idempotency via request_id tracking").
OneOrderPerRequest ==
  \A r \in Requests : accepted[r] + (IF r \in submissions THEN 1 ELSE 0) <= 1

\* A call of send_order leaves one audit row, however it ends.
EveryCallAudited == Len(audit) + lost + (IF simulating = Idle THEN 0 ELSE 1) = sends

\* A broken link arms the kill switch, where it is enabled and while a health loop
\* runs, which is from initialize() to shutdown() at least (_health_check_loop).
BrokenLinkArms ==
  (bridge.killSwitch /\ ownLoop /\ ~Healthy) ~> (armed \/ Healthy \/ ~ownLoop)

\* "Arm the kill switch - blocks all trading" (arm_kill_switch): refuted, what the
\* gateway has taken before is accepted after it.
ArmedBlocksAll == [][armed => accepted' = accepted]_bridgeVars

\* "Check if order would exceed position limits" (_check_position_limit):
\* refuted, each order is checked alone.
PositionWithinLimit ==
  FoldSet(LAMBDA r, sum : sum + Lots[r], 0, {r \in Requests : gatewayOrders[r] # "none"})
    <= PositionLimit
=============================================================================
