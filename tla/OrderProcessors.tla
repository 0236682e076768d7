--------------------------- MODULE OrderProcessors ---------------------------
(***************************************************************************)
(* The event processors after a decision: risk, execution and portfolio    *)
(* (processors/), with the PositionReconciler (validation/) beside them.   *)
(*                                                                         *)
(* Each processor takes its events from a queue, one at a time, and keeps  *)
(* what it knows in the distributed state, which the others read; a write  *)
(* of that state may fail.  Orders are filled by an executor outside; only *)
(* its fills are seen here.  A handler that raises is caught by            *)
(* BaseProcessor.process and has no result, and what it had already done   *)
(* stays.  One symbol; the other types a shared channel brings to the risk *)
(* and execution processors end in their first test and are left out.      *)
(***************************************************************************)
EXTENDS Integers, Sequences, FiniteSets, SequencesExt, Functions

CONSTANTS
  Days          \* [fills, decisions, triggers, faults, state, copies]: how many fills,
                \* other events, reconciliations and writes that fail there are,
                \* whether the processors have a state, and how often the bus may
                \* hand one fill to the PortfolioProcessor

\* The PortfolioProcessor subscribes channel ORDERS for two types: InProcessEventBus
\* calls it twice for a fill; on the shared connection of RedisEventBus the fill may
\* be read by a listener of its SYSTEM subscription, or of another processor's.
ASSUME OrderAssumption ==
  \A d \in Days : /\ d.fills \in Nat /\ d.state \in BOOLEAN
                  /\ d.copies \subseteq 0 .. 2 /\ d.copies # {}

VARIABLES
  day,          \* what happens
  executed,     \* history: the executor's fills, signed
  calling,      \* the handler calls the bus still makes for the last of them
  handed,       \* history: the fills as they were queued
  toPortfolio,  \* queue of the PortfolioProcessor
  toRisk,       \* queue of the RiskProcessor
  toExecution,  \* queue of the ExecutionProcessor
  handling,     \* where its handler waits: "no", "position" or "portfolio"
  positions,    \* _positions of the PortfolioProcessor, signed quantity
  booked,       \* history: the fills it has taken
  taken,        \* history: how many events it has taken
  stored,       \* portfolio:global: how many it had taken when it was written
  unsaved,         \* history: its last handler failed before that write
  riskKnows,    \* risk:global, likewise
  decided,      \* decisions so far
  failures,     \* handlers that raised
  faults,       \* writes of the state that failed
  compared,     \* the last comparison of the PositionReconciler
  triggered     \* reconciliations triggered

queues == <<toPortfolio, toRisk, toExecution>>
books == <<handling, positions, booked, taken, stored, unsaved>>
orderVars == <<day, executed, calling, handed, queues, books, riskKnows,
               decided, failures, faults, compared, triggered>>

Total(s) == SumFunction(s)
Magnitude(x) == IF x < 0 THEN -x ELSE x

OrderInit ==
  /\ day \in Days
  /\ executed = <<>> /\ handed = <<>> /\ booked = <<>> /\ positions = 0
  /\ calling = 0 /\ handling = "no" /\ taken = 0 /\ unsaved = FALSE /\ faults = 0
  /\ toPortfolio = <<>> /\ toRisk = <<>> /\ toExecution = <<>>
  /\ stored = 0 /\ riskKnows = 0 /\ decided = 0 /\ failures = 0
  /\ compared = [internal |-> 0, executor |-> 0, matched |-> TRUE]
  /\ triggered = 0

-----------------------------------------------------------------------------
\* BaseProcessor._validate: an event without a symbol is dropped, and
\* PORTFOLIO_UPDATED has none.
HasSymbol(event) == event.type # "portfolio"
Receive(queue, event) == IF HasSymbol(event) THEN Append(queue, event) ELSE queue

\* An order is filled outside and published.
FilledOutside(lots) ==
  /\ Len(executed) < day.fills /\ calling = 0
  /\ executed' = Append(executed, lots)
  /\ calling' \in day.copies
  /\ UNCHANGED <<day, handed, queues, books, riskKnows, decided, failures, faults,
                 compared, triggered>>

\* The bus hands the fill to one subscription after the other; none of them has
\* processed it yet, so _should_skip keeps no copy out.
HandleFill ==
  /\ calling > 0 /\ calling' = calling - 1
  /\ handed' = Append(handed, Last(executed))
  /\ toPortfolio' = Receive(toPortfolio, [type |-> "filled", lots |-> Last(executed)])
  /\ UNCHANGED <<day, executed, toRisk, toExecution, books, riskKnows, decided,
                 failures, faults, compared, triggered>>

\* A decision to trade: TRADE_DECISION with "ACCEPT", of PositiveExpectation.
Decide ==
  /\ decided < day.decisions /\ decided' = decided + 1
  /\ toRisk' = Receive(toRisk, [type |-> "decision"])
  /\ UNCHANGED <<day, executed, calling, handed, toPortfolio, toExecution, books,
                 riskKnows, failures, faults, compared, triggered>>

\* Another event of the channels the PortfolioProcessor has subscribed.
OtherEvent ==
  /\ decided < day.decisions /\ decided' = decided + 1
  /\ toPortfolio' = Receive(toPortfolio, [type |-> "other"])
  /\ UNCHANGED <<day, executed, calling, handed, toRisk, toExecution, books,
                 riskKnows, failures, faults, compared, triggered>>

-----------------------------------------------------------------------------
\* _process_fill: the same side adds, the other side takes the place of what
\* was held.
ProcessFill(held, lots) == IF held * lots > 0 THEN held + lots ELSE lots

\* _process_reconciliation with the payload of trigger_reconciliation, which
\* names no quantity.
ProcessReconciliation == 0

\* process_event, up to the first write of the state it awaits.
TakeEvent ==
  /\ handling = "no"
  /\ toPortfolio # <<>> /\ toPortfolio' = Tail(toPortfolio)
  /\ taken' = taken + 1
  /\ LET event == Head(toPortfolio) IN
     /\ CASE event.type = "filled" ->
                /\ positions' = ProcessFill(positions, event.lots)
                /\ booked' = Append(booked, event.lots)
          [] event.type = "reconciled" ->
                positions' = ProcessReconciliation /\ UNCHANGED booked
          [] event.type = "other" -> UNCHANGED <<positions, booked>>
     /\ handling' = IF event.type = "reconciled" /\ day.state THEN "position" ELSE "portfolio"
  /\ UNCHANGED <<day, executed, calling, handed, toRisk, toExecution, stored, unsaved,
                 riskKnows, decided, failures, faults, compared, triggered>>

\* A write of the state that raises ends the handler.
WriteFails ==
  /\ faults < day.faults /\ faults' = faults + 1 /\ failures' = failures + 1

\* _update_position_state
UpdatePositionState ==
  /\ handling = "position"
  /\ \/ handling' = "portfolio" /\ UNCHANGED <<unsaved, failures, faults>>
     \/ WriteFails /\ handling' = "no" /\ unsaved' = TRUE
  /\ UNCHANGED <<day, executed, calling, handed, queues, positions, booked, taken, stored,
                 riskKnows, decided, compared, triggered>>

\* _create_portfolio_update, _update_portfolio_state and _publish: whatever the
\* event was, the update is written and sent.
CreatePortfolioUpdate ==
  /\ handling = "portfolio" /\ handling' = "no"
  /\ \/ /\ stored' = IF day.state THEN taken ELSE stored
        /\ toRisk' = Receive(toRisk, [type |-> "portfolio", number |-> taken])
        /\ unsaved' = FALSE /\ UNCHANGED <<failures, faults>>
     \/ /\ day.state /\ WriteFails /\ unsaved' = TRUE
        /\ UNCHANGED <<stored, toRisk>>
  /\ UNCHANGED <<day, executed, calling, handed, toPortfolio, toExecution, positions,
                 booked, taken, riskKnows, decided, compared, triggered>>

PortfolioProcess == TakeEvent \/ UpdatePositionState \/ CreatePortfolioUpdate

\* _update_risk_state
UpdateRiskState(number) == riskKnows' = IF day.state THEN number ELSE riskKnows

\* _process_decision divides by initial_capital, which no __init__ sets.
ProcessDecision == failures' = failures + 1

RiskProcess ==
  /\ toRisk # <<>> /\ toRisk' = Tail(toRisk)
  /\ LET event == Head(toRisk) IN
     CASE event.type = "portfolio" -> UpdateRiskState(event.number) /\ UNCHANGED failures
       [] event.type = "decision" -> ProcessDecision /\ UNCHANGED riskKnows
  /\ UNCHANGED <<day, executed, calling, handed, toPortfolio, toExecution, books,
                 decided, faults, compared, triggered>>

\* A RISK_EVALUATED somebody else approved: without a price nothing happens,
\* with one _determine_side calls get_sync, which the state does not have.
ExecutionProcess ==
  /\ toExecution # <<>> /\ toExecution' = Tail(toExecution)
  /\ \/ UNCHANGED failures
     \/ day.state /\ failures' = failures + 1
  /\ UNCHANGED <<day, executed, calling, handed, toPortfolio, toRisk, books, riskKnows,
                 decided, faults, compared, triggered>>

Approve ==
  /\ decided < day.decisions /\ decided' = decided + 1
  /\ toExecution' = Receive(toExecution, [type |-> "risk"])
  /\ UNCHANGED <<day, executed, calling, handed, toPortfolio, toRisk, books, riskKnows,
                 failures, faults, compared, triggered>>

-----------------------------------------------------------------------------
\* reconcile_position, with the books of the portfolio and the executor's net: the
\* difference is a share of the internal quantity, and none if that is zero.
ReconcilePosition ==
  /\ LET net == Total(executed) IN
     compared' = [internal |-> positions, executor |-> net,
                  matched |-> positions = 0 \/ 100 * Magnitude(positions - net) <= Magnitude(positions)]
  /\ compared' # compared
  /\ UNCHANGED <<day, executed, calling, handed, queues, books, riskKnows, decided,
                 failures, faults, triggered>>

\* trigger_reconciliation
TriggerReconciliation ==
  /\ triggered < day.triggers /\ triggered' = triggered + 1
  /\ toPortfolio' = Receive(toPortfolio, [type |-> "reconciled"])
  /\ UNCHANGED <<day, executed, calling, handed, toRisk, toExecution, books, riskKnows,
                 decided, failures, faults, compared>>

OrderNext ==
  \/ \E lots \in {1, -1, 2} : FilledOutside(lots)
  \/ HandleFill \/ Decide \/ OtherEvent \/ Approve
  \/ PortfolioProcess \/ RiskProcess \/ ExecutionProcess
  \/ ReconcilePosition \/ TriggerReconciliation

OrderFair == /\ WF_orderVars(HandleFill) /\ WF_orderVars(PortfolioProcess)
             /\ WF_orderVars(RiskProcess) /\ WF_orderVars(ExecutionProcess)

OrderSpec == OrderInit /\ [][OrderNext]_orderVars /\ OrderFair

-----------------------------------------------------------------------------
OrderTypeOK ==
  /\ day \in Days /\ positions \in Int /\ calling \in 0 .. 2
  /\ handling \in {"no", "position", "portfolio"}
  /\ \A lots \in ToSet(executed) \cup ToSet(handed) \cup ToSet(booked) : lots \in {1, -1, 2}
  /\ compared.matched \in BOOLEAN

\* Whatever fails, the portfolio processor books every copy of a fill it is handed,
\* and no more than two; while the fills are of one side and nothing is triggered,
\* it holds the copies, less those still in its queue, and not what was executed.
OneSidedIsBooked ==
  LET waiting == {i \in DOMAIN toPortfolio : toPortfolio[i].type = "filled"} IN
  /\ Len(booked) + Cardinality(waiting) = Len(handed)
  /\ Len(handed) + calling <= 2 * Len(executed)
  /\ (\A lots \in ToSet(handed) : lots > 0) /\ triggered = 0
       => positions + Total([i \in waiting |-> toPortfolio[i].lots]) = Total(handed)

\* portfolio:global has seen every event the portfolio processor has taken, unless a
\* handler is at work or the last one failed; the RiskProcessor, which asks for the
\* updates, is never told (process_event, _validate).
RiskIsBehind ==
  /\ riskKnows = 0 /\ \A i \in DOMAIN toRisk : toRisk[i].type # "portfolio"
  /\ day.state => stored = taken \/ (stored < taken /\ (handling # "no" \/ unsaved))

\* A comparison that passes means the executor holds what the portfolio holds,
\* when the portfolio holds anything (reconcile_position).
MatchedIsEqual ==
  compared.matched /\ compared.internal # 0 => compared.internal = compared.executor

\* Once the events are over, they are booked, and portfolio:global shows them unless
\* its last write failed.
BooksCatchUp ==
  <>[](toPortfolio = <<>> /\ handling = "no" /\ (day.state => stored = taken \/ unsaved))

\* "Trigger a reconciliation check" (trigger_reconciliation): refuted, the
\* check empties the position the portfolio holds.
TriggerChecksOnly ==
  [][Len(booked') = Len(booked) => positions' = positions]_orderVars
=============================================================================
