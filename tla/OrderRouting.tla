---------------------------- MODULE OrderRouting ----------------------------
(***************************************************************************)
(* executors/: ExecutionPlanner (planner.py) splits an order until every   *)
(* piece stays within its limits, and SmartOrderRouter (router.py) picks   *)
(* an exchange for it.                                                     *)
(*                                                                         *)
(* plan() calls itself for the pieces, which are all alike, with its share *)
(* of the liquidity; a piece is the order divided by `parts`.  Sizes are   *)
(* counted in min_split_size.  A score is abstracted to an order on the    *)
(* routes.  The caller sends the pieces one at a time, and exchanges come  *)
(* and go in between.                                                      *)
(***************************************************************************)
EXTENDS Naturals, Sequences, FiniteSets, SequencesExt

CONSTANTS
  Intents,        \* [size, depth, type, preferred, bestMaker]: the orders
  MaxOrderSize,   \* max_order_size
  RatePart,       \* max_participation_rate is one RatePart-th
  RecursionLimit, \* how deep the interpreter lets plan() call itself
  Exchanges,      \* exchanges in the order they were added
  MaxRoutes,      \* max_routes
  MostRouted,     \* max_order_size of an exchange; the min_order_size is below
                  \* any piece of a whole number of min_split_size
  HistoryLimit,   \* _fill_history is halved beyond this
  MaxChanges      \* bound on the exchanges added and removed

\* The interpreter lets plan() call itself more than once.
ASSUME RoutingAssumption ==
  /\ \A i \in Intents : i.size \in Nat \ {0} /\ i.depth \in Nat
  /\ {MaxOrderSize, RatePart, MaxRoutes, MostRouted} \subseteq Nat \ {0}
  /\ RecursionLimit \in Nat \ {0, 1} /\ HistoryLimit \in Nat
  /\ Exchanges \in Seq(ToSet(Exchanges)) /\ Len(Exchanges) >= 2

VARIABLES
  intent,         \* the order
  planning,       \* "planning", "planned" or "raised"
  parts,          \* into how many pieces it is split
  calls,          \* depth of the calls of plan()
  listed,         \* _exchanges
  routes,         \* what generate_routes returned for the next piece
  sent,           \* pieces sent, and by which route
  fillHistory,    \* _fill_history: number of the piece
  changes

planVars == <<planning, parts, calls>>
routeVars == <<listed, routes, sent, fillHistory, changes>>
routingVars == <<intent, planVars, routeVars>>

CeilDiv(a, b) == (a + b - 1) \div b
SmallerOf(a, b) == IF a < b THEN a ELSE b
LargerOf(a, b) == IF a > b THEN a ELSE b

RoutingInit ==
  /\ intent \in Intents
  /\ planning = "planning" /\ parts = 1 /\ calls = 1
  /\ listed = {Exchanges[1], Exchanges[2]}
  /\ routes = <<>> /\ sent = <<>> /\ fillHistory = <<>> /\ changes = 0

-----------------------------------------------------------------------------
\* _should_split_order, for one of n pieces: the share of the depth is the same
\* for the piece as for the whole.
ShouldSplit(size, depth, n) ==
  size > MaxOrderSize * n \/ RatePart * size > depth

\* _create_splits: ceil(size / max_size), max_size at least min_split_size.
Splits(size, depth, n) ==
  LET limit == SmallerOf(MaxOrderSize * n * RatePart, depth) IN   \* times n and RatePart
  CeilDiv(size * RatePart, LargerOf(limit, n * RatePart))

\* Without any depth, twice the size is taken for it; a piece gets its share.
Liquidity(i) == IF i.depth = 0 THEN 2 * i.size ELSE i.depth

\* plan(), and plan() again for the first of its pieces.
Plan ==
  /\ planning = "planning"
  /\ IF ShouldSplit(intent.size, Liquidity(intent), parts)
     THEN IF calls = RecursionLimit
          THEN planning' = "raised" /\ UNCHANGED <<parts, calls>>
          ELSE /\ parts' = parts * Splits(intent.size, Liquidity(intent), parts)
               /\ calls' = calls + 1 /\ UNCHANGED planning
     ELSE planning' = "planned" /\ UNCHANGED <<parts, calls>>
  /\ UNCHANGED <<intent, routeVars>>

-----------------------------------------------------------------------------
AddExchange(x) ==
  /\ changes < MaxChanges /\ x \notin listed
  /\ changes' = changes + 1 /\ listed' = listed \cup {x}
  /\ UNCHANGED <<intent, planVars, routes, sent, fillHistory>>

RemoveExchange(x) ==
  /\ changes < MaxChanges /\ x \in listed
  /\ changes' = changes + 1 /\ listed' = listed \ {x}
  /\ UNCHANGED <<intent, planVars, routes, sent, fillHistory>>

\* score: the probability to fill by the cost; a maker pays no slippage but
\* fills less often, so either kind may come out on top.
Score(r) == LET place == CHOOSE i \in DOMAIN Exchanges : Exchanges[i] = r.exchange IN
            (IF r.maker = intent.bestMaker THEN 10 ELSE 0) + Len(Exchanges) - place
Priority(r) == IF r.maker THEN 2 ELSE IF r.exchange = intent.preferred THEN 0 ELSE 1

\* _validate_order_size
Takers == {x \in listed : intent.size <= MostRouted * parts}

\* _create_route and _create_maker_route, for every exchange that takes the size.
Candidates == {[exchange |-> x, maker |-> m] :
                 x \in Takers, m \in IF intent.type = "market" THEN {FALSE} ELSE BOOLEAN}

\* By priority, then by score.
Before(r, s) == Priority(r) < Priority(s) \/ (Priority(r) = Priority(s) /\ Score(r) > Score(s))

\* generate_routes: the first few of them in that order.
GenerateRoutes ==
  /\ planning = "planned" /\ Len(sent) < parts /\ routes = <<>> /\ Candidates # {}
  /\ \E list \in [1 .. SmallerOf(Cardinality(Candidates), MaxRoutes) -> Candidates] :
       /\ \A i, j \in DOMAIN list : i < j => list[i] # list[j] /\ ~ Before(list[j], list[i])
       /\ \A i \in DOMAIN list : \A r \in Candidates : Before(r, list[i]) => r \in ToSet(list)
       /\ routes' = list
  /\ UNCHANGED <<intent, planVars, listed, sent, fillHistory, changes>>

\* select_best_route: by score alone.
Best(list) == CHOOSE r \in ToSet(list) : \A s \in ToSet(list) : Score(s) <= Score(r)

SelectAndSend ==
  /\ routes # <<>>
  /\ sent' = Append(sent, [route |-> Best(routes), offered |-> ToSet(routes)])
  /\ routes' = <<>>
  /\ UNCHANGED <<intent, planVars, listed, fillHistory, changes>>

\* record_fill
RecordFill(i) ==
  /\ i \in DOMAIN sent /\ i \notin ToSet(fillHistory)
  /\ LET longer == Append(fillHistory, i) IN
     fillHistory' = IF Len(longer) > HistoryLimit
                    THEN SubSeq(longer, Len(longer) - (HistoryLimit \div 2) + 1, Len(longer))
                    ELSE longer
  /\ UNCHANGED <<intent, planVars, listed, routes, sent, changes>>

RoutingNext ==
  \/ Plan \/ GenerateRoutes \/ SelectAndSend
  \/ \E x \in ToSet(Exchanges) : AddExchange(x) \/ RemoveExchange(x)
  \/ \E i \in DOMAIN sent : RecordFill(i)

-----------------------------------------------------------------------------
RoutingTypeOK ==
  /\ intent \in Intents /\ planning \in {"planning", "planned", "raised"}
  /\ parts \in Nat \ {0} /\ calls \in 1 .. RecursionLimit
  /\ listed \subseteq ToSet(Exchanges) /\ Len(fillHistory) <= HistoryLimit

\* Every piece of a finished plan stays within max_order_size and within
\* max_participation_rate of its share of the depth ("Splits order into smaller
\* pieces that stay within limits", _create_splits), and no plan fails that
\* could have been within them from the start.
PlanKeepsLimits ==
  /\ planning = "planned" => /\ intent.size <= MaxOrderSize * parts
                             /\ RatePart * intent.size <= Liquidity(intent)
  /\ planning = "raised" => RatePart * intent.size > Liquidity(intent)

\* A piece goes by the best of the routes it was offered, on an exchange that
\* was listed when they were made, and never more pieces go than planned.
SentByTheBest ==
  /\ Len(sent) <= parts
  /\ \A i \in DOMAIN sent : /\ sent[i].route \in sent[i].offered
                            /\ \A r \in sent[i].offered : Score(r) <= Score(sent[i].route)

\* "Returns: ExecutionIntent with full execution plan" (plan): refuted, an order
\* above max_participation_rate splits for ever, for its pieces are, too.
PlanReturns == planning # "raised"
=============================================================================
