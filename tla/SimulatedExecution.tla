------------------------- MODULE SimulatedExecution -------------------------
(***************************************************************************)
(* The execution engines that keep the book and the position themselves:   *)
(* execution/simulator.py ("SIM"), execution/paper_engine.py ("PAPER") and *)
(* the live adapter execution/vnpy_adapter.py ("LIVE"), with the callbacks *)
(* of execution/base.py and the OrderManager that is there for callers.    *)
(*                                                                         *)
(* submit_order sleeps for the latency of the market, so orders overlap;   *)
(* what an order fills and the position it moves have no await between.    *)
(* Quantities are counted in tenths of a lot and rounded down; prices are  *)
(* abstracted to the fills an entry price averages over.                   *)
(***************************************************************************)
EXTENDS Integers, Sequences, FiniteSetsExt, Functions

CONSTANTS
  Engines,      \* [mode, orders]: the engines, and bounds on their orders
  Markets,      \* symbols
  Depths        \* the size of the five or ten levels a book may have

\* A depth is an amount.
ASSUME EngineAssumption == Depths \subseteq Nat

VARIABLES
  engine,       \* the engine
  engineUp,     \* _connected
  shelf,        \* the books it was given: one, or one for each symbol
  orders,       \* the orders so far, in the order they were submitted
  held,         \* quantity of each position
  entryOf,      \* the orders its entry price averages over
  heard         \* what the fill and reject callbacks were told of

engineVars == <<engine, engineUp, shelf, orders, held, entryOf, heard>>

Mode == engine.mode
NoBook == [symbol |-> "none", depth |-> -1]
\* _create_default_book: five levels of one lot, for the symbol at hand.
DefaultBook(s) == [symbol |-> s, depth |-> 5]
Slot(s) == IF Mode = "SIM" THEN "any" ELSE s
SideOf(x) == IF x >= 0 THEN 1 ELSE -1
AbsOf(x) == IF x < 0 THEN -x ELSE x
Ids == DOMAIN orders

EngineInit ==
  /\ engine \in Engines
  /\ engineUp = FALSE
  /\ shelf = [s \in Markets \cup {"any"} |-> NoBook]
  /\ orders = <<>>
  /\ held = [s \in Markets |-> 0] /\ entryOf = [s \in Markets |-> {}]
  /\ heard = {}

\* connect(): live trading has to be confirmed in the environment.
EngineConnect ==
  /\ ~engineUp /\ (Mode = "LIVE" => engine.confirmed)
  /\ engineUp' = TRUE
  /\ UNCHANGED <<engine, shelf, orders, held, entryOf, heard>>

EngineDisconnect ==
  /\ engineUp /\ engineUp' = FALSE
  /\ UNCHANGED <<engine, shelf, orders, held, entryOf, heard>>

\* set_order_book, update_order_book.
SetBook(s, depth) ==
  /\ Mode # "LIVE" /\ (Len(orders) < engine.orders \/ \E o \in Ids : orders[o].status = "submitted")
  /\ shelf' = [shelf EXCEPT ![Slot(s)] = [symbol |-> s, depth |-> depth]]
  /\ UNCHANGED <<engine, engineUp, orders, held, entryOf, heard>>

-----------------------------------------------------------------------------
\* _emit_fill, _emit_reject: the callbacks run at once.
EmitFill(o) == heard' = heard \cup {<<"fill", o>>}
EmitReject(o) == heard' = heard \cup {<<"reject", o>>}

\* submit_order, up to its sleep.  The paper engine takes its book before it.
Submitted(s, side, lots, book, refused) ==
  /\ Len(orders) < engine.orders
  /\ orders' = Append(orders, [symbol |-> s, side |-> side, lots |-> lots, book |-> book,
                 filled |-> 0, status |-> IF refused THEN "rejected" ELSE "submitted"])
  /\ IF refused THEN EmitReject(Len(orders')) ELSE UNCHANGED heard
  /\ UNCHANGED <<engine, engineUp, shelf, held, entryOf>>

SubmitOrder(s, side, lots) ==
  /\ Mode # "PAPER"
  /\ Submitted(s, side, lots, NoBook, ~engineUp)

SubmitPaperOrder(s, side, lots) ==
  /\ Mode = "PAPER"
  /\ Submitted(s, side, lots, shelf[s], ~engineUp \/ shelf[s] = NoBook)

\* _simulate_fill, _simulate_paper_fill: the quantity times the share it has
\* of the depth, at most 1; a paper order may be cut before that.
Asked(lots, cut) == 5 * lots * cut
FillOf(lots, depth, cut) ==
  IF depth <= 0 THEN 0
  ELSE (lots * Min({Asked(lots, cut), 10 * depth})) \div depth

\* Mutant: an order that turns the position around keeps the old entry price.
UpdatePositionKeepsEntry(o, s, moved) ==
  /\ held' = [held EXCEPT ![s] = @ + moved]
  /\ entryOf' = [entryOf EXCEPT ![s] =
       IF held[s] * moved >= 0 THEN (IF held[s] = 0 THEN {} ELSE @) \cup {o} ELSE @]

\* _update_position: the same side averages, the other reduces or, if it is
\* larger than the position, starts a new one at its own price.
UpdatePosition(o, s, moved) ==
  /\ held' = [held EXCEPT ![s] = @ + moved]
  /\ entryOf' = [entryOf EXCEPT ![s] =
       IF held[s] * moved >= 0 THEN (IF held[s] = 0 THEN {} ELSE @) \cup {o}
       ELSE IF AbsOf(moved) <= AbsOf(held[s]) THEN @ ELSE {o}]

\* The same in the paper engine.
UpdatePaperPosition(o, s, moved) == UpdatePosition(o, s, moved)

Answered(o, book, filled, stat) ==
  /\ orders[o].status = "submitted"
  /\ orders' = [orders EXCEPT ![o].filled = filled, ![o].status = stat,
                              ![o].book = [book EXCEPT !.depth = 0]]
  /\ UNCHANGED <<engine, engineUp, shelf>>

\* submit_order after its sleep; the connection is not looked at again.
FillOrder(o) ==
  LET order == orders[o]
      book == IF shelf["any"] = NoBook THEN DefaultBook(order.symbol) ELSE shelf["any"]
      filled == FillOf(order.lots, book.depth, 2) IN
  /\ Mode = "SIM"
  /\ Answered(o, book, filled, IF filled = 0 THEN "rejected"
                ELSE IF order.lots > book.depth THEN "filled" ELSE "partial")
  /\ IF filled = 0 THEN UNCHANGED <<held, entryOf, heard>>
     ELSE UpdatePosition(o, order.symbol, order.side * filled) /\ EmitFill(o)

FillPaperOrder(o, cut) ==
  LET order == orders[o]
      filled == FillOf(order.lots, order.book.depth, cut) IN
  /\ Mode = "PAPER"
  /\ Answered(o, order.book, filled, IF filled = 0 THEN "rejected"
                ELSE IF Asked(order.lots, cut) > 10 * order.book.depth THEN "filled"
                ELSE "partial")
  /\ IF filled = 0 THEN UNCHANGED <<held, entryOf, heard>>
     ELSE UpdatePaperPosition(o, order.symbol, order.side * filled) /\ EmitFill(o)

\* The live adapter reports the whole quantity and keeps no position.
SendToExchange(o) ==
  /\ Mode = "LIVE"
  /\ Answered(o, NoBook, 10 * orders[o].lots, "sent")
  /\ UNCHANGED <<held, entryOf, heard>>

EngineNext ==
  \/ EngineConnect \/ EngineDisconnect
  \/ \E s \in Markets, d \in Depths : SetBook(s, d)
  \/ \E s \in Markets, side \in {1, -1}, lots \in {1, 2} :
       SubmitOrder(s, side, lots) \/ SubmitPaperOrder(s, side, lots)
  \/ \E o \in Ids : FillOrder(o) \/ SendToExchange(o) \/ \E cut \in {1, 2} : FillPaperOrder(o, cut)

-----------------------------------------------------------------------------
EngineTypeOK ==
  /\ engine \in Engines /\ engineUp \in BOOLEAN
  /\ held \in [Markets -> Int] /\ entryOf \in [Markets -> SUBSET Ids]
  /\ heard \subseteq {"fill", "reject"} \X Ids

\* However the orders overlap, the position of a symbol is the sum of the
\* quantities submit_order reported, and the fills the callbacks were told of
\* are the orders that filled (simulator and paper engine).
HeldIsReported ==
  Mode # "LIVE" =>
    /\ \A s \in Markets :
         held[s] = SumFunctionOnSet([o \in Ids |-> orders[o].side * orders[o].filled],
                                    {o \in Ids : orders[o].symbol = s})
    /\ {o \in Ids : <<"fill", o>> \in heard} = {o \in Ids : orders[o].filled > 0}

\* The entry price of an open position comes from orders of its own side
\* (_update_position, across closes and reversals).
EntryIsOfThisSide ==
  \A s \in Markets : held[s] # 0 =>
    /\ entryOf[s] # {}
    /\ \A o \in entryOf[s] : orders[o].side = SideOf(held[s]) /\ orders[o].symbol = s

\* An order fills in the book of its own symbol: true of the paper engine; the
\* simulator has one book for all symbols.
OwnBook == Mode = "PAPER" => \A o \in Ids : orders[o].filled > 0 =>
             orders[o].book.symbol = orders[o].symbol

\* No order is filled beyond what it asked for, nor reported complete when less
\* was filled.
NeverOverfilled ==
  \A o \in Ids : /\ orders[o].filled <= 10 * orders[o].lots
                 /\ orders[o].status = "filled" => orders[o].filled = 10 * orders[o].lots

\* "when orders are rejected" the reject callbacks run (base.py, _emit_reject):
\* refuted, an order that finds no liquidity is rejected without them.
RejectionsAreHeard ==
  \A o \in Ids : orders[o].status = "rejected" => <<"reject", o>> \in heard
=============================================================================
