------------------------------ MODULE Portfolio ------------------------------
(***************************************************************************)
(* The PortfolioManager of portfolio/portfolio.py: positions per symbol,   *)
(* their realized and unrealized result, capital, peak and drawdown, and   *)
(* the result of the day, as fills, market prices and days arrive.         *)
(*                                                                         *)
(* Quantities are lots; prices and money are integers of a unit so small   *)
(* that the averages of a run are exact (if they were not, ValueConserved  *)
(* would show it).  A drawdown is the pair <<loss, peak>> of its fraction. *)
(* EPS is left out, and so is available_capital, on which no other part of *)
(* the portfolio depends.                                                  *)
(***************************************************************************)
EXTENDS Integers, FiniteSets, Functions

CONSTANTS
  Symbols,
  Prices,          \* prices of fills and ticks
  Quantities,      \* quantities of fills
  InitialCapital,
  MaxLots,         \* bound on a position, long or short
  MaxFills,        \* bound on the fills
  MaxDays          \* bound on the days

ASSUME ConstantsAssumption ==
  /\ IsFiniteSet(Symbols) /\ Prices \subseteq Nat \ {0} /\ Quantities \subseteq Nat \ {0}
  /\ {InitialCapital, MaxLots, MaxFills} \subseteq Nat /\ MaxDays \in Nat \ {0}

VARIABLES
  position,        \* position[s]: quantity, entry price, realized, unrealized
  capital,         \* current_capital
  daily,           \* daily_pnl
  peak, drawdown, maxDrawdown,
  today,           \* the trading day
  lastReset,       \* _last_day_reset
  fills,           \* fills so far
  cash,            \* history: what the fills of a symbol paid and cost
  price,           \* history: the price seen last
  marked,          \* history: symbols priced since their last fill
  covered,         \* history: symbols bought back otherwise than to zero
  earlier          \* history: result realized before today

metrics == <<capital, daily, peak, drawdown, maxDrawdown>>
history == <<cash, price, marked, covered, earlier>>
vars == <<position, metrics, today, lastReset, fills, history>>

Flat == [quantity |-> 0, entry |-> 0, realized |-> 0, unrealized |-> 0]
Abs(n) == IF n < 0 THEN - n ELSE n
Least(a, b) == IF a < b THEN a ELSE b
SumOver(f) == SumFunction(f)
Realized(p) == SumOver([s \in Symbols |-> p[s].realized])
Unrealized(p) == SumOver([s \in Symbols |-> p[s].unrealized])

Init ==
  /\ position = [s \in Symbols |-> Flat]
  /\ capital = InitialCapital /\ daily = 0
  /\ peak = 0 /\ drawdown = <<0, 1>> /\ maxDrawdown = <<0, 1>>
  /\ today = 1 /\ lastReset = 1 /\ fills = 0
  /\ cash = [s \in Symbols |-> 0] /\ price = [s \in Symbols |-> 0]
  /\ marked = {} /\ covered = {} /\ earlier = 0

-----------------------------------------------------------------------------
(* _handle_buy_fill and _handle_sell_fill; an empty position first takes
   the price of the fill for its entry. *)

Opened(pos, at) == IF pos.quantity = 0 THEN [pos EXCEPT !.entry = at] ELSE pos

\* The entry is the average over all lots.
Averaged(pos, quantity, at) ==
  (Abs(pos.entry * pos.quantity) + at * quantity) \div (Abs(pos.quantity) + quantity)

Bought(pos, quantity, at) ==
  IF pos.quantity >= 0
  THEN [pos EXCEPT !.quantity = @ + quantity, !.entry = Averaged(pos, quantity, at)]
  ELSE [pos EXCEPT
         !.quantity = @ + quantity,
         !.realized = @ + Least(Abs(pos.quantity), quantity) * (pos.entry - at),
         !.entry = IF pos.quantity + quantity < 0 THEN at ELSE @]

\* Mutant: the part of a sale that closes the position is not bounded by it.
SoldAll(pos, quantity, at) ==
  IF pos.quantity <= 0
  THEN [pos EXCEPT !.quantity = @ - quantity, !.entry = Averaged(pos, quantity, at)]
  ELSE [pos EXCEPT
         !.quantity = @ - quantity,
         !.realized = @ + quantity * (at - pos.entry),
         !.entry = IF pos.quantity > quantity THEN @ ELSE at]

Sold(pos, quantity, at) ==
  IF pos.quantity <= 0
  THEN [pos EXCEPT !.quantity = @ - quantity, !.entry = Averaged(pos, quantity, at)]
  ELSE [pos EXCEPT
         !.quantity = @ - quantity,
         !.realized = @ + Least(pos.quantity, quantity) * (at - pos.entry),
         !.entry = IF pos.quantity > quantity THEN @
                   ELSE IF pos.quantity = quantity THEN 0 ELSE at]

-----------------------------------------------------------------------------
(* _update_pnl and _update_drawdown. *)

UpdatePnl ==
  /\ capital' = InitialCapital + Realized(position') + Unrealized(position')
  /\ daily' = Realized(position')

Worse(a, b) == a[1] * b[2] > b[1] * a[2]

UpdateDrawdown ==
  /\ peak' = IF capital' > peak THEN capital' ELSE peak
  /\ drawdown' = IF peak' > 0 THEN <<peak' - capital', peak'>> ELSE drawdown
  /\ maxDrawdown' = IF Worse(drawdown', maxDrawdown) THEN drawdown' ELSE maxDrawdown

\* update_from_fill(): the reset of the day comes last.
UpdateFromFill(s, side, quantity, at) ==
  LET pos == Opened(position[s], at)
      signed == IF side = "buy" THEN quantity ELSE - quantity
  IN
  /\ fills < MaxFills /\ Abs(position[s].quantity + signed) <= MaxLots
  /\ fills' = fills + 1
  /\ position' = [position EXCEPT ![s] =
       IF side = "buy" THEN Bought(pos, quantity, at) ELSE Sold(pos, quantity, at)]
  /\ capital' = InitialCapital + Realized(position') + Unrealized(position')
  /\ daily' = IF today = lastReset THEN Realized(position') ELSE 0
  /\ UpdateDrawdown
  /\ lastReset' = today
  /\ cash' = [cash EXCEPT ![s] = @ - signed * at]
  /\ price' = [price EXCEPT ![s] = at]
  /\ marked' = marked \ {s}
  /\ covered' = IF side = "buy" /\ position[s].quantity < 0
                   /\ position[s].quantity + quantity # 0
                THEN covered \cup {s} ELSE covered
  /\ UNCHANGED <<today, earlier>>

\* A position of zero lots keeps the unrealized result it had.
Valued(pos, at) ==
  [pos EXCEPT !.unrealized = IF pos.quantity = 0 THEN @
                             ELSE pos.quantity * (at - pos.entry)]

\* update_market_prices(), with the price of one symbol per tick.
UpdateMarketPrices(s, at) ==
  /\ position' = [position EXCEPT ![s] = Valued(position[s], at)]
  /\ UpdatePnl /\ UpdateDrawdown
  /\ price' = [price EXCEPT ![s] = at]
  /\ marked' = IF position[s].quantity = 0 THEN marked ELSE marked \cup {s}
  /\ UNCHANGED <<today, lastReset, fills, cash, covered, earlier>>

\* close_position() books the close without an order, and no drawdown.
ClosePosition(s, at) ==
  LET pos == position[s] IN
  /\ pos.quantity # 0
  /\ position' = [position EXCEPT ![s] =
       [Flat EXCEPT !.realized = pos.realized + pos.quantity * (at - pos.entry)]]
  /\ UpdatePnl
  /\ cash' = [cash EXCEPT ![s] = @ + pos.quantity * at]
  /\ price' = [price EXCEPT ![s] = at]
  /\ marked' = marked \cup {s}
  /\ UNCHANGED <<peak, drawdown, maxDrawdown, today, lastReset, fills, covered, earlier>>

Midnight ==
  /\ today < MaxDays /\ today' = today + 1
  /\ earlier' = Realized(position)
  /\ UNCHANGED <<position, metrics, lastReset, fills, cash, price, marked, covered>>

Next ==
  \/ \E s \in Symbols, at \in Prices :
       \/ \E side \in {"buy", "sell"}, quantity \in Quantities :
            UpdateFromFill(s, side, quantity, at)
       \/ UpdateMarketPrices(s, at)
       \/ ClosePosition(s, at)
  \/ Midnight

Spec == Init /\ [][Next]_vars

-----------------------------------------------------------------------------
TypeOK ==
  /\ \A s \in Symbols : position[s].quantity \in - MaxLots .. MaxLots
  /\ \A s \in Symbols : position[s].entry \in Nat
  /\ peak \in Nat /\ today \in 1 .. MaxDays /\ lastReset \in 1 .. today
  /\ fills \in 0 .. MaxFills

\* "current_capital = initial + realized_pnl + unrealized_pnl": the result of a
\* position that was priced after its last fill is what its fills paid plus what
\* it is worth, through averaging, partial and complete sales, reversals from
\* long to short and earlier positions, as long as no short position was bought
\* back in part or reversed.
ValueConserved ==
  \A s \in Symbols : s \in marked \ covered =>
    position[s].realized + position[s].unrealized
      = cash[s] + position[s].quantity * price[s]

\* The drawdown that the limits are compared with is a fraction of the highest
\* capital of any update, never negative and never worse than the maximum, even
\* though the peak starts at zero and close_position() updates neither.
DrawdownBounds ==
  /\ drawdown[1] >= 0 /\ ~ Worse(drawdown, maxDrawdown)
  /\ peak > 0 => drawdown[2] = peak

(* What the code says of itself; TLC refutes it. *)

\* "daily_pnl: Today's PnL": on the day of the last reset it is the result
\* realized since midnight.
DailyIsToday == lastReset = today => daily = Realized(position) - earlier
=============================================================================
