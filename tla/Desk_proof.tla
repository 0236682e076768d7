----------------------------- MODULE Desk_proof -----------------------------
(***************************************************************************)
(* Proofs about MCOrders: the portfolio, the engines that simulate         *)
(* execution, the event processors, the routing of orders, the bridge to   *)
(* the gateway and the exchange validator.  Each part has its inductive    *)
(* invariant, with lemmas that it holds at the start (...Initial), that a  *)
(* step keeps it (...Step) and what it implies (...Holds); the theorems    *)
(* about the run of all parts are at the end.                              *)
(***************************************************************************)
EXTENDS MCOrders, FiniteNumbers, SequenceTheorems

PositionRecord == [quantity : Int, entry : Nat, realized : Int, unrealized : Int]

\* What the fills of a symbol came to: its result, with its position at the entry price.
Result(pos) == pos.realized - pos.quantity * pos.entry

\* The average of a fill that adds to a position leaves no remainder.
Divides(pos, quantity, at) ==
  (Abs(pos.entry * pos.quantity) + at * quantity) % (Abs(pos.quantity) + quantity) = 0

\* pos with another quantity, realized result and entry price.
Adjusted(pos, q, r, e) == [pos EXCEPT !.quantity = q, !.realized = r, !.entry = e]

LEMMA AdjustedFits ==
  ASSUME NEW pos \in PositionRecord, NEW q \in Int, NEW r \in Int, NEW e \in Nat
  PROVE  /\ Adjusted(pos, q, r, e) \in PositionRecord
         /\ Adjusted(pos, q, r, e).quantity = q /\ Adjusted(pos, q, r, e).realized = r
         /\ Adjusted(pos, q, r, e).entry = e /\ Adjusted(pos, q, r, e).unrealized = pos.unrealized
BY DEF PositionRecord, Adjusted

LEMMA Magnitudes ==
  ASSUME NEW q \in Int, NEW e \in Nat
  PROVE  /\ Abs(q) \in Nat /\ Abs(e * q) \in Nat /\ e * q \in Int
         /\ q >= 0 => Abs(q) = q /\ Abs(e * q) = e * q
         /\ q <= 0 => Abs(q) = - q /\ Abs(e * q) = - (e * q)
<1>1. e * q \in Int
  OBVIOUS
<1>2. q >= 0 => e * q >= 0
  OBVIOUS
<1>3. q <= 0 => e * q <= 0
  OBVIOUS
<1>4. QED
  BY <1>1, <1>2, <1>3 DEF Abs

LEMMA AveragesFit ==
  ASSUME NEW pos \in PositionRecord, NEW quantity \in Nat \ {0}, NEW at \in Nat
  PROVE  /\ Averaged(pos, quantity, at) \in Nat
         /\ Divides(pos, quantity, at) =>
              Averaged(pos, quantity, at) * (Abs(pos.quantity) + quantity)
                = Abs(pos.entry * pos.quantity) + at * quantity
<1> DEFINE a == Abs(pos.entry * pos.quantity) + at * quantity
           b == Abs(pos.quantity) + quantity
<1>1. pos.quantity \in Int /\ pos.entry \in Nat
  BY DEF PositionRecord
<1>2. at * quantity \in Nat
  OBVIOUS
<1>3. a \in Nat /\ b \in Nat \ {0}
  <2>1. Abs(pos.quantity) \in Nat /\ Abs(pos.entry * pos.quantity) \in Nat
    BY <1>1, Magnitudes
  <2>2. QED
    BY <1>2, <2>1
<1>4. Averaged(pos, quantity, at) = a \div b /\ (Divides(pos, quantity, at) <=> a % b = 0)
  BY DEF Averaged, Divides
<1>5. ASSUME NEW x \in Nat, NEW y \in Nat \ {0} PROVE x \div y \in Nat /\ (x % y = 0 => (x \div y) * y = x)
  OBVIOUS
<1> HIDE DEF a, b
<1>6. a \div b \in Nat /\ (a % b = 0 => (a \div b) * b = a)
  BY <1>3, <1>5
<1>7. QED
  BY <1>4, <1>6 DEF a, b

LEMMA OpenedFits ==
  ASSUME NEW pos \in PositionRecord, NEW at \in Nat
  PROVE  /\ Opened(pos, at) \in PositionRecord
         /\ Opened(pos, at).quantity = pos.quantity /\ Opened(pos, at).unrealized = pos.unrealized
         /\ Opened(pos, at).realized = pos.realized
         /\ Result(Opened(pos, at)) = Result(pos)
<1>1. CASE pos.quantity = 0
  <2> DEFINE new == [pos EXCEPT !.entry = at]
  <2>1. /\ new \in PositionRecord /\ new.quantity = 0 /\ new.unrealized = pos.unrealized
        /\ new.realized = pos.realized /\ new.entry = at
        /\ pos.entry \in Nat /\ pos.realized \in Int
    BY <1>1 DEF PositionRecord
  <2>2. Opened(pos, at) = new
    BY <1>1 DEF Opened
  <2> HIDE DEF new
  <2>3. QED
    BY <1>1, <2>1, <2>2 DEF Result
<1>2. CASE pos.quantity # 0
  BY <1>2 DEF Opened
<1>3. QED
  BY <1>1, <1>2

\* A purchase that does not buy back a part of a short position, and averages without a
\* remainder, costs what it costs.
LEMMA BoughtFits ==
  ASSUME NEW pos \in PositionRecord, NEW quantity \in Nat \ {0}, NEW at \in Nat
  PROVE  /\ Bought(pos, quantity, at) \in PositionRecord
         /\ Bought(pos, quantity, at).quantity = pos.quantity + quantity
         /\ Bought(pos, quantity, at).unrealized = pos.unrealized
         /\ /\ pos.quantity < 0 => pos.quantity + quantity = 0
            /\ pos.quantity >= 0 => Divides(pos, quantity, at)
            => Result(Bought(pos, quantity, at)) = Result(pos) - quantity * at
<1> DEFINE new == Bought(pos, quantity, at)
           q == pos.quantity
           e == pos.entry
           r == pos.realized
           average == Averaged(pos, quantity, at)
<1>1. q \in Int /\ e \in Nat /\ r \in Int /\ pos.unrealized \in Int /\ average \in Nat
  BY AveragesFit DEF PositionRecord
<1>2. CASE q >= 0
  <2>1. new = Adjusted(pos, q + quantity, r, average)
    BY <1>1, <1>2 DEF Bought, Adjusted, PositionRecord
  <2>2. /\ new \in PositionRecord /\ new.quantity = q + quantity /\ new.entry = average
        /\ new.realized = r /\ new.unrealized = pos.unrealized
    <3>1. q + quantity \in Int /\ q - quantity \in Int
      BY <1>1
    <3> HIDE DEF new, average, q, r
    <3>2. QED
      BY <1>1, <2>1, <3>1, AdjustedFits
  <2>3. ASSUME Divides(pos, quantity, at) PROVE average * (q + quantity) = e * q + at * quantity
    BY <1>1, <1>2, <2>3, AveragesFit, Magnitudes
  <2>4. ASSUME Divides(pos, quantity, at) PROVE Result(new) = Result(pos) - quantity * at
    <3> DEFINE x == (q + quantity) * average
               y == e * q
               z == at * quantity
    <3>1. x = y + z /\ Result(new) = r - x /\ Result(pos) = r - y /\ quantity * at = z
          /\ x \in Int /\ y \in Int /\ z \in Int
      <4>1. average * (q + quantity) = (q + quantity) * average /\ e * q = q * e /\ at * quantity = quantity * at
        BY <1>1
      <4>2. x \in Int /\ y \in Int /\ z \in Int
        BY <1>1
      <4> HIDE DEF new, average
      <4>3. QED
        BY <2>2, <2>3, <2>4, <4>1, <4>2 DEF Result
    <3> HIDE DEF x, y, z, new
    <3>2. QED
      BY <1>1, <3>1
  <2> HIDE DEF new
  <2>5. QED
    BY <1>2, <2>2, <2>4 DEF new
<1>3. CASE q < 0
  <2> DEFINE gain == Least(Abs(q), quantity) * (e - at)
             entry == IF q + quantity < 0 THEN at ELSE e
  <2>1. new = Adjusted(pos, q + quantity, r + gain, entry)
    BY <1>1, <1>3 DEF Bought, Adjusted, PositionRecord
  <2>2. gain \in Int /\ entry \in Nat
    BY <1>1 DEF Least, Abs
  <2>3. /\ new \in PositionRecord /\ new.quantity = q + quantity /\ new.entry = entry
        /\ new.realized = r + gain /\ new.unrealized = pos.unrealized
    <3>1. q + quantity \in Int /\ q - quantity \in Int /\ r + gain \in Int
      BY <1>1, <2>2
    <3> HIDE DEF new, gain, entry, q, r
    <3>2. QED
      BY <1>1, <2>1, <2>2, <3>1, AdjustedFits
  <2>4. ASSUME q + quantity = 0 PROVE Result(new) = Result(pos) - quantity * at
    <3>1. q = - quantity /\ entry = e /\ gain = quantity * (e - at)
      BY <1>1, <1>3, <2>4 DEF Least, Abs
    <3>2. Result(new) = r + quantity * (e - at)
      <4> HIDE DEF new, gain, entry
      <4>1. new.quantity * new.entry = 0
        BY <1>1, <2>3, <2>4, <3>1
      <4>2. r + gain \in Int
        BY <1>1, <2>2
      <4>3. QED
        BY <2>3, <3>1, <4>1, <4>2 DEF Result
    <3>3. Result(pos) = r + quantity * e
      <4>1. q * e = - (quantity * e)
        BY <1>1, <3>1
      <4>2. QED
        BY <1>1, <4>1 DEF Result
    <3>4. quantity * (e - at) = quantity * e - quantity * at
      BY <1>1
    <3>5. quantity * e \in Int /\ quantity * at \in Int
      BY <1>1
    <3> HIDE DEF new
    <3>6. QED
      BY <1>1, <3>2, <3>3, <3>4, <3>5
  <2> HIDE DEF new
  <2>5. QED
    BY <1>3, <2>3, <2>4 DEF new
<1>4. QED
  BY <1>1, <1>2, <1>3

\* A sale, however it changes the position, earns what it earns.
LEMMA SoldFits ==
  ASSUME NEW pos \in PositionRecord, NEW quantity \in Nat \ {0}, NEW at \in Nat
  PROVE  /\ Sold(pos, quantity, at) \in PositionRecord
         /\ Sold(pos, quantity, at).quantity = pos.quantity - quantity
         /\ Sold(pos, quantity, at).unrealized = pos.unrealized
         /\ (pos.quantity <= 0 => Divides(pos, quantity, at))
            => Result(Sold(pos, quantity, at)) = Result(pos) + quantity * at
<1> DEFINE new == Sold(pos, quantity, at)
           q == pos.quantity
           e == pos.entry
           r == pos.realized
           average == Averaged(pos, quantity, at)
<1>1. q \in Int /\ e \in Nat /\ r \in Int /\ pos.unrealized \in Int /\ average \in Nat
  BY AveragesFit DEF PositionRecord
<1>2. CASE q <= 0
  <2>1. new = Adjusted(pos, q - quantity, r, average)
    BY <1>1, <1>2 DEF Sold, Adjusted, PositionRecord
  <2>2. /\ new \in PositionRecord /\ new.quantity = q - quantity /\ new.entry = average
        /\ new.realized = r /\ new.unrealized = pos.unrealized
    <3>1. q + quantity \in Int /\ q - quantity \in Int
      BY <1>1
    <3> HIDE DEF new, average, q, r
    <3>2. QED
      BY <1>1, <2>1, <3>1, AdjustedFits
  <2>3. ASSUME Divides(pos, quantity, at) PROVE average * (quantity - q) = at * quantity - e * q
    <3>1. average * (Abs(q) + quantity) = Abs(e * q) + at * quantity
      BY <2>3, AveragesFit
    <3>2. Abs(q) = - q /\ Abs(e * q) = - (e * q)
      BY <1>1, <1>2, Magnitudes
    <3>3. e * q \in Int /\ at * quantity \in Int /\ average \in Int
      BY <1>1
    <3>4. average * (quantity - q) = - (e * q) + at * quantity
      <4>1. Abs(q) + quantity = quantity - q
        BY <1>1, <3>2
      <4> HIDE DEF average
      <4>2. QED
        BY <3>1, <3>2, <4>1
    <3> HIDE DEF average
    <3>5. QED
      BY <3>3, <3>4
  <2>4. ASSUME Divides(pos, quantity, at) PROVE Result(new) = Result(pos) + quantity * at
    <3> DEFINE x == (q - quantity) * average
               y == e * q
               z == at * quantity
    <3>1. x = y - z /\ Result(new) = r - x /\ Result(pos) = r - y /\ quantity * at = z
          /\ x \in Int /\ y \in Int /\ z \in Int
      <4>1. average * (quantity - q) = - x /\ e * q = q * e /\ at * quantity = quantity * at
        BY <1>1
      <4>2. x \in Int /\ y \in Int /\ z \in Int
        BY <1>1
      <4>3. x = y - z
        BY <2>3, <2>4, <4>1, <4>2
      <4> HIDE DEF new, average
      <4>4. QED
        BY <2>2, <4>1, <4>2, <4>3 DEF Result
    <3> HIDE DEF x, y, z, new
    <3>2. QED
      BY <1>1, <3>1
  <2> HIDE DEF new
  <2>5. QED
    BY <1>2, <2>2, <2>4 DEF new
<1>3. CASE q > 0
  <2> DEFINE gain == Least(q, quantity) * (at - e)
             entry == IF q > quantity THEN e ELSE IF q = quantity THEN 0 ELSE at
  <2>1. new = Adjusted(pos, q - quantity, r + gain, entry)
    BY <1>1, <1>3 DEF Sold, Adjusted, PositionRecord
  <2>2. gain \in Int /\ entry \in Nat
    BY <1>1 DEF Least
  <2>3. /\ new \in PositionRecord /\ new.quantity = q - quantity /\ new.entry = entry
        /\ new.realized = r + gain /\ new.unrealized = pos.unrealized
    <3>1. q + quantity \in Int /\ q - quantity \in Int /\ r + gain \in Int
      BY <1>1, <2>2
    <3> HIDE DEF new, gain, entry, q, r
    <3>2. QED
      BY <1>1, <2>1, <2>2, <3>1, AdjustedFits
  <2>4. Result(new) = Result(pos) + quantity * at
    <3> DEFINE x == (q - quantity) * entry
    <3>0. x \in Int /\ q * e \in Int /\ q * at \in Int /\ quantity * e \in Int /\ quantity * at \in Int
      BY <1>1, <2>2
    <3>1. Result(new) = r + gain - x /\ Result(pos) = r - q * e
      <4> HIDE DEF new, gain, entry
      <4>1. Result(new) = new.realized - new.quantity * new.entry /\ new.realized = r + gain
        BY <2>3 DEF Result
      <4>2. new.quantity * new.entry = x
        BY <2>3
      <4>3. Result(pos) = r - q * e
        BY DEF Result, q, e, r
      <4> HIDE DEF x, q, r, e
      <4>4. new.realized - new.quantity * new.entry = r + gain - x
        BY <1>1, <2>2, <3>0, <4>1, <4>2
      <4>5. QED
        BY <4>1, <4>3, <4>4
    <3>2. gain - x = quantity * at - q * e
      <4>1. CASE q > quantity
        <5>1. gain = quantity * at - quantity * e /\ x = q * e - quantity * e
          BY <1>1, <4>1 DEF Least
        <5> HIDE DEF gain, x
        <5>2. QED
          BY <3>0, <5>1
      <4>2. CASE q = quantity
        <5>1. gain = q * at - q * e /\ x = 0
          BY <1>1, <4>2 DEF Least
        <5> HIDE DEF gain, x
        <5>2. QED
          BY <3>0, <4>2, <5>1
      <4>3. CASE q < quantity
        <5>1. gain = q * at - q * e /\ x = q * at - quantity * at
          BY <1>1, <4>3 DEF Least
        <5> HIDE DEF gain, x
        <5>2. QED
          BY <3>0, <5>1
      <4>4. q > quantity \/ q = quantity \/ q < quantity
        BY <1>1
      <4>5. QED
        BY <4>1, <4>2, <4>3, <4>4
    <3> HIDE DEF x, new, gain
    <3>3. QED
      BY <1>1, <2>2, <3>0, <3>1, <3>2
  <2> HIDE DEF new
  <2>5. QED
    BY <1>3, <2>3, <2>4 DEF new
<1>4. QED
  BY <1>1, <1>2, <1>3

-----------------------------------------------------------------------------
BooksTyped ==
  /\ position \in [Symbols -> PositionRecord]
  /\ \A s \in Symbols : position[s].quantity \in - MaxLots .. MaxLots
  /\ capital \in Int /\ daily \in Int /\ peak \in Nat /\ drawdown \in Int \X Int
  /\ today \in 1 .. MaxDays /\ lastReset \in 1 .. today /\ fills \in 0 .. MaxFills
  /\ cash \in [Symbols -> Int] /\ price \in [Symbols -> Nat]
  /\ marked \subseteq Symbols /\ covered \subseteq Symbols

BooksInv == BooksTyped /\ DrawdownBounds

\* But for short positions that were bought back in part, a symbol came to what its fills
\* paid; what was priced since is valued at that price.
ResultsFit ==
  /\ \A s \in Symbols \ covered : Result(position[s]) = cash[s]
  /\ \A s \in marked : position[s].unrealized = position[s].quantity * (price[s] - position[s].entry)

\* Every fill that averages does so without a remainder.
AveragesAreExact ==
  \A s \in Symbols, side \in {"buy", "sell"}, quantity \in Quantities, at \in Prices :
    UpdateFromFill(s, side, quantity, at) => Divides(Opened(position[s], at), quantity, at)

LEMMA BooksInitial == Init => BooksInv /\ ResultsFit
<1> SUFFICES ASSUME Init PROVE BooksInv /\ ResultsFit
  OBVIOUS
<1> USE ConstantsAssumption DEF Init
<1>1. Flat \in PositionRecord /\ Flat.quantity = 0 /\ Flat.realized = 0 /\ Flat.unrealized = 0 /\ Flat.entry = 0
  BY DEF Flat, PositionRecord
<1>2. 0 \in - MaxLots .. MaxLots
  OBVIOUS
<1>3. \A s \in Symbols : position[s] = Flat
  OBVIOUS
<1>4. position \in [Symbols -> PositionRecord] /\ \A s \in Symbols : position[s].quantity \in - MaxLots .. MaxLots
  BY <1>1, <1>2, <1>3
<1>5. BooksTyped
  BY <1>4 DEF BooksTyped
<1>6. DrawdownBounds
  BY DEF DrawdownBounds, Worse
<1>7. \A s \in Symbols : Result(position[s]) = cash[s]
  <2>1. Result(Flat) = 0
    BY <1>1 DEF Result
  <2>2. QED
    BY <1>3, <2>1
<1>8. QED
  BY <1>5, <1>6, <1>7 DEF BooksInv, ResultsFit

\* Capital is a number, and the drawdown follows its peak.
LEMMA TotalsAreNumbers ==
  ASSUME NEW pos \in [Symbols -> PositionRecord]
  PROVE  Realized(pos) \in Int /\ Unrealized(pos) \in Int
<1> DEFINE f == [s \in Symbols |-> pos[s].realized]
           g == [s \in Symbols |-> pos[s].unrealized]
<1>1. \A s \in Symbols : f[s] \in Int /\ g[s] \in Int
  BY DEF PositionRecord
<1>2. Realized(pos) = SumFunctionOnSet(f, Symbols) /\ Unrealized(pos) = SumFunctionOnSet(g, Symbols)
  BY DEF Realized, Unrealized, SumOver, SumFunction
<1> HIDE DEF f, g
<1>3. QED
  BY <1>1, <1>2, SumType, ConstantsAssumption

LEMMA DrawdownKeeps ==
  ASSUME BooksTyped, DrawdownBounds, UpdateDrawdown, capital' \in Int
  PROVE  peak' \in Nat /\ drawdown' \in Int \X Int /\ DrawdownBounds'
<1>1. /\ peak \in Nat /\ peak' = IF capital' > peak THEN capital' ELSE peak
      /\ drawdown' = IF peak' > 0 THEN <<peak' - capital', peak'>> ELSE drawdown
      /\ drawdown \in Int \X Int
  BY DEF BooksTyped, UpdateDrawdown
<1>0. capital' \in Int
  OBVIOUS
<1>2. peak' \in Nat /\ peak' >= capital' /\ (peak' = 0 => peak = 0)
  BY <1>0, <1>1
<1>3. drawdown' \in Int \X Int /\ drawdown'[1] >= 0 /\ (peak' > 0 => drawdown'[2] = peak')
  <2>1. CASE peak' > 0
    <3>1. drawdown' = <<peak' - capital', peak'>>
      BY <1>1, <2>1, Zenon
    <3>2. peak' - capital' \in Int /\ peak' - capital' >= 0 /\ peak' \in Int
      <4>1. ASSUME NEW a \in Nat, NEW b \in Int, a >= b PROVE a - b \in Int /\ a - b >= 0 /\ a \in Int
        BY <4>1
      <4>2. QED
        BY <1>0, <1>2, <4>1
    <3>3. ASSUME NEW a \in Int, NEW b \in Int PROVE <<a, b>> \in Int \X Int /\ <<a, b>>[1] = a /\ <<a, b>>[2] = b
      BY <3>3
    <3>4. drawdown' \in Int \X Int /\ drawdown'[1] = peak' - capital' /\ drawdown'[2] = peak'
      BY <3>1, <3>2, <3>3
    <3>5. QED
      BY <3>2, <3>4
  <2>2. CASE peak' = 0
    <3>1. drawdown' = drawdown /\ drawdown[1] >= 0 /\ ~ (peak' > 0)
      BY <1>1, <2>2 DEF DrawdownBounds
    <3>2. QED
      BY <1>1, <3>1
  <2>3. QED
    BY <1>2, <2>1, <2>2
<1>4. ~ Worse(drawdown, maxDrawdown)'
  <2>1. maxDrawdown' = IF Worse(drawdown', maxDrawdown) THEN drawdown' ELSE maxDrawdown
    BY DEF UpdateDrawdown
  <2>2. ~ Worse(drawdown', drawdown')
    <3>1. ASSUME NEW a \in Int, NEW b \in Int PROVE ~ (a * b > a * b)
      BY <3>1
    <3>2. QED
      BY <1>3, <3>1 DEF Worse
  <2>3. ~ Worse(drawdown', maxDrawdown')
    BY <2>1, <2>2, Zenon
  <2>4. QED
    BY <2>3 DEF Worse
<1>5. QED
  BY <1>2, <1>3, <1>4 DEF DrawdownBounds

LEMMA FillFits ==
  ASSUME BooksInv, NEW s \in Symbols, NEW side \in {"buy", "sell"}, NEW quantity \in Quantities, NEW at \in Prices,
         UpdateFromFill(s, side, quantity, at)
  PROVE  /\ BooksInv'
         /\ ResultsFit /\ Divides(Opened(position[s], at), quantity, at) => ResultsFit'
<1> DEFINE pos == Opened(position[s], at)
           signed == IF side = "buy" THEN quantity ELSE - quantity
           new == IF side = "buy" THEN Bought(pos, quantity, at) ELSE Sold(pos, quantity, at)
<1>1. quantity \in Nat \ {0} /\ at \in Nat /\ signed \in Int
  BY ConstantsAssumption
<1>2. /\ BooksTyped /\ DrawdownBounds /\ UpdateDrawdown
      /\ position \in [Symbols -> PositionRecord] /\ position[s] \in PositionRecord
      /\ position[s].quantity \in Int
  BY DEF BooksInv, BooksTyped, UpdateFromFill, PositionRecord
<1>3. /\ pos \in PositionRecord /\ pos.quantity = position[s].quantity
      /\ pos.unrealized = position[s].unrealized /\ Result(pos) = Result(position[s])
  BY <1>1, <1>2, OpenedFits
<1>4. /\ new \in PositionRecord /\ new.quantity = position[s].quantity + signed
      /\ new.unrealized = position[s].unrealized
      /\ Divides(pos, quantity, at) /\ ~ (side = "buy" /\ pos.quantity < 0 /\ pos.quantity + quantity # 0)
           => Result(new) = Result(position[s]) - signed * at
  <2>1. CASE side = "buy"
    <3>1. new = Bought(pos, quantity, at) /\ signed = quantity
      BY <2>1
    <3>2. /\ new \in PositionRecord /\ new.quantity = pos.quantity + quantity
          /\ new.unrealized = pos.unrealized
          /\ /\ pos.quantity < 0 => pos.quantity + quantity = 0
             /\ pos.quantity >= 0 => Divides(pos, quantity, at)
             => Result(new) = Result(pos) - quantity * at
      <4> HIDE DEF pos, new, signed
      <4>1. QED
        BY <1>1, <1>3, <3>1, BoughtFits
    <3> HIDE DEF pos, new, signed
    <3>3. QED
      BY <1>1, <1>2, <1>3, <2>1, <3>1, <3>2
  <2>2. CASE side = "sell"
    <3>1. new = Sold(pos, quantity, at) /\ signed = - quantity
      BY <2>2
    <3>2. (- quantity) * at = - (quantity * at) /\ quantity * at \in Int /\ Result(position[s]) \in Int
      BY <1>1, <1>2 DEF Result, PositionRecord
    <3>3. new \in PositionRecord /\ new.quantity = position[s].quantity - quantity /\ new.unrealized = position[s].unrealized
          /\ (Divides(pos, quantity, at) => Result(new) = Result(position[s]) + quantity * at)
      <4> HIDE DEF pos, new, signed
      <4>1. QED
        BY <1>1, <1>3, <3>1, SoldFits
    <3> HIDE DEF pos, new, signed
    <3>4. QED
      BY <1>1, <1>2, <3>1, <3>2, <3>3
  <2>3. QED
    BY <2>1, <2>2
<1>5. /\ position' = [position EXCEPT ![s] = new]
      /\ fills < MaxFills /\ Abs(position[s].quantity + signed) <= MaxLots /\ fills' = fills + 1
      /\ capital' = InitialCapital + Realized(position') + Unrealized(position')
      /\ daily' = (IF today = lastReset THEN Realized(position') ELSE 0)
      /\ lastReset' = today /\ UNCHANGED <<today, earlier>>
      /\ cash' = [cash EXCEPT ![s] = @ - signed * at] /\ price' = [price EXCEPT ![s] = at]
      /\ marked' = marked \ {s}
      /\ covered' = IF side = "buy" /\ position[s].quantity < 0 /\ position[s].quantity + quantity # 0
                    THEN covered \cup {s} ELSE covered
  BY Zenon DEF UpdateFromFill
<1>6. position' \in [Symbols -> PositionRecord] /\ position'[s] = new
      /\ \A t \in Symbols : t # s => position'[t] = position[t]
  <2> HIDE DEF new
  <2>1. QED
    BY <1>2, <1>4, <1>5
<1>7. \A t \in Symbols : position'[t].quantity \in - MaxLots .. MaxLots
  <2>1. new.quantity \in Int /\ Abs(new.quantity) <= MaxLots /\ MaxLots \in Nat
    <3> HIDE DEF new, signed
    <3>1. QED
      BY <1>1, <1>2, <1>4, <1>5, ConstantsAssumption
  <2>2. new.quantity \in - MaxLots .. MaxLots
    <3> HIDE DEF new
    <3>1. QED
      BY <2>1 DEF Abs
  <2> HIDE DEF new
  <2>3. QED
    BY <1>2, <1>6, <2>2 DEF BooksTyped
<1>8. capital' \in Int /\ daily' \in Int
  <2>1. Realized(position') \in Int /\ Unrealized(position') \in Int /\ InitialCapital \in Int
    BY <1>6, TotalsAreNumbers, ConstantsAssumption
  <2>2. QED
    BY <1>5, <2>1
<1>9. signed * at \in Int
  BY <1>1
<1>10. /\ cash' \in [Symbols -> Int] /\ cash'[s] = cash[s] - signed * at
       /\ price' \in [Symbols -> Nat] /\ marked' \subseteq Symbols /\ covered' \subseteq Symbols
       /\ \A t \in Symbols : t # s => cash'[t] = cash[t] /\ price'[t] = price[t]
  <2> HIDE DEF signed
  <2>1. QED
    BY <1>1, <1>2, <1>5, <1>9 DEF BooksTyped
<1>11. BooksInv'
  <2>1. peak' \in Nat /\ drawdown' \in Int \X Int /\ DrawdownBounds'
    BY <1>2, <1>8, DrawdownKeeps
  <2>2. today' \in 1 .. MaxDays /\ lastReset' \in 1 .. today' /\ fills' \in 0 .. MaxFills
    BY <1>2, <1>5, ConstantsAssumption DEF BooksTyped
  <2>3. QED
    BY <1>6, <1>7, <1>8, <1>10, <2>1, <2>2 DEF BooksInv, BooksTyped
<1>12. ASSUME ResultsFit, Divides(pos, quantity, at) PROVE ResultsFit'
  <2>1. ASSUME NEW t \in Symbols \ covered' PROVE Result(position'[t]) = cash'[t]
    <3>1. t \notin covered
      BY <1>5, <2>1
    <3>2. CASE t = s
      <4>1. ~ (side = "buy" /\ pos.quantity < 0 /\ pos.quantity + quantity # 0)
        <5> HIDE DEF pos
        <5>1. QED
          BY <1>3, <1>5, <2>1, <3>2
      <4>2. Result(new) = Result(position[s]) - signed * at /\ Result(position[s]) = cash[s]
        <5> HIDE DEF new, pos, signed
        <5>1. QED
          BY <1>4, <1>12, <3>1, <3>2, <4>1 DEF ResultsFit
      <4> HIDE DEF new, signed
      <4>3. QED
        BY <1>6, <1>10, <3>2, <4>2
    <3>3. CASE t # s
      BY <1>6, <1>10, <1>12, <3>1, <3>3 DEF ResultsFit
    <3>4. QED
      BY <3>2, <3>3
  <2>2. ASSUME NEW t \in marked' PROVE position'[t].unrealized = position'[t].quantity * (price'[t] - position'[t].entry)
    <3>1. t \in marked /\ t # s /\ t \in Symbols
      BY <1>2, <1>5 DEF BooksTyped
    <3>2. position'[t] = position[t] /\ price'[t] = price[t]
      BY <1>6, <1>10, <3>1
    <3>3. QED
      BY <1>12, <3>1, <3>2 DEF ResultsFit
  <2>3. (\A t \in Symbols \ covered : Result(position[t]) = cash[t])'
    BY <2>1 DEF Result
  <2>4. QED
    BY <2>2, <2>3 DEF ResultsFit
<1>13. QED
  BY <1>11, <1>12

LEMMA MarkFits ==
  ASSUME BooksInv, NEW s \in Symbols, NEW at \in Prices, UpdateMarketPrices(s, at)
  PROVE  BooksInv' /\ (ResultsFit => ResultsFit')
<1> DEFINE pos == position[s]
           value == IF pos.quantity = 0 THEN pos.unrealized ELSE pos.quantity * (at - pos.entry)
           new == [pos EXCEPT !.unrealized = value]
<1>1. /\ BooksTyped /\ DrawdownBounds /\ UpdateDrawdown /\ at \in Nat
      /\ position \in [Symbols -> PositionRecord] /\ pos \in PositionRecord
  BY ConstantsAssumption DEF BooksInv, BooksTyped, UpdateMarketPrices
<1>2. Valued(pos, at) = new
  BY <1>1 DEF Valued, PositionRecord
<1>3. /\ position' = [position EXCEPT ![s] = new]
      /\ capital' = InitialCapital + Realized(position') + Unrealized(position')
      /\ daily' = Realized(position')
      /\ price' = [price EXCEPT ![s] = at]
      /\ marked' = IF position[s].quantity = 0 THEN marked ELSE marked \cup {s}
      /\ UNCHANGED <<today, lastReset, fills, cash, covered, earlier>>
  BY <1>2, Zenon DEF UpdateMarketPrices, UpdatePnl
<1>4. /\ new \in PositionRecord /\ new.quantity = pos.quantity /\ new.entry = pos.entry
      /\ new.realized = pos.realized /\ new.unrealized = value
  <2>1. pos.quantity \in Int /\ pos.entry \in Int /\ pos.unrealized \in Int
    BY <1>1 DEF PositionRecord
  <2>2. value \in Int
    BY <1>1, <2>1
  <2> HIDE DEF value
  <2>3. QED
    BY <1>1, <2>2 DEF PositionRecord
<1>5. position' \in [Symbols -> PositionRecord] /\ position'[s] = new
      /\ \A t \in Symbols : t # s => position'[t] = position[t]
  <2> HIDE DEF new
  <2>1. QED
    BY <1>1, <1>3, <1>4
<1>6. capital' \in Int /\ daily' \in Int
  <2>1. Realized(position') \in Int /\ Unrealized(position') \in Int /\ InitialCapital \in Int
    BY <1>5, TotalsAreNumbers, ConstantsAssumption
  <2>2. QED
    BY <1>3, <2>1
<1>7. /\ price' \in [Symbols -> Nat] /\ price'[s] = at /\ marked' \subseteq Symbols
      /\ \A t \in Symbols : t # s => price'[t] = price[t]
  BY <1>1, <1>3 DEF BooksTyped
<1>8. BooksInv'
  <2>1. peak' \in Nat /\ drawdown' \in Int \X Int /\ DrawdownBounds'
    BY <1>1, <1>6, DrawdownKeeps
  <2>2. \A t \in Symbols : position'[t].quantity \in - MaxLots .. MaxLots
    <3> HIDE DEF new
    <3>1. QED
      BY <1>1, <1>4, <1>5 DEF BooksTyped
  <2>3. QED
    BY <1>1, <1>3, <1>5, <1>6, <1>7, <2>1, <2>2 DEF BooksInv, BooksTyped
<1>9. ASSUME ResultsFit PROVE ResultsFit'
  <2>1. ASSUME NEW t \in Symbols \ covered' PROVE Result(position'[t]) = cash'[t]
    <3>1. Result(position'[t]) = Result(position[t]) /\ t \notin covered /\ cash' = cash
      <4> HIDE DEF new
      <4>1. QED
        BY <1>3, <1>4, <1>5, <2>1 DEF Result
    <3>2. QED
      BY <1>9, <2>1, <3>1 DEF ResultsFit
  <2>2. ASSUME NEW t \in marked' PROVE position'[t].unrealized = position'[t].quantity * (price'[t] - position'[t].entry)
    <3>1. t \in Symbols /\ pos.entry \in Int
      BY <1>1, <1>7, <2>2 DEF PositionRecord
    <3>2. CASE t = s /\ pos.quantity # 0
      <4>1. value = pos.quantity * (at - pos.entry)
        BY <3>2
      <4> HIDE DEF new, value
      <4>2. QED
        BY <1>4, <1>5, <1>7, <3>2, <4>1
    <3>3. CASE t = s /\ pos.quantity = 0
      <4>1. s \in marked /\ value = pos.unrealized /\ price[s] \in Int
        BY <1>1, <1>3, <2>2, <3>3 DEF BooksTyped
      <4>2. pos.unrealized = pos.quantity * (price[s] - pos.entry)
        BY <1>9, <4>1 DEF ResultsFit
      <4>3. pos.unrealized = 0 /\ 0 * (at - pos.entry) = 0
        BY <1>1, <3>1, <3>3, <4>1, <4>2
      <4> HIDE DEF new, value
      <4>4. QED
        BY <1>4, <1>5, <1>7, <3>3, <4>1, <4>3
    <3>4. CASE t # s
      <4>1. t \in marked /\ position'[t] = position[t] /\ price'[t] = price[t]
        BY <1>3, <1>5, <1>7, <2>2, <3>1, <3>4
      <4>2. QED
        BY <1>9, <4>1 DEF ResultsFit
    <3>5. QED
      BY <3>2, <3>3, <3>4
  <2>3. (\A t \in Symbols \ covered : Result(position[t]) = cash[t])'
    BY <2>1 DEF Result
  <2>4. QED
    BY <2>2, <2>3 DEF ResultsFit
<1>10. QED
  BY <1>8, <1>9

LEMMA CloseFits ==
  ASSUME BooksInv, NEW s \in Symbols, NEW at \in Prices, ClosePosition(s, at)
  PROVE  BooksInv' /\ (ResultsFit => ResultsFit')
<1> DEFINE pos == position[s]
           gain == pos.realized + pos.quantity * (at - pos.entry)
           new == [Flat EXCEPT !.realized = gain]
<1>1. /\ BooksTyped /\ DrawdownBounds /\ at \in Nat
      /\ position \in [Symbols -> PositionRecord] /\ pos \in PositionRecord
      /\ pos.quantity \in Int /\ pos.entry \in Int /\ pos.realized \in Int
  BY ConstantsAssumption DEF BooksInv, BooksTyped, PositionRecord
<1>2. /\ position' = [position EXCEPT ![s] = new]
      /\ capital' = InitialCapital + Realized(position') + Unrealized(position')
      /\ daily' = Realized(position')
      /\ cash' = [cash EXCEPT ![s] = @ + pos.quantity * at]
      /\ price' = [price EXCEPT ![s] = at] /\ marked' = marked \cup {s}
      /\ UNCHANGED <<peak, drawdown, maxDrawdown, today, lastReset, fills, covered, earlier>>
  BY Zenon DEF ClosePosition, UpdatePnl
<1>3. gain \in Int /\ pos.quantity * at \in Int
  BY <1>1
<1>4. /\ new \in PositionRecord /\ new.quantity = 0 /\ new.entry = 0 /\ new.unrealized = 0
      /\ new.realized = gain
  <2> HIDE DEF gain
  <2>1. QED
    BY <1>3 DEF Flat, PositionRecord
<1>5. position' \in [Symbols -> PositionRecord] /\ position'[s] = new
      /\ \A t \in Symbols : t # s => position'[t] = position[t]
  <2> HIDE DEF new
  <2>1. QED
    BY <1>1, <1>2, <1>4
<1>6. capital' \in Int /\ daily' \in Int
  <2>1. Realized(position') \in Int /\ Unrealized(position') \in Int /\ InitialCapital \in Int
    BY <1>5, TotalsAreNumbers, ConstantsAssumption
  <2>2. QED
    BY <1>2, <2>1
<1>7. /\ price' \in [Symbols -> Nat] /\ price'[s] = at /\ marked' \subseteq Symbols
      /\ cash' \in [Symbols -> Int] /\ cash'[s] = cash[s] + pos.quantity * at
      /\ \A t \in Symbols : t # s => price'[t] = price[t] /\ cash'[t] = cash[t]
  BY <1>1, <1>2, <1>3 DEF BooksTyped
<1>8. BooksInv'
  <2>1. \A t \in Symbols : position'[t].quantity \in - MaxLots .. MaxLots
    <3>1. 0 \in - MaxLots .. MaxLots
      BY ConstantsAssumption
    <3> HIDE DEF new
    <3>2. QED
      BY <1>1, <1>4, <1>5, <3>1 DEF BooksTyped
  <2>2. DrawdownBounds'
    BY <1>1, <1>2 DEF DrawdownBounds, Worse
  <2>3. QED
    BY <1>1, <1>2, <1>5, <1>6, <1>7, <2>1, <2>2 DEF BooksInv, BooksTyped
<1>9. ASSUME ResultsFit PROVE ResultsFit'
  <2>1. ASSUME NEW t \in Symbols \ covered' PROVE Result(position'[t]) = cash'[t]
    <3>1. t \notin covered /\ Result(position[t]) = cash[t]
      BY <1>2, <1>9, <2>1 DEF ResultsFit
    <3>2. CASE t = s
      <4>1. Result(new) = gain
        <5>1. Result(new) = new.realized - new.quantity * new.entry
          BY DEF Result
        <5> HIDE DEF new, gain
        <5>2. QED
          BY <1>3, <1>4, <5>1
      <4>2. Result(pos) = cash[s]
        BY <3>1, <3>2
      <4>3. gain = Result(pos) + pos.quantity * at
        <5>1. pos.quantity * (at - pos.entry) = pos.quantity * at - pos.quantity * pos.entry
              /\ pos.quantity * pos.entry \in Int
          BY <1>1
        <5>2. Result(pos) = pos.realized - pos.quantity * pos.entry
          BY DEF Result
        <5> HIDE DEF pos
        <5>3. QED
          BY <1>1, <1>3, <5>1, <5>2
      <4> HIDE DEF new, gain
      <4>4. QED
        BY <1>5, <1>7, <3>2, <4>1, <4>2, <4>3
    <3>3. CASE t # s
      BY <1>5, <1>7, <3>1, <3>3
    <3>4. QED
      BY <3>2, <3>3
  <2>2. ASSUME NEW t \in marked' PROVE position'[t].unrealized = position'[t].quantity * (price'[t] - position'[t].entry)
    <3>1. t \in Symbols
      BY <1>7, <2>2
    <3>2. CASE t = s
      <4>1. 0 * (at - 0) = 0
        BY <1>1
      <4> HIDE DEF new
      <4>2. QED
        BY <1>4, <1>5, <1>7, <3>2, <4>1
    <3>3. CASE t # s
      <4>1. t \in marked /\ position'[t] = position[t] /\ price'[t] = price[t]
        BY <1>2, <1>5, <1>7, <2>2, <3>1, <3>3
      <4>2. QED
        BY <1>9, <4>1 DEF ResultsFit
    <3>4. QED
      BY <3>2, <3>3
  <2>3. (\A t \in Symbols \ covered : Result(position[t]) = cash[t])'
    BY <2>1 DEF Result
  <2>4. QED
    BY <2>2, <2>3 DEF ResultsFit
<1>10. QED
  BY <1>8, <1>9

LEMMA BooksStep ==
  ASSUME BooksInv, [Next]_vars
  PROVE  BooksInv' /\ (ResultsFit /\ [AveragesAreExact]_vars => ResultsFit')
<1>1. ASSUME NEW s \in Symbols, NEW side \in {"buy", "sell"}, NEW quantity \in Quantities, NEW at \in Prices,
             UpdateFromFill(s, side, quantity, at)
      PROVE  BooksInv' /\ (ResultsFit /\ [AveragesAreExact]_vars => ResultsFit')
  <2>1. BooksInv' /\ (ResultsFit /\ Divides(Opened(position[s], at), quantity, at) => ResultsFit')
    BY <1>1, FillFits
  <2>2. fills' # fills
    BY <1>1, ConstantsAssumption DEF UpdateFromFill, BooksInv, BooksTyped
  <2>3. [AveragesAreExact]_vars => AveragesAreExact
    BY <2>2 DEF vars
  <2>4. [AveragesAreExact]_vars => Divides(Opened(position[s], at), quantity, at)
    BY <1>1, <2>3 DEF AveragesAreExact
  <2>5. QED
    BY <2>1, <2>4
<1>2. CASE Midnight
  <2>1. /\ UNCHANGED <<position, metrics, lastReset, fills, cash, price, marked, covered>>
        /\ today < MaxDays /\ today' = today + 1
    BY <1>2 DEF Midnight
  <2>2. UNCHANGED <<capital, daily, peak, drawdown, maxDrawdown>>
    BY <2>1 DEF metrics
  <2>3. today' \in 1 .. MaxDays /\ lastReset' \in 1 .. today'
    BY <2>1, ConstantsAssumption DEF BooksInv, BooksTyped
  <2>4. BooksInv'
    BY <2>1, <2>2, <2>3 DEF BooksInv, BooksTyped, DrawdownBounds, Worse
  <2>5. ResultsFit => ResultsFit'
    BY <2>1 DEF ResultsFit, Result
  <2>6. QED
    BY <2>4, <2>5
<1>3. CASE UNCHANGED vars
  <2>1. UNCHANGED <<position, capital, daily, peak, drawdown, maxDrawdown, today, lastReset, fills,
                    cash, price, marked, covered>>
    BY <1>3 DEF vars, metrics, history
  <2>2. QED
    BY <2>1 DEF BooksInv, BooksTyped, DrawdownBounds, Worse, ResultsFit, Result
<1>4. QED
  BY <1>1, <1>2, <1>3, MarkFits, CloseFits DEF Next

LEMMA BooksHold == BooksInv => TypeOK /\ DrawdownBounds /\ (ResultsFit => ValueConserved)
<1>1. ASSUME BooksInv PROVE TypeOK /\ DrawdownBounds
  BY <1>1 DEF BooksInv, BooksTyped, TypeOK, PositionRecord
<1>2. ASSUME BooksInv, ResultsFit PROVE ValueConserved
  <2>1. SUFFICES ASSUME NEW s \in Symbols, s \in marked \ covered
                 PROVE  position[s].realized + position[s].unrealized = cash[s] + position[s].quantity * price[s]
    BY DEF ValueConserved
  <2> DEFINE q == position[s].quantity
             e == position[s].entry
             r == position[s].realized
             p == price[s]
  <2>2. q \in Int /\ e \in Int /\ r \in Int /\ p \in Int /\ cash[s] \in Int
    BY <1>2 DEF BooksInv, BooksTyped, PositionRecord
  <2>3. r - q * e = cash[s] /\ position[s].unrealized = q * (p - e)
    BY <1>2, <2>1 DEF ResultsFit, Result
  <2>4. q * (p - e) = q * p - q * e /\ q * p \in Int /\ q * e \in Int
    BY <2>2
  <2> HIDE DEF q, e, r, p
  <2>5. r + q * (p - e) = cash[s] + q * p
    BY <2>2, <2>3, <2>4
  <2>6. QED
    BY <2>3, <2>5 DEF q, e, r, p
<1>3. QED
  BY <1>1, <1>2
BookRecord == [symbol : Markets \cup {"none"}, depth : Int]
OrderRecord ==
  [symbol : Markets, side : {1, -1}, lots : {1, 2}, book : BookRecord, filled : Nat,
   status : {"rejected", "submitted", "filled", "partial", "sent"}]

EngineTyped ==
  /\ engine \in Engines /\ engineUp \in BOOLEAN
  /\ shelf \in [Markets \cup {"any"} -> BookRecord]
  /\ orders \in Seq(OrderRecord)
  /\ held \in [Markets -> Int] /\ entryOf \in [Markets -> SUBSET Ids]
  /\ heard \subseteq {"fill", "reject"} \X Ids

\* A paper order is for the symbol of its book, and has nothing before its answer.
OrdersOpen ==
  /\ Mode = "PAPER" => \A s \in Markets : shelf[s] = NoBook \/ shelf[s].symbol = s
  /\ \A o \in Ids :
       /\ orders[o].status = "submitted" => orders[o].filled = 0
       /\ Mode = "PAPER" /\ (orders[o].status = "submitted" \/ orders[o].filled > 0) =>
            orders[o].book.symbol = orders[o].symbol

EngineInv == EngineTyped /\ OrdersOpen /\ HeldIsReported /\ EntryIsOfThisSide /\ NeverOverfilled

LEMMA NoBookIsBook == NoBook \in BookRecord
BY DEF NoBook, BookRecord

LEMMA EngineInitial == EngineInit => EngineInv
<1> SUFFICES ASSUME EngineInit PROVE EngineInv
  OBVIOUS
<1> USE DEF EngineInit, Ids
<1>1. orders \in Seq(OrderRecord) /\ DOMAIN orders = {}
  OBVIOUS
<1>2. EngineTyped
  <2>1. shelf \in [Markets \cup {"any"} -> BookRecord]
    BY NoBookIsBook
  <2>2. held \in [Markets -> Int] /\ entryOf \in [Markets -> SUBSET Ids] /\ heard = {}
    OBVIOUS
  <2>3. QED
    BY <1>1, <2>1, <2>2 DEF EngineTyped
<1>3. OrdersOpen /\ NeverOverfilled /\ EntryIsOfThisSide
  BY <1>1 DEF OrdersOpen, NeverOverfilled, EntryIsOfThisSide
<1>4. HeldIsReported
  <2>1. ASSUME NEW s \in Markets
        PROVE  held[s] = SumFunctionOnSet([o \in Ids |-> orders[o].side * orders[o].filled],
                                          {o \in Ids : orders[o].symbol = s})
    <3> DEFINE f == [o \in Ids |-> orders[o].side * orders[o].filled]
               S == {o \in Ids : orders[o].symbol = s}
    <3>1. S = {} /\ held[s] = 0
      BY <1>1
    <3>2. IsFiniteSet(S) /\ \A x \in S : f[x] = 0
      BY <3>1, FS_EmptySet
    <3> HIDE DEF f, S
    <3>3. SumFunctionOnSet(f, S) = 0
      BY <3>2, SumOfZeros
    <3>4. QED
      BY <3>1, <3>3 DEF f, S
  <2>2. {o \in Ids : <<"fill", o>> \in heard} = {} /\ {o \in Ids : orders[o].filled > 0} = {}
    BY <1>1
  <2>3. QED
    BY <2>1, <2>2 DEF HeldIsReported
<1>5. QED
  BY <1>2, <1>3, <1>4 DEF EngineInv

\* What fills of an order, at most all of it, and all of it when the book is short.
LEMMA OrderFits ==
  ASSUME NEW lots \in {1, 2}, NEW depth \in Int, NEW cut \in {1, 2}
  PROVE  /\ FillOf(lots, depth, cut) \in 0 .. 10 * lots
         /\ depth > 0 /\ Asked(lots, cut) > 10 * depth => FillOf(lots, depth, cut) = 10 * lots
<1> DEFINE S == {Asked(lots, cut), 10 * depth}
           least == Min(S)
<1>1. Asked(lots, cut) \in Nat /\ 10 * depth \in Int
  BY DEF Asked
<1>2. CASE depth <= 0
  <2>1. FillOf(lots, depth, cut) = 0 /\ 0 \in 0 .. 10 * lots /\ ~ (depth > 0)
    BY <1>2 DEF FillOf
  <2>2. QED
    BY <2>1
<1>3. CASE depth > 0
  <2>1. S \in SUBSET Int /\ S # {} /\ IsFiniteSet(S)
    <3>1. S = {Asked(lots, cut)} \cup {10 * depth}
      OBVIOUS
    <3>2. IsFiniteSet({Asked(lots, cut)})
      BY FS_Singleton
    <3>3. IsFiniteSet({Asked(lots, cut)} \cup {10 * depth})
      BY <3>2, FS_AddElement
    <3>4. QED
      BY <1>1, <3>1, <3>3
  <2>2. least \in S /\ \A n \in S : least <= n
    <3> HIDE DEF S
    <3>1. QED
      BY <2>1, Extremes
  <2>3. least \in 0 .. 10 * depth /\ (Asked(lots, cut) > 10 * depth => least = 10 * depth)
    BY <1>1, <1>3, <2>2
  <2>4. FillOf(lots, depth, cut) = (lots * least) \div depth
    BY <1>3 DEF FillOf
  <2>5. ASSUME NEW d \in Nat \ {0}, NEW m \in 0 .. 10 * d, NEW n \in {1, 2}
        PROVE  (n * m) \div d \in 0 .. 10 * n /\ (m = 10 * d => (n * m) \div d = 10 * n)
    <3> DEFINE q == (n * m) \div d
    <3>1. q \in Int /\ q * d <= n * m /\ n * m < (q + 1) * d
      <4>1. n * m \in Nat
        BY <2>5
      <4>2. ASSUME NEW a \in Nat PROVE (a \div d) \in Int /\ (a \div d) * d <= a /\ a < ((a \div d) + 1) * d
        BY <2>5, <4>2
      <4>3. QED
        BY <4>1, <4>2
    <3>2. n * m <= 10 * n * d /\ n * m >= 0 /\ (m = 10 * d => n * m = 10 * n * d)
      BY <2>5
    <3> HIDE DEF q
    <3>3. q >= 0
      <4>1. SUFFICES ASSUME q + 1 <= 0 PROVE FALSE
        BY <3>1
      <4>2. (q + 1) * d <= 0
        BY <3>1, <4>1
      <4>3. QED
        BY <3>1, <3>2, <4>2
    <3>4. q <= 10 * n
      <4>1. SUFFICES ASSUME q >= 10 * n + 1 PROVE FALSE
        BY <3>1
      <4>2. q * d >= (10 * n + 1) * d /\ (10 * n + 1) * d = 10 * n * d + d
        BY <3>1, <4>1
      <4>3. QED
        BY <3>1, <3>2, <4>2
    <3>5. ASSUME m = 10 * d PROVE q = 10 * n
      <4>1. SUFFICES ASSUME q + 1 <= 10 * n PROVE FALSE
        BY <3>1, <3>4
      <4>2. (q + 1) * d <= 10 * n * d
        BY <3>1, <4>1
      <4>3. QED
        BY <3>1, <3>2, <3>5, <4>2
    <3>6. QED
      BY <3>1, <3>3, <3>4, <3>5 DEF q
  <2>6. /\ (lots * least) \div depth \in 0 .. 10 * lots
        /\ least = 10 * depth => (lots * least) \div depth = 10 * lots
    <3>1. depth \in Nat \ {0}
      BY <1>3
    <3> HIDE DEF least
    <3>2. QED
      BY <2>3, <2>5, <3>1
  <2> HIDE DEF least
  <2>7. QED
    BY <2>3, <2>4, <2>6
<1>4. QED
  BY <1>2, <1>3

\* What the orders moved, and the orders for a symbol.
Moved == [o \in Ids |-> orders[o].side * orders[o].filled]
OrdersFor(s) == {o \in Ids : orders[o].symbol = s}

LEMMA OrdersShape ==
  ASSUME EngineTyped
  PROVE  /\ Ids = 1 .. Len(orders) /\ Len(orders) \in Nat /\ IsFiniteSet(Ids)
         /\ \A o \in Ids : orders[o] \in OrderRecord /\ Moved[o] \in Int
         /\ \A s : OrdersFor(s) \subseteq Ids /\ IsFiniteSet(OrdersFor(s))
<1>1. orders \in Seq(OrderRecord)
  BY DEF EngineTyped
<1>2. Ids = 1 .. Len(orders) /\ Len(orders) \in Nat /\ \A o \in Ids : orders[o] \in OrderRecord
  BY <1>1 DEF Ids
<1>3. IsFiniteSet(Ids)
  BY <1>2, FS_Interval
<1>4. \A o \in Ids : Moved[o] \in Int
  BY <1>2 DEF Moved, OrderRecord
<1>5. \A s : OrdersFor(s) \subseteq Ids /\ IsFiniteSet(OrdersFor(s))
  BY <1>3, FS_Subset DEF OrdersFor
<1>6. QED
  BY <1>2, <1>3, <1>4, <1>5

LEMMA HeldIsMoved ==
  HeldIsReported <=>
    (Mode # "LIVE" => /\ \A s \in Markets : held[s] = SumFunctionOnSet(Moved, OrdersFor(s))
                      /\ \A o \in Ids : <<"fill", o>> \in heard <=> orders[o].filled > 0)
BY DEF HeldIsReported, Moved, OrdersFor

LEMMA SubmittedKeeps ==
  ASSUME EngineInv, NEW s \in Markets, NEW side \in {1, -1}, NEW lots \in {1, 2}, NEW book \in BookRecord,
         NEW refused \in BOOLEAN, Submitted(s, side, lots, book, refused),
         Mode = "PAPER" /\ ~ refused => book.symbol = s
  PROVE  EngineInv'
<1> DEFINE n == Len(orders) + 1
           new == [symbol |-> s, side |-> side, lots |-> lots, book |-> book, filled |-> 0,
                   status |-> IF refused THEN "rejected" ELSE "submitted"]
<1>1. /\ EngineTyped /\ OrdersOpen /\ HeldIsReported /\ EntryIsOfThisSide /\ NeverOverfilled
      /\ orders \in Seq(OrderRecord)
  BY DEF EngineInv, EngineTyped
<1>2. new \in OrderRecord
  BY DEF OrderRecord
<1>3. /\ orders' = Append(orders, new)
      /\ heard' = IF refused THEN heard \cup {<<"reject", Len(orders')>>} ELSE heard
      /\ UNCHANGED <<engine, engineUp, shelf, held, entryOf>>
  BY DEF Submitted, EmitReject
<1>4. /\ orders' \in Seq(OrderRecord) /\ Len(orders') = n /\ Ids' = Ids \cup {n} /\ n \notin Ids
      /\ orders'[n] = new /\ \A o \in Ids : orders'[o] = orders[o]
  <2> HIDE DEF new
  <2>1. QED
    BY <1>1, <1>2, <1>3 DEF Ids
<1>5. new.status # "submitted" => refused
  OBVIOUS
<1>6. EngineTyped'
  <2>1. heard' \subseteq {"fill", "reject"} \X Ids'
    BY <1>1, <1>3, <1>4 DEF EngineTyped
  <2>2. entryOf' \in [Markets -> SUBSET Ids']
    BY <1>1, <1>3, <1>4 DEF EngineTyped
  <2>3. QED
    BY <1>1, <1>3, <1>4, <2>1, <2>2 DEF EngineTyped
<1>7. OrdersOpen'
  <2>1. Mode' = Mode /\ shelf' = shelf
    BY <1>3 DEF Mode
  <2>2. ASSUME NEW o \in Ids'
        PROVE  /\ orders'[o].status = "submitted" => orders'[o].filled = 0
               /\ Mode = "PAPER" /\ (orders'[o].status = "submitted" \/ orders'[o].filled > 0) =>
                    orders'[o].book.symbol = orders'[o].symbol
    <3>1. CASE o \in Ids
      BY <1>1, <1>4, <3>1 DEF OrdersOpen
    <3>2. CASE o = n
      BY <1>4, <3>2
    <3>3. QED
      BY <1>4, <2>2, <3>1, <3>2
  <2>3. QED
    BY <1>1, <2>1, <2>2 DEF OrdersOpen
<1>8. HeldIsReported'
  <2>1. Mode' = Mode /\ held' = held
    BY <1>3 DEF Mode
  <2>2. ASSUME Mode # "LIVE", NEW t \in Markets PROVE held[t] = SumFunctionOnSet(Moved', OrdersFor(t)')
    <3>1. held[t] = SumFunctionOnSet(Moved, OrdersFor(t)) /\ IsFiniteSet(OrdersFor(t)) /\ OrdersFor(t) \subseteq Ids
      BY <1>1, <2>2, HeldIsMoved, OrdersShape
    <3>2. \A o \in OrdersFor(t) : Moved'[o] = Moved[o] /\ Moved[o] \in Int
      BY <1>1, <1>4, <3>1, OrdersShape DEF Moved
    <3>3. SumFunctionOnSet(Moved', OrdersFor(t)) = held[t]
      BY <3>1, <3>2, SumSame
    <3>4. CASE t = s
      <4>1. OrdersFor(t)' = OrdersFor(t) \cup {n} /\ OrdersFor(t)' \ {n} = OrdersFor(t)
        BY <1>4, <3>1, <3>4 DEF OrdersFor
      <4>2. Moved'[n] = 0
        BY <1>4 DEF Moved
      <4>3. IsFiniteSet(OrdersFor(t)') /\ n \in OrdersFor(t)' /\ \A o \in OrdersFor(t)' : Moved'[o] \in Int
        BY <3>1, <3>2, <4>1, <4>2, FS_AddElement
      <4>4. SumFunctionOnSet(Moved', OrdersFor(t)') = Moved'[n] + SumFunctionOnSet(Moved', OrdersFor(t)' \ {n})
        BY <4>3, SumWithout
      <4>5. held[t] \in Int
        BY <1>1 DEF EngineTyped
      <4>6. SumFunctionOnSet(Moved', OrdersFor(t)' \ {n}) = held[t]
        BY <3>3, <4>1
      <4>7. SumFunctionOnSet(Moved', OrdersFor(t)') = 0 + held[t]
        BY <4>2, <4>4, <4>6, Zenon
      <4>8. QED
        BY <4>5, <4>7
    <3>5. CASE t # s
      <4>1. OrdersFor(t)' = OrdersFor(t)
        BY <1>4, <3>5 DEF OrdersFor
      <4>2. QED
        BY <3>3, <4>1
    <3>6. QED
      BY <3>4, <3>5
  <2>3. ASSUME Mode # "LIVE", NEW o \in Ids' PROVE <<"fill", o>> \in heard' <=> orders'[o].filled > 0
    <3>1. CASE o \in Ids
      BY <1>1, <1>3, <1>4, <2>3, <3>1, HeldIsMoved
    <3>2. CASE o = n
      <4>1. <<"fill", o>> \notin heard'
        BY <1>1, <1>3, <1>4, <3>2 DEF EngineTyped
      <4>2. QED
        BY <1>4, <3>2, <4>1
    <3>3. QED
      BY <1>4, <2>3, <3>1, <3>2
  <2>4. Mode' # "LIVE" => /\ \A t \in Markets : held'[t] = SumFunctionOnSet(Moved', OrdersFor(t)')
                          /\ \A o \in Ids' : <<"fill", o>> \in heard' <=> orders'[o].filled > 0
    BY <2>1, <2>2, <2>3
  <2>5. QED
    BY <2>4 DEF HeldIsReported, Moved, OrdersFor
<1>9. EntryIsOfThisSide'
  <2>1. ASSUME NEW t \in Markets, held[t] # 0, NEW o \in entryOf[t]
        PROVE  orders'[o].side = SideOf(held[t]) /\ orders'[o].symbol = t
    <3>1. o \in Ids
      BY <1>1 DEF EngineTyped
    <3>2. orders[o].side = SideOf(held[t]) /\ orders[o].symbol = t
      BY <1>1, <2>1 DEF EntryIsOfThisSide
    <3>3. QED
      BY <1>4, <3>1, <3>2
  <2>2. \A t \in Markets : held[t] # 0 => entryOf[t] # {}
    BY <1>1 DEF EntryIsOfThisSide
  <2>3. held' = held /\ entryOf' = entryOf
    BY <1>3
  <2>4. QED
    BY <2>1, <2>2, <2>3 DEF EntryIsOfThisSide, SideOf
<1>10. NeverOverfilled'
  <2>1. ASSUME NEW o \in Ids' PROVE /\ orders'[o].filled <= 10 * orders'[o].lots
                                    /\ orders'[o].status = "filled" => orders'[o].filled = 10 * orders'[o].lots
    <3>1. CASE o \in Ids
      BY <1>1, <1>4, <3>1 DEF NeverOverfilled
    <3>2. CASE o = n
      BY <1>4, <3>2
    <3>3. QED
      BY <1>4, <2>1, <3>1, <3>2
  <2>2. QED
    BY <2>1 DEF NeverOverfilled
<1>11. QED
  BY <1>6, <1>7, <1>8, <1>9, <1>10 DEF EngineInv

LEMMA AnsweredShape ==
  ASSUME EngineTyped, NEW o \in Ids, NEW book \in BookRecord, NEW filled \in Nat,
         NEW stat \in {"rejected", "filled", "partial", "sent"}, Answered(o, book, filled, stat)
  PROVE  /\ orders' \in Seq(OrderRecord) /\ Ids' = Ids
         /\ \A p \in Ids : p # o => orders'[p] = orders[p]
         /\ orders[o] \in OrderRecord /\ orders[o].status = "submitted"
         /\ orders'[o].symbol = orders[o].symbol /\ orders'[o].side = orders[o].side
         /\ orders'[o].lots = orders[o].lots /\ orders'[o].book.symbol = book.symbol
         /\ orders'[o].filled = filled /\ orders'[o].status = stat
         /\ UNCHANGED <<engine, engineUp, shelf>>
<1> DEFINE closed == [book EXCEPT !.depth = 0]
           answer == [orders[o] EXCEPT !.filled = filled, !.status = stat, !.book = closed]
<1>1. orders \in Seq(OrderRecord) /\ o \in 1 .. Len(orders) /\ orders[o] \in OrderRecord
  BY OrdersShape DEF EngineTyped
<1>2. closed \in BookRecord /\ closed.symbol = book.symbol
  BY DEF BookRecord
<1> HIDE DEF closed
<1>3. answer \in OrderRecord
  BY <1>1, <1>2 DEF OrderRecord
<1>4. /\ answer.symbol = orders[o].symbol /\ answer.side = orders[o].side /\ answer.lots = orders[o].lots
      /\ answer.book = closed /\ answer.filled = filled /\ answer.status = stat
  BY <1>1 DEF OrderRecord
<1>5. orders' = [orders EXCEPT ![o] = answer]
  BY <1>1 DEF Answered, closed
<1>6. orders[o].status = "submitted" /\ UNCHANGED <<engine, engineUp, shelf>>
  BY DEF Answered
<1> HIDE DEF answer
<1>7. /\ orders' \in Seq(OrderRecord) /\ Len(orders') = Len(orders) /\ orders'[o] = answer
      /\ \A p \in 1 .. Len(orders) : p # o => orders'[p] = orders[p]
  BY <1>1, <1>3, <1>5
<1>8. Ids' = Ids /\ Ids = 1 .. Len(orders)
  BY <1>1, <1>7 DEF Ids
<1>9. QED
  BY <1>1, <1>2, <1>4, <1>6, <1>7, <1>8

\* The sides of what was held, of what is moved and of what is held then.
LEMMA SidesAdd ==
  ASSUME NEW a \in Int, NEW b \in Int, b # 0
  PROVE  /\ a = 0 => SideOf(a + b) = SideOf(b)
         /\ a # 0 /\ a * b >= 0 => SideOf(a) = SideOf(b) /\ SideOf(a + b) = SideOf(a)
         /\ ~ (a * b >= 0) /\ AbsOf(b) <= AbsOf(a) /\ a + b # 0 => SideOf(a + b) = SideOf(a)
         /\ ~ (a * b >= 0) /\ ~ (AbsOf(b) <= AbsOf(a)) => SideOf(a + b) = SideOf(b)
<1>1. a # 0 /\ a * b >= 0 => (a > 0 /\ b > 0) \/ (a < 0 /\ b < 0)
  <2>1. a > 0 /\ b < 0 => a * b < 0
    OBVIOUS
  <2>2. a < 0 /\ b > 0 => a * b < 0
    OBVIOUS
  <2>3. QED
    BY <2>1, <2>2
<1>2. ~ (a * b >= 0) => (a > 0 /\ b < 0) \/ (a < 0 /\ b > 0)
  <2>1. a >= 0 /\ b >= 0 => a * b >= 0
    OBVIOUS
  <2>2. a <= 0 /\ b <= 0 => a * b >= 0
    OBVIOUS
  <2>3. QED
    BY <2>1, <2>2
<1>3. QED
  BY <1>1, <1>2 DEF SideOf, AbsOf

LEMMA MovedSide ==
  ASSUME NEW side \in {1, -1}, NEW n \in Nat, n # 0
  PROVE  side * n \in Int /\ side * n # 0 /\ SideOf(side * n) = side
BY DEF SideOf

LEMMA AnsweredKeeps ==
  ASSUME EngineInv, NEW o \in Ids, NEW book \in BookRecord, NEW filled \in 0 .. 10 * orders[o].lots,
         NEW stat \in {"rejected", "filled", "partial"}, Answered(o, book, filled, stat), Mode # "LIVE",
         stat = "filled" => filled = 10 * orders[o].lots,
         Mode = "PAPER" => book.symbol = orders[o].symbol,
         IF filled = 0 THEN UNCHANGED <<held, entryOf, heard>>
         ELSE UpdatePosition(o, orders[o].symbol, orders[o].side * filled) /\ EmitFill(o)
  PROVE  EngineInv'
<1> DEFINE s == orders[o].symbol
           moved == orders[o].side * filled
<1>1. /\ EngineTyped /\ OrdersOpen /\ HeldIsReported /\ EntryIsOfThisSide /\ NeverOverfilled
      /\ held \in [Markets -> Int] /\ entryOf \in [Markets -> SUBSET Ids] /\ heard \subseteq {"fill", "reject"} \X Ids
  BY DEF EngineInv, EngineTyped
<1>2. orders[o] \in OrderRecord
  BY <1>1, OrdersShape
<1>3. s \in Markets /\ orders[o].side \in {1, -1} /\ orders[o].lots \in {1, 2} /\ filled \in Nat
  BY <1>2 DEF OrderRecord
<1>4. /\ orders' \in Seq(OrderRecord) /\ Ids' = Ids
      /\ \A p \in Ids : p # o => orders'[p] = orders[p]
      /\ orders[o].status = "submitted"
      /\ orders'[o].symbol = orders[o].symbol /\ orders'[o].side = orders[o].side
      /\ orders'[o].lots = orders[o].lots /\ orders'[o].book.symbol = book.symbol
      /\ orders'[o].filled = filled /\ orders'[o].status = stat
      /\ UNCHANGED <<engine, engineUp, shelf>> /\ Mode' = Mode
  BY <1>1, <1>3, AnsweredShape DEF Mode
<1>5. orders[o].filled = 0 /\ <<"fill", o>> \notin heard
  <2>1. orders[o].filled = 0
    BY <1>1, <1>4 DEF OrdersOpen
  <2>2. QED
    BY <1>1, <2>1, HeldIsMoved
<1>6. \A p \in Ids : orders'[p].side = orders[p].side /\ orders'[p].symbol = orders[p].symbol
  BY <1>4
<1>7. filled # 0 => moved \in Int /\ moved # 0 /\ SideOf(moved) = orders[o].side
  BY <1>3, MovedSide
<1>8. /\ filled # 0 => /\ held' = [held EXCEPT ![s] = held[s] + moved]
                       /\ heard' = heard \cup {<<"fill", o>>}
                       /\ entryOf' = [entryOf EXCEPT ![s] =
                            IF held[s] * moved >= 0 THEN (IF held[s] = 0 THEN {} ELSE entryOf[s]) \cup {o}
                            ELSE IF AbsOf(moved) <= AbsOf(held[s]) THEN entryOf[s] ELSE {o}]
      /\ filled = 0 => UNCHANGED <<held, entryOf, heard>>
  BY DEF UpdatePosition, EmitFill
<1>9. held[s] \in Int /\ entryOf[s] \subseteq Ids
  BY <1>1, <1>3
<1> HIDE DEF s, moved
<1>10. EngineTyped'
  <2>1. held' \in [Markets -> Int]
    <3>1. CASE filled = 0
      BY <1>1, <1>8, <3>1
    <3>2. CASE filled # 0
      <4>1. held[s] + moved \in Int
        BY <1>7, <1>9, <3>2
      <4>2. QED
        BY <1>1, <1>3, <1>8, <3>2, <4>1
    <3>3. QED
      BY <3>1, <3>2
  <2>2. entryOf' \in [Markets -> SUBSET Ids']
    <3>1. CASE filled = 0
      BY <1>1, <1>4, <1>8, <3>1, Zenon
    <3>2. CASE filled # 0
      <4> DEFINE new == IF held[s] * moved >= 0 THEN (IF held[s] = 0 THEN {} ELSE entryOf[s]) \cup {o}
                        ELSE IF AbsOf(moved) <= AbsOf(held[s]) THEN entryOf[s] ELSE {o}
      <4>1. new \in SUBSET Ids
        BY <1>9
      <4>2. entryOf' = [entryOf EXCEPT ![s] = new]
        BY <1>8, <3>2, Zenon
      <4> HIDE DEF new
      <4>3. entryOf' \in [Markets -> SUBSET Ids]
        BY <1>1, <4>1, <4>2
      <4>4. QED
        BY <1>4, <4>3
    <3>3. QED
      BY <3>1, <3>2
  <2>3. heard' \subseteq {"fill", "reject"} \X Ids'
    BY <1>1, <1>4, <1>8
  <2>4. QED
    BY <1>1, <1>4, <2>1, <2>2, <2>3 DEF EngineTyped
<1>11. OrdersOpen'
  BY <1>1, <1>4 DEF OrdersOpen
<1>12. HeldIsReported'
  <2>1. ASSUME NEW t \in Markets PROVE held'[t] = SumFunctionOnSet(Moved', OrdersFor(t)')
    <3>1. /\ OrdersFor(t)' = OrdersFor(t) /\ IsFiniteSet(OrdersFor(t)) /\ OrdersFor(t) \subseteq Ids
          /\ held[t] = SumFunctionOnSet(Moved, OrdersFor(t)) /\ held[t] \in Int
      <4>1. OrdersFor(t)' = OrdersFor(t)
        BY <1>4, <1>6 DEF OrdersFor
      <4>2. QED
        BY <1>1, <4>1, OrdersShape, HeldIsMoved
    <3>2. \A p \in Ids : /\ Moved[p] \in Int
                         /\ p # o => Moved'[p] = Moved[p]
                         /\ p = o => Moved'[p] = moved /\ Moved[p] = 0
      <4>1. TAKE p \in Ids
      <4>2. Moved[p] = orders[p].side * orders[p].filled /\ Moved'[p] = orders'[p].side * orders'[p].filled
        BY <1>4 DEF Moved
      <4>3. Moved[p] \in Int
        BY <1>1, OrdersShape
      <4>4. p = o => Moved[p] = 0
        BY <1>3, <1>5, <4>2
      <4>5. p = o => Moved'[p] = moved
        BY <1>4, <4>2 DEF moved
      <4>6. p # o => Moved'[p] = Moved[p]
        BY <1>4, <4>2
      <4>7. QED
        BY <4>3, <4>4, <4>5, <4>6
    <3>3. moved \in Int /\ (filled = 0 => moved = 0)
      BY <1>3, <1>7 DEF moved
    <3>4. CASE t = s
      <4>1. o \in OrdersFor(t)
        BY <3>4 DEF OrdersFor, s
      <4>2. \A p \in OrdersFor(t) : Moved[p] \in Int /\ Moved'[p] \in Int /\ (p # o => Moved'[p] = Moved[p])
        BY <3>1, <3>2, <3>3
      <4>3. SumFunctionOnSet(Moved', OrdersFor(t)) = SumFunctionOnSet(Moved, OrdersFor(t)) + Moved'[o] - Moved[o]
        BY <3>1, <4>1, <4>2, SumChanges
      <4>4. Moved'[o] = moved /\ Moved[o] = 0
        BY <3>2
      <4>5. SumFunctionOnSet(Moved', OrdersFor(t)) = held[t] + moved - 0
        BY <3>1, <4>3, <4>4, Zenon
      <4>6. held'[t] = held[t] + moved
        BY <1>1, <1>3, <1>8, <3>1, <3>3, <3>4
      <4>7. QED
        BY <3>1, <3>3, <4>5, <4>6
    <3>5. CASE t # s
      <4>1. o \notin OrdersFor(t)
        BY <3>5 DEF OrdersFor, s
      <4>2. \A p \in OrdersFor(t) : Moved'[p] = Moved[p]
        BY <3>1, <3>2, <4>1
      <4>3. SumFunctionOnSet(Moved', OrdersFor(t)) = held[t]
        BY <3>1, <4>2, SumSame
      <4>4. held'[t] = held[t]
        BY <1>1, <1>3, <1>8, <3>5
      <4>5. QED
        BY <3>1, <4>3, <4>4
    <3>6. QED
      BY <3>4, <3>5
  <2>2. ASSUME NEW p \in Ids' PROVE <<"fill", p>> \in heard' <=> orders'[p].filled > 0
    <3>1. CASE p = o
      BY <1>3, <1>4, <1>5, <1>8, <3>1
    <3>2. CASE p # o
      <4>1. <<"fill", p>> \in heard <=> orders[p].filled > 0
        BY <1>1, <1>4, HeldIsMoved
      <4>2. <<"fill", p>> \in heard' <=> <<"fill", p>> \in heard
        BY <1>8, <3>2
      <4>3. QED
        BY <1>4, <3>2, <4>1, <4>2
    <3>3. QED
      BY <3>1, <3>2
  <2>3. Mode' # "LIVE" => /\ \A t \in Markets : held'[t] = SumFunctionOnSet(Moved', OrdersFor(t)')
                          /\ \A p \in Ids' : <<"fill", p>> \in heard' <=> orders'[p].filled > 0
    BY <2>1, <2>2
  <2>4. QED
    BY <2>3 DEF HeldIsReported, Moved, OrdersFor
<1>13. EntryIsOfThisSide'
  <2>1. ASSUME NEW t \in Markets, held'[t] # 0
        PROVE  entryOf'[t] # {} /\ \A p \in entryOf'[t] : orders'[p].side = SideOf(held'[t]) /\ orders'[p].symbol = t
    <3>1. held[t] # 0 => /\ entryOf[t] # {}
                         /\ \A p \in entryOf[t] : orders'[p].side = SideOf(held[t]) /\ orders'[p].symbol = t
      <4>1. entryOf[t] \subseteq Ids
        BY <1>1
      <4>2. QED
        BY <1>1, <1>6, <4>1 DEF EntryIsOfThisSide
    <3>2. CASE filled = 0 \/ t # s
      <4>1. held'[t] = held[t] /\ entryOf'[t] = entryOf[t]
        BY <1>1, <1>3, <1>8, <3>2
      <4>2. QED
        BY <2>1, <3>1, <4>1
    <3>3. CASE filled # 0 /\ t = s
      <4>1. /\ held'[t] = held[t] + moved /\ held[t] \in Int
            /\ entryOf'[t] = IF held[t] * moved >= 0 THEN (IF held[t] = 0 THEN {} ELSE entryOf[t]) \cup {o}
                             ELSE IF AbsOf(moved) <= AbsOf(held[t]) THEN entryOf[t] ELSE {o}
        BY <1>1, <1>3, <1>8, <3>3
      <4>2. moved \in Int /\ moved # 0 /\ orders'[o].side = SideOf(moved) /\ orders'[o].symbol = t
        BY <1>4, <1>7, <3>3 DEF s
      <4> DEFINE a == held[t]
      <4>3. /\ a = 0 => SideOf(a + moved) = SideOf(moved)
            /\ a # 0 /\ a * moved >= 0 => SideOf(a) = SideOf(moved) /\ SideOf(a + moved) = SideOf(a)
            /\ ~ (a * moved >= 0) /\ AbsOf(moved) <= AbsOf(a) /\ a + moved # 0 => SideOf(a + moved) = SideOf(a)
            /\ ~ (a * moved >= 0) /\ ~ (AbsOf(moved) <= AbsOf(a)) => SideOf(a + moved) = SideOf(moved)
        BY <4>1, <4>2, SidesAdd
      <4>4. CASE a = 0
        <5>1. entryOf'[t] = {o}
          <6>1. a * moved = 0
            BY <4>2, <4>4
          <6>2. QED
            BY <4>1, <4>4, <6>1
        <5>2. SideOf(held'[t]) = SideOf(moved)
          BY <4>1, <4>3, <4>4
        <5>3. QED
          BY <4>2, <5>1, <5>2
      <4>5. CASE a # 0 /\ a * moved >= 0
        <5>1. entryOf'[t] = entryOf[t] \cup {o}
          BY <4>1, <4>5
        <5>2. SideOf(held'[t]) = SideOf(moved) /\ SideOf(held'[t]) = SideOf(held[t])
          BY <4>1, <4>3, <4>5
        <5>3. QED
          BY <3>1, <4>2, <4>5, <5>1, <5>2
      <4>6. CASE ~ (a * moved >= 0) /\ AbsOf(moved) <= AbsOf(a)
        <5>1. entryOf'[t] = entryOf[t] /\ a # 0
          <6>1. a # 0
            BY <4>2, <4>6
          <6>2. QED
            BY <4>1, <4>6, <6>1
        <5>2. SideOf(held'[t]) = SideOf(held[t])
          BY <2>1, <4>1, <4>3, <4>6
        <5>3. QED
          BY <3>1, <5>1, <5>2
      <4>7. CASE ~ (a * moved >= 0) /\ ~ (AbsOf(moved) <= AbsOf(a))
        <5>1. entryOf'[t] = {o}
          BY <4>1, <4>7
        <5>2. SideOf(held'[t]) = SideOf(moved)
          BY <4>1, <4>3, <4>7
        <5>3. QED
          BY <4>2, <5>1, <5>2
      <4>8. QED
        BY <4>4, <4>5, <4>6, <4>7
    <3>4. QED
      BY <3>2, <3>3
  <2>2. QED
    BY <2>1 DEF EntryIsOfThisSide, SideOf
<1>14. NeverOverfilled'
  <2>1. ASSUME NEW p \in Ids' PROVE /\ orders'[p].filled <= 10 * orders'[p].lots
                                    /\ orders'[p].status = "filled" => orders'[p].filled = 10 * orders'[p].lots
    <3>1. CASE p = o
      BY <1>3, <1>4, <3>1
    <3>2. CASE p # o
      BY <1>1, <1>4, <3>2 DEF NeverOverfilled
    <3>3. QED
      BY <3>1, <3>2
  <2>2. QED
    BY <2>1 DEF NeverOverfilled
<1>15. QED
  BY <1>10, <1>11, <1>12, <1>13, <1>14 DEF EngineInv

LEMMA FillOrderKeeps ==
  ASSUME EngineInv, NEW o \in Ids, FillOrder(o) PROVE EngineInv'
<1> DEFINE order == orders[o]
           book == IF shelf["any"] = NoBook THEN DefaultBook(order.symbol) ELSE shelf["any"]
           filled == FillOf(order.lots, book.depth, 2)
           stat == IF filled = 0 THEN "rejected" ELSE IF order.lots > book.depth THEN "filled" ELSE "partial"
<1>1. EngineTyped /\ order \in OrderRecord
  BY OrdersShape DEF EngineInv
<1>2. order.symbol \in Markets /\ order.lots \in {1, 2}
  BY <1>1 DEF OrderRecord
<1>3. book \in BookRecord
  <2>1. DefaultBook(order.symbol) \in BookRecord
    BY <1>2 DEF DefaultBook, BookRecord
  <2>2. shelf["any"] \in BookRecord
    BY <1>1 DEF EngineTyped
  <2>3. QED
    BY <2>1, <2>2
<1>4. /\ Mode = "SIM" /\ Answered(o, book, filled, stat)
      /\ IF filled = 0 THEN UNCHANGED <<held, entryOf, heard>>
         ELSE UpdatePosition(o, order.symbol, order.side * filled) /\ EmitFill(o)
  BY DEF FillOrder
<1>5. book.depth \in Int
  BY <1>3 DEF BookRecord
<1>6. stat \in {"rejected", "filled", "partial"}
  OBVIOUS
<1>7. /\ filled \in 0 .. 10 * order.lots
      /\ book.depth > 0 /\ Asked(order.lots, 2) > 10 * book.depth => filled = 10 * order.lots
  <2> HIDE DEF book, order
  <2>1. QED
    BY <1>2, <1>5, OrderFits
<1>8. stat = "filled" => filled = 10 * order.lots
  <2>1. SUFFICES ASSUME stat = "filled" PROVE filled = 10 * order.lots
    OBVIOUS
  <2>2. filled # 0 /\ order.lots > book.depth
    BY <2>1
  <2>3. book.depth > 0
    <3>1. book.depth <= 0 => filled = 0
      BY DEF FillOf
    <3> HIDE DEF filled
    <3>2. QED
      BY <1>5, <2>2, <3>1
  <2>4. Asked(order.lots, 2) > 10 * book.depth
    <3> HIDE DEF order, book
    <3>1. QED
      BY <1>2, <1>5, <2>2 DEF Asked
  <2>5. QED
    BY <1>7, <2>3, <2>4
<1>9. Mode # "LIVE" /\ Mode # "PAPER"
  BY <1>4
<1> HIDE DEF book, filled, stat
<1>10. QED
  BY <1>3, <1>4, <1>6, <1>7, <1>8, <1>9, AnsweredKeeps

LEMMA FillPaperOrderKeeps ==
  ASSUME EngineInv, NEW o \in Ids, NEW cut \in {1, 2}, FillPaperOrder(o, cut) PROVE EngineInv'
<1> DEFINE order == orders[o]
           book == order.book
           filled == FillOf(order.lots, book.depth, cut)
           stat == IF filled = 0 THEN "rejected" ELSE IF Asked(order.lots, cut) > 10 * book.depth THEN "filled" ELSE "partial"
<1>1. EngineTyped /\ order \in OrderRecord /\ OrdersOpen
  BY OrdersShape DEF EngineInv
<1>2. order.symbol \in Markets /\ order.lots \in {1, 2} /\ book \in BookRecord
  BY <1>1 DEF OrderRecord
<1>3. /\ Mode = "PAPER" /\ Answered(o, book, filled, stat)
      /\ IF filled = 0 THEN UNCHANGED <<held, entryOf, heard>>
         ELSE UpdatePosition(o, order.symbol, order.side * filled) /\ EmitFill(o)
  BY DEF FillPaperOrder, UpdatePaperPosition
<1>4. book.depth \in Int
  BY <1>2 DEF BookRecord
<1>5. stat \in {"rejected", "filled", "partial"}
  OBVIOUS
<1>6. book.symbol = order.symbol
  <2>1. order.status = "submitted"
    BY <1>3 DEF Answered
  <2>2. QED
    BY <1>1, <1>3, <2>1 DEF OrdersOpen
<1>7. /\ filled \in 0 .. 10 * order.lots
      /\ book.depth > 0 /\ Asked(order.lots, cut) > 10 * book.depth => filled = 10 * order.lots
  <2> HIDE DEF book, order
  <2>1. QED
    BY <1>2, <1>4, OrderFits
<1>8. stat = "filled" => filled = 10 * order.lots
  <2>1. SUFFICES ASSUME stat = "filled" PROVE filled = 10 * order.lots
    OBVIOUS
  <2>2. filled # 0 /\ Asked(order.lots, cut) > 10 * book.depth
    BY <2>1
  <2>3. book.depth > 0
    <3>1. book.depth <= 0 => filled = 0
      BY DEF FillOf
    <3> HIDE DEF filled
    <3>2. QED
      BY <1>4, <2>2, <3>1
  <2>4. QED
    BY <1>7, <2>2, <2>3
<1>9. Mode # "LIVE"
  BY <1>3
<1> HIDE DEF book, filled, stat
<1>10. QED
  BY <1>2, <1>3, <1>5, <1>6, <1>7, <1>8, <1>9, AnsweredKeeps

LEMMA SendToExchangeKeeps ==
  ASSUME EngineInv, NEW o \in Ids, SendToExchange(o) PROVE EngineInv'
<1> DEFINE sentLots == 10 * orders[o].lots
<1>1. /\ EngineTyped /\ OrdersOpen /\ EntryIsOfThisSide /\ NeverOverfilled
      /\ orders[o] \in OrderRecord
  BY OrdersShape DEF EngineInv
<1>2. sentLots \in Nat
  BY <1>1 DEF OrderRecord
<1>3. Mode = "LIVE" /\ Answered(o, NoBook, sentLots, "sent") /\ UNCHANGED <<held, entryOf, heard>>
  BY DEF SendToExchange
<1>4. /\ orders' \in Seq(OrderRecord) /\ Ids' = Ids
      /\ \A p \in Ids : p # o => orders'[p] = orders[p]
      /\ orders'[o].symbol = orders[o].symbol /\ orders'[o].side = orders[o].side
      /\ orders'[o].lots = orders[o].lots /\ orders'[o].filled = sentLots /\ orders'[o].status = "sent"
      /\ UNCHANGED <<engine, engineUp, shelf>> /\ Mode' = Mode
  <2> HIDE DEF sentLots
  <2>1. QED
    BY <1>1, <1>2, <1>3, NoBookIsBook, AnsweredShape DEF Mode
<1>5. EngineTyped'
  BY <1>1, <1>3, <1>4 DEF EngineTyped
<1>6. OrdersOpen'
  BY <1>1, <1>3, <1>4 DEF OrdersOpen
<1>7. HeldIsReported'
  BY <1>3, <1>4 DEF HeldIsReported
<1>8. EntryIsOfThisSide'
  <2>1. ASSUME NEW t \in Markets, held[t] # 0, NEW p \in entryOf[t]
        PROVE  orders'[p].side = SideOf(held[t]) /\ orders'[p].symbol = t
    <3>1. p \in Ids
      BY <1>1 DEF EngineTyped
    <3>2. orders[p].side = SideOf(held[t]) /\ orders[p].symbol = t
      BY <1>1, <2>1 DEF EntryIsOfThisSide
    <3>3. QED
      BY <1>4, <3>1, <3>2
  <2>2. \A t \in Markets : held[t] # 0 => entryOf[t] # {}
    BY <1>1 DEF EntryIsOfThisSide
  <2>3. held' = held /\ entryOf' = entryOf
    BY <1>3
  <2>4. QED
    BY <2>1, <2>2, <2>3 DEF EntryIsOfThisSide, SideOf
<1>9. NeverOverfilled'
  <2>1. ASSUME NEW p \in Ids' PROVE /\ orders'[p].filled <= 10 * orders'[p].lots
                                    /\ orders'[p].status = "filled" => orders'[p].filled = 10 * orders'[p].lots
    <3>1. CASE p = o
      BY <1>1, <1>2, <1>4, <3>1
    <3>2. CASE p # o
      BY <1>1, <1>4, <3>2 DEF NeverOverfilled
    <3>3. QED
      BY <3>1, <3>2
  <2>2. QED
    BY <2>1 DEF NeverOverfilled
<1>10. QED
  BY <1>5, <1>6, <1>7, <1>8, <1>9 DEF EngineInv

LEMMA EngineStep == ASSUME EngineInv, [EngineNext]_engineVars PROVE EngineInv'
<1>1. EngineTyped /\ OrdersOpen /\ HeldIsReported /\ EntryIsOfThisSide /\ NeverOverfilled
  BY DEF EngineInv
<1>2. CASE UNCHANGED <<engine, orders, held, entryOf, heard, shelf>> /\ engineUp' \in BOOLEAN
  <2>1. EngineTyped'
    BY <1>1, <1>2 DEF EngineTyped, Ids
  <2>2. OrdersOpen' /\ NeverOverfilled' /\ EntryIsOfThisSide'
    BY <1>1, <1>2 DEF OrdersOpen, NeverOverfilled, EntryIsOfThisSide, Ids, Mode
  <2>3. HeldIsReported'
    BY <1>1, <1>2 DEF HeldIsReported, Ids, Mode
  <2>4. QED
    BY <2>1, <2>2, <2>3 DEF EngineInv
<1>3. ASSUME NEW s \in Markets, NEW d \in Depths, SetBook(s, d) PROVE EngineInv'
  <2> DEFINE book == [symbol |-> s, depth |-> d]
  <2>1. shelf' = [shelf EXCEPT ![Slot(s)] = book] /\ UNCHANGED <<engine, engineUp, orders, held, entryOf, heard>>
    BY <1>3 DEF SetBook
  <2>2. d \in Int
    BY EngineAssumption
  <2>3. book \in BookRecord /\ book.symbol = s
    BY <2>2 DEF BookRecord
  <2> HIDE DEF book
  <2>4. Slot(s) \in Markets \cup {"any"} /\ (Mode = "PAPER" => Slot(s) = s)
    BY DEF Slot
  <2>5. shelf' \in [Markets \cup {"any"} -> BookRecord]
    BY <1>1, <2>1, <2>3 DEF EngineTyped
  <2>6. EngineTyped'
    BY <1>1, <2>1, <2>5 DEF EngineTyped, Ids
  <2>7. Mode = "PAPER" => \A t \in Markets : shelf'[t] = NoBook \/ shelf'[t].symbol = t
    BY <1>1, <2>1, <2>3, <2>4 DEF OrdersOpen, EngineTyped
  <2>8. OrdersOpen'
    BY <1>1, <2>1, <2>7 DEF OrdersOpen, Ids, Mode
  <2>9. NeverOverfilled' /\ EntryIsOfThisSide'
    BY <1>1, <2>1 DEF NeverOverfilled, EntryIsOfThisSide, Ids
  <2>10. HeldIsReported'
    BY <1>1, <2>1 DEF HeldIsReported, Ids, Mode
  <2>11. QED
    BY <2>6, <2>8, <2>9, <2>10 DEF EngineInv
<1>4. ASSUME NEW s \in Markets, NEW side \in {1, -1}, NEW lots \in {1, 2}, SubmitOrder(s, side, lots) PROVE EngineInv'
  <2>1. Mode # "PAPER" /\ Submitted(s, side, lots, NoBook, ~engineUp) /\ (~engineUp) \in BOOLEAN
    BY <1>4 DEF SubmitOrder
  <2>2. QED
    BY <2>1, NoBookIsBook, SubmittedKeeps
<1>5. ASSUME NEW s \in Markets, NEW side \in {1, -1}, NEW lots \in {1, 2}, SubmitPaperOrder(s, side, lots) PROVE EngineInv'
  <2> DEFINE refused == ~engineUp \/ shelf[s] = NoBook
  <2>1. Mode = "PAPER" /\ Submitted(s, side, lots, shelf[s], refused) /\ refused \in BOOLEAN
    BY <1>5 DEF SubmitPaperOrder
  <2>2. shelf[s] \in BookRecord
    BY <1>1 DEF EngineTyped
  <2>3. ~ refused => shelf[s].symbol = s
    BY <1>1, <2>1 DEF OrdersOpen
  <2> HIDE DEF refused
  <2>4. QED
    BY <2>1, <2>2, <2>3, SubmittedKeeps
<1>6. EngineConnect \/ EngineDisconnect \/ UNCHANGED engineVars =>
        UNCHANGED <<engine, orders, held, entryOf, heard, shelf>> /\ engineUp' \in BOOLEAN
  BY <1>1 DEF EngineConnect, EngineDisconnect, engineVars, EngineTyped
<1>7. QED
  BY <1>2, <1>3, <1>4, <1>5, <1>6, FillOrderKeeps, FillPaperOrderKeeps, SendToExchangeKeeps DEF EngineNext

LEMMA EngineHolds == ASSUME EngineInv
  PROVE  EngineTypeOK /\ HeldIsReported /\ EntryIsOfThisSide /\ OwnBook /\ NeverOverfilled
BY DEF EngineInv, EngineTypeOK, EngineTyped, OrdersOpen, OwnBook
\* The places among the first n of a queue that hold events of a type.
OfType(q, type, n) == {i \in 1 .. n : q[i].type = type}

LEMMA OfTypeFinite ==
  ASSUME NEW q, NEW type, NEW n \in Nat
  PROVE  IsFiniteSet(OfType(q, type, n)) /\ Cardinality(OfType(q, type, n)) \in Nat
<1>1. OfType(q, type, n) \in SUBSET (1 .. n) /\ IsFiniteSet(1 .. n)
  BY UpToN DEF OfType
<1>2. IsFiniteSet(OfType(q, type, n))
  BY <1>1, FS_Subset
<1>3. QED
  BY <1>2, FS_CardinalityType

LEMMA OfTypeAppend ==
  ASSUME NEW S, NEW q \in Seq(S), NEW e \in S, NEW type
  PROVE  /\ \A n \in 0 .. Len(q) : OfType(Append(q, e), type, n) = OfType(q, type, n)
         /\ Len(q) + 1 \notin OfType(q, type, Len(q))
         /\ OfType(Append(q, e), type, Len(q) + 1) =
              OfType(q, type, Len(q)) \cup (IF e.type = type THEN {Len(q) + 1} ELSE {})
         /\ Cardinality(OfType(Append(q, e), type, Len(q) + 1)) =
              Cardinality(OfType(q, type, Len(q))) + (IF e.type = type THEN 1 ELSE 0)
<1> DEFINE longer == Append(q, e)
           m == Len(q) + 1
<1>1. Len(q) \in Nat /\ longer[m] = e /\ \A i \in 1 .. Len(q) : longer[i] = q[i]
  OBVIOUS
<1> HIDE DEF longer
<1>2. \A n \in 0 .. Len(q) : OfType(longer, type, n) = OfType(q, type, n)
  BY <1>1 DEF OfType
<1>3. m \notin OfType(q, type, Len(q))
  BY <1>1 DEF OfType
<1>4. OfType(longer, type, m) = OfType(q, type, Len(q)) \cup (IF e.type = type THEN {m} ELSE {})
  <2>1. \A i : i \in 1 .. m <=> i \in 1 .. Len(q) \/ i = m
    BY <1>1
  <2> HIDE DEF m
  <2>2. QED
    BY <1>1, <2>1 DEF OfType
<1>5. IsFiniteSet(OfType(q, type, Len(q))) /\ Cardinality(OfType(q, type, Len(q))) \in Nat
  BY <1>1, OfTypeFinite
<1> HIDE DEF m
<1>6. Cardinality(OfType(longer, type, m)) = Cardinality(OfType(q, type, Len(q))) + (IF e.type = type THEN 1 ELSE 0)
  <2>1. CASE e.type = type
    BY <1>3, <1>4, <1>5, <2>1, FS_AddElement
  <2>2. CASE e.type # type
    BY <1>4, <1>5, <2>2
  <2>3. QED
    BY <2>1, <2>2
<1>7. QED
  BY <1>2, <1>3, <1>4, <1>6 DEF longer, m

LEMMA OfTypeTail ==
  ASSUME NEW S, NEW q \in Seq(S), q # <<>>, NEW type, NEW n \in 0 .. Len(q) - 1
  PROVE  /\ \A i \in Int : i \in OfType(Tail(q), type, n) <=> i + 1 \in OfType(q, type, n + 1) \ {1}
         /\ 1 \in OfType(q, type, n + 1) <=> Head(q).type = type
         /\ Cardinality(OfType(q, type, n + 1)) =
              Cardinality(OfType(Tail(q), type, n)) + (IF Head(q).type = type THEN 1 ELSE 0)
<1> DEFINE rest == Tail(q)
           T == OfType(rest, type, n)
           U == OfType(q, type, n + 1)
<1>1. /\ Len(q) \in Nat \ {0} /\ n \in Nat /\ n + 1 \in 1 .. Len(q)
      /\ Len(rest) = Len(q) - 1 /\ \A i \in 1 .. Len(rest) : rest[i] = q[i + 1]
      /\ Head(q) = q[1]
  OBVIOUS
<1> HIDE DEF rest
<1>2. \A i \in Int : i \in T <=> i + 1 \in U \ {1}
  <2>1. TAKE i \in Int
  <2>2. i \in 1 .. n <=> i + 1 \in 1 .. (n + 1) /\ i + 1 # 1
    BY <1>1
  <2>3. i \in 1 .. n => rest[i] = q[i + 1]
    BY <1>1
  <2>4. QED
    BY <2>2, <2>3 DEF OfType
<1>3. 1 \in U <=> Head(q).type = type
  BY <1>1 DEF OfType
<1>4. T \in SUBSET Int /\ U \in SUBSET Int /\ IsFiniteSet(U) /\ Cardinality(U) \in Nat /\ Cardinality(T) \in Nat
  <2>1. n + 1 \in Nat
    BY <1>1
  <2>2. IsFiniteSet(U) /\ Cardinality(U) \in Nat /\ Cardinality(T) \in Nat
    BY <1>1, <2>1, OfTypeFinite
  <2>3. T \in SUBSET Int /\ U \in SUBSET Int
    BY <1>1, <2>1 DEF OfType
  <2>4. QED
    BY <2>2, <2>3
<1>5. Cardinality(T) = Cardinality(U \ {1}) /\ IsFiniteSet(U \ {1})
  <2>1. U \ {1} \in SUBSET Int /\ IsFiniteSet(U \ {1})
    BY <1>4, FS_RemoveElement
  <2> HIDE DEF T, U
  <2>2. QED
    BY <1>2, <1>4, <2>1, Shifted
<1>6. Cardinality(U \ {1}) = IF 1 \in U THEN Cardinality(U) - 1 ELSE Cardinality(U)
  BY <1>4, FS_RemoveElement
<1>7. Cardinality(U) = Cardinality(T) + (IF Head(q).type = type THEN 1 ELSE 0)
  <2> HIDE DEF T, U
  <2>1. QED
    BY <1>3, <1>4, <1>5, <1>6
<1>8. QED
  BY <1>2, <1>3, <1>7 DEF rest

\* A sum over a sequence with one more number.
LEMMA SumAppended ==
  ASSUME NEW s \in Seq(Int), NEW v \in Int
  PROVE  Total(Append(s, v)) = Total(s) + v /\ Total(s) \in Int
<1> DEFINE longer == Append(s, v)
           n == Len(s) + 1
           D == 1 .. Len(s)
<1>1. /\ Len(s) \in Nat /\ DOMAIN s = D /\ DOMAIN longer = D \cup {n} /\ n \notin D /\ longer[n] = v
      /\ \A i \in D : longer[i] = s[i] /\ s[i] \in Int
  <2>1. 1 .. n = D \cup {n} /\ DOMAIN longer = 1 .. n
    OBVIOUS
  <2>2. QED
    BY <2>1
<1>2. IsFiniteSet(D) /\ IsFiniteSet(D \cup {n}) /\ (D \cup {n}) \ {n} = D
  <2>1. IsFiniteSet(D)
    BY <1>1, UpToN
  <2> HIDE DEF D, n
  <2>2. QED
    BY <1>1, <2>1, FS_AddElement
<1>3. Total(longer) = SumFunctionOnSet(longer, D \cup {n}) /\ Total(s) = SumFunctionOnSet(s, D)
  BY <1>1 DEF Total, SumFunction
<1> HIDE DEF longer, D, n
<1>4. \A i \in D \cup {n} : longer[i] \in Int
  BY <1>1
<1>5. SumFunctionOnSet(longer, D \cup {n}) = longer[n] + SumFunctionOnSet(longer, (D \cup {n}) \ {n})
  <2>1. n \in D \cup {n}
    OBVIOUS
  <2>2. QED
    BY <1>2, <1>4, <2>1, SumWithout
<1>6. SumFunctionOnSet(longer, D) = SumFunctionOnSet(s, D) /\ SumFunctionOnSet(s, D) \in Int
  BY <1>1, <1>2, SumSame, SumType
<1>7. Total(longer) = v + Total(s)
  BY <1>1, <1>2, <1>3, <1>5, <1>6
<1>8. QED
  BY <1>3, <1>6, <1>7 DEF longer

Lot == {1, -1, 2}
PortfolioEvent == [type : {"filled"}, lots : Lot] \cup [type : {"reconciled", "other"}]
RiskEvent == [type : {"decision"}]

LotsIn(q) == [i \in DOMAIN q |-> q[i].lots]
WaitingLots(q) == SumFunctionOnSet(LotsIn(q), OfType(q, "filled", Len(q)))

\* While the fills are of one side, and no reconciliation was triggered.
OneSided == (\A lots \in ToSet(handed) : lots > 0) /\ triggered = 0

OrderTyped ==
  /\ day \in Days /\ stored \in Nat /\ taken \in Nat /\ triggered \in Nat /\ riskKnows = 0
  /\ executed \in Seq(Lot) /\ handed \in Seq(Lot) /\ booked \in Seq(Lot) /\ positions \in Int
  /\ toPortfolio \in Seq(PortfolioEvent) /\ toRisk \in Seq(RiskEvent)
  /\ compared \in [internal : Int, executor : Int, matched : BOOLEAN]
  /\ Len(executed) <= day.fills /\ calling \in 0 .. 2 /\ (executed = <<>> => calling = 0)
  /\ handling \in {"no", "position", "portfolio"} /\ unsaved \in BOOLEAN

\* What waits was handed over, and what is booked is all there is to the position.
Fills ==
  /\ \A i \in DOMAIN toPortfolio : toPortfolio[i].type = "filled" => toPortfolio[i].lots \in ToSet(handed)
  /\ triggered = 0 => \A i \in DOMAIN toPortfolio : toPortfolio[i].type # "reconciled"
  /\ OneSided => positions >= 0
  /\ Magnitude(positions) <= 2 * Len(booked)

OrderInv == OrderTyped /\ Fills /\ OneSidedIsBooked /\ RiskIsBehind

LEMMA PortfolioEventShape ==
  ASSUME NEW e \in PortfolioEvent
  PROVE  e.type \in {"filled", "reconciled", "other"} /\ (e.type = "filled" => e.lots \in Lot)
<1>1. CASE e \in [type : {"filled"}, lots : Lot]
  BY <1>1
<1>2. CASE e \in [type : {"reconciled", "other"}]
  BY <1>2
<1>3. QED
  BY <1>1, <1>2 DEF PortfolioEvent

LEMMA WaitingType ==
  ASSUME NEW q \in Seq(PortfolioEvent)
  PROVE  /\ WaitingLots(q) \in Int
         /\ \A i \in OfType(q, "filled", Len(q)) : LotsIn(q)[i] \in Int
<1>1. Len(q) \in Nat /\ DOMAIN q = 1 .. Len(q) /\ \A i \in 1 .. Len(q) : q[i] \in PortfolioEvent
  OBVIOUS
<1>2. ASSUME NEW i \in OfType(q, "filled", Len(q)) PROVE LotsIn(q)[i] \in Int
  <2>1. i \in 1 .. Len(q) /\ q[i].type = "filled" /\ q[i] \in PortfolioEvent
    BY <1>1 DEF OfType
  <2>2. q[i].lots \in Lot
    BY <2>1, PortfolioEventShape
  <2>3. QED
    BY <1>1, <2>1, <2>2 DEF LotsIn, Lot
<1>3. IsFiniteSet(OfType(q, "filled", Len(q)))
  BY <1>1, OfTypeFinite
<1>4. QED
  BY <1>2, <1>3, SumType DEF WaitingLots

LEMMA WaitingAppend ==
  ASSUME NEW q \in Seq(PortfolioEvent), NEW e \in PortfolioEvent
  PROVE  WaitingLots(Append(q, e)) = WaitingLots(q) + (IF e.type = "filled" THEN e.lots ELSE 0)
<1> DEFINE longer == Append(q, e)
           n == Len(q) + 1
           S == OfType(q, "filled", Len(q))
           T == OfType(longer, "filled", n)
<1>1. /\ longer \in Seq(PortfolioEvent) /\ Len(longer) = n /\ Len(q) \in Nat
      /\ DOMAIN longer = 1 .. n /\ DOMAIN q = 1 .. Len(q)
      /\ longer[n] = e /\ \A i \in 1 .. Len(q) : longer[i] = q[i]
  OBVIOUS
<1>2. n \notin S /\ T = S \cup (IF e.type = "filled" THEN {n} ELSE {}) /\ S \subseteq 1 .. Len(q)
  BY OfTypeAppend DEF OfType
<1> HIDE DEF longer
<1>3. /\ IsFiniteSet(S) /\ IsFiniteSet(T)
      /\ \A i \in T : LotsIn(longer)[i] \in Int
  <2>1. n \in Nat
    BY <1>1
  <2>2. IsFiniteSet(S) /\ IsFiniteSet(T)
    BY <1>1, <2>1, OfTypeFinite
  <2>3. \A i \in OfType(longer, "filled", Len(longer)) : LotsIn(longer)[i] \in Int
    BY <1>1, WaitingType
  <2>4. QED
    BY <1>1, <2>2, <2>3
<1>4. SumFunctionOnSet(LotsIn(longer), S) = WaitingLots(q)
  <2>1. \A i \in S : LotsIn(longer)[i] = LotsIn(q)[i]
    BY <1>1, <1>2 DEF LotsIn
  <2> HIDE DEF S
  <2>2. SumFunctionOnSet(LotsIn(longer), S) = SumFunctionOnSet(LotsIn(q), S)
    BY <1>3, <2>1, SumSame
  <2>3. QED
    BY <2>2 DEF WaitingLots, S
<1>5. WaitingLots(longer) = SumFunctionOnSet(LotsIn(longer), T)
  BY <1>1 DEF WaitingLots
<1>6. LotsIn(longer)[n] = e.lots
  BY <1>1 DEF LotsIn
<1>7. WaitingLots(q) \in Int
  BY WaitingType
<1> HIDE DEF n, S, T
<1>8. CASE e.type = "filled"
  <2>1. T \ {n} = S /\ n \in T
    BY <1>2, <1>8
  <2>2. SumFunctionOnSet(LotsIn(longer), T) = LotsIn(longer)[n] + SumFunctionOnSet(LotsIn(longer), T \ {n})
    BY <1>3, <2>1, SumWithout
  <2>3. SumFunctionOnSet(LotsIn(longer), T) = e.lots + WaitingLots(q)
    BY <1>4, <1>6, <2>1, <2>2, Zenon
  <2>4. e.lots \in Int
    BY <1>3, <1>6, <2>1
  <2>5. QED
    BY <1>5, <1>7, <1>8, <2>3, <2>4 DEF longer
<1>9. CASE e.type # "filled"
  BY <1>2, <1>4, <1>5, <1>7, <1>9 DEF longer
<1>10. QED
  BY <1>8, <1>9

LEMMA WaitingTail ==
  ASSUME NEW q \in Seq(PortfolioEvent), q # <<>>
  PROVE  /\ WaitingLots(q) = WaitingLots(Tail(q)) + (IF Head(q).type = "filled" THEN Head(q).lots ELSE 0)
         /\ WaitingLots(Tail(q)) \in Int
<1> DEFINE rest == Tail(q)
           n == Len(q) - 1
           T == OfType(rest, "filled", n)
           U == OfType(q, "filled", n + 1)
<1>1. /\ Len(q) \in Nat \ {0} /\ n \in Nat /\ n + 1 = Len(q) /\ n \in 0 .. Len(q) - 1
      /\ rest \in Seq(PortfolioEvent) /\ Len(rest) = n /\ DOMAIN rest = 1 .. n /\ DOMAIN q = 1 .. Len(q)
      /\ Head(q) = q[1] /\ \A i \in 1 .. n : rest[i] = q[i + 1] /\ i + 1 \in 1 .. Len(q)
  OBVIOUS
<1>2. /\ \A i \in Int : i \in T <=> i + 1 \in U \ {1}
      /\ 1 \in U <=> Head(q).type = "filled"
  <2> HIDE DEF n
  <2>1. /\ \A i \in Int : i \in OfType(Tail(q), "filled", n) <=> i + 1 \in OfType(q, "filled", n + 1) \ {1}
        /\ 1 \in OfType(q, "filled", n + 1) <=> Head(q).type = "filled"
    <3>1. q \in Seq(PortfolioEvent) /\ q # <<>> /\ n \in 0 .. Len(q) - 1
      BY <1>1
    <3>2. \A i \in Int : i \in OfType(Tail(q), "filled", n) <=> i + 1 \in OfType(q, "filled", n + 1) \ {1}
      BY <3>1, OfTypeTail
    <3>3. 1 \in OfType(q, "filled", n + 1) <=> Head(q).type = "filled"
      <4>1. 1 \in 1 .. n + 1 /\ Head(q) = q[1]
        BY <1>1
      <4>2. QED
        BY <4>1 DEF OfType
    <3>4. QED
      BY <3>2, <3>3
  <2>2. QED
    BY <2>1
<1> HIDE DEF rest, n
<1>3. /\ IsFiniteSet(U) /\ IsFiniteSet(U \ {1}) /\ T \in SUBSET Int /\ U \ {1} \in SUBSET Int /\ T \subseteq 1 .. n
      /\ \A i \in U : LotsIn(q)[i] \in Int
      /\ \A i \in T : LotsIn(rest)[i] \in Int
  <2>1. IsFiniteSet(U) /\ IsFiniteSet(U \ {1})
    <3>1. IsFiniteSet(U)
      BY <1>1, OfTypeFinite
    <3>2. QED
      BY <3>1, FS_RemoveElement
  <2>2. T \in SUBSET Int /\ U \ {1} \in SUBSET Int /\ T \subseteq 1 .. n
    BY <1>1 DEF OfType
  <2>3. \A i \in OfType(q, "filled", Len(q)) : LotsIn(q)[i] \in Int
    BY WaitingType
  <2>4. \A i \in OfType(rest, "filled", Len(rest)) : LotsIn(rest)[i] \in Int
    BY <1>1, WaitingType
  <2>5. QED
    BY <1>1, <2>1, <2>2, <2>3, <2>4
<1>4. WaitingLots(q) = SumFunctionOnSet(LotsIn(q), U) /\ WaitingLots(rest) = SumFunctionOnSet(LotsIn(rest), T)
  BY <1>1 DEF WaitingLots
<1>5. SumFunctionOnSet(LotsIn(rest), T) = SumFunctionOnSet(LotsIn(q), U \ {1})
  <2>1. \A i \in T : LotsIn(rest)[i] = LotsIn(q)[i + 1]
    BY <1>1, <1>3 DEF LotsIn
  <2> HIDE DEF T, U
  <2>2. \A i \in T : LotsIn(rest)[i] \in Int /\ LotsIn(rest)[i] = LotsIn(q)[i + 1]
    BY <1>3, <2>1, Zenon
  <2>3. U \ {1} \in SUBSET Int /\ IsFiniteSet(U \ {1}) /\ T \in SUBSET Int
    BY <1>3, Zenon
  <2>4. \A i \in Int : i \in T <=> i + 1 \in U \ {1}
    BY <1>2, Zenon
  <2> DEFINE W == U \ {1}
             f == LotsIn(q)
             g == LotsIn(rest)
  <2>5. /\ W \in SUBSET Int /\ IsFiniteSet(W) /\ T \in SUBSET Int /\ (\A i \in Int : i \in T <=> i + 1 \in W)
        /\ \A i \in T : g[i] \in Int /\ g[i] = f[i + 1]
    BY <2>2, <2>3, <2>4
  <2> HIDE DEF W, f, g
  <2>6. SumFunctionOnSet(g, T) = SumFunctionOnSet(f, W)
    BY <2>5, SumShifted
  <2>7. QED
    BY <2>6 DEF W, f, g
<1>6. LotsIn(q)[1] = Head(q).lots
  BY <1>1 DEF LotsIn
<1>7. WaitingLots(rest) \in Int
  BY <1>1, WaitingType
<1> HIDE DEF T, U
<1>8. CASE Head(q).type = "filled"
  <2>1. SumFunctionOnSet(LotsIn(q), U) = LotsIn(q)[1] + SumFunctionOnSet(LotsIn(q), U \ {1})
    BY <1>2, <1>3, <1>8, SumWithout
  <2>2. WaitingLots(q) = Head(q).lots + WaitingLots(rest)
    BY <1>4, <1>5, <1>6, <2>1, Zenon
  <2>3. Head(q).lots \in Int
    BY <1>2, <1>3, <1>6, <1>8
  <2>4. QED
    BY <1>7, <1>8, <2>2, <2>3 DEF rest
<1>9. CASE Head(q).type # "filled"
  <2>1. U \ {1} = U
    BY <1>2, <1>9
  <2>2. WaitingLots(q) = WaitingLots(rest)
    BY <1>4, <1>5, <2>1
  <2>3. QED
    BY <1>7, <1>9, <2>2 DEF rest
<1>10. QED
  BY <1>8, <1>9

\* The property, in these words.
LEMMA WaitingIs ==
  ASSUME NEW q \in Seq(PortfolioEvent)
  PROVE  LET waiting == {i \in DOMAIN q : q[i].type = "filled"} IN
         /\ waiting = OfType(q, "filled", Len(q))
         /\ Total([i \in waiting |-> q[i].lots]) = WaitingLots(q)
<1> DEFINE waiting == {i \in DOMAIN q : q[i].type = "filled"}
           S == OfType(q, "filled", Len(q))
           f == [i \in S |-> q[i].lots]
<1>1. waiting = S /\ DOMAIN q = 1 .. Len(q) /\ Len(q) \in Nat
  BY DEF OfType
<1>2. Total(f) = WaitingLots(q)
  <2>1. Total(f) = SumFunctionOnSet(f, S)
    BY DEF Total, SumFunction
  <2>2. \A i \in S : f[i] = LotsIn(q)[i]
    BY <1>1 DEF LotsIn, OfType
  <2>3. IsFiniteSet(S)
    BY <1>1, OfTypeFinite
  <2> HIDE DEF f, S
  <2>4. SumFunctionOnSet(f, S) = SumFunctionOnSet(LotsIn(q), S)
    BY <2>2, <2>3, SumSame
  <2>5. QED
    BY <2>1, <2>4 DEF WaitingLots, S
<1>3. QED
  BY <1>1, <1>2

\* What a write of portfolio:global leaves behind, and nothing for the RiskProcessor.
LEMMA RiskStays ==
  ASSUME OrderTyped, RiskIsBehind, UNCHANGED <<day, riskKnows>>, toRisk' \in Seq(RiskEvent),
         \/ UNCHANGED <<taken, stored>> /\ (handling # "no" \/ unsaved => handling' # "no" \/ unsaved')
         \/ day.state => stored' = taken'
         \/ stored' = stored /\ taken' = taken + 1 /\ handling' # "no"
  PROVE  RiskIsBehind'
<1>1. \A i \in DOMAIN toRisk' : toRisk'[i].type # "portfolio"
  <2>1. \A e \in RiskEvent : e.type = "decision"
    BY DEF RiskEvent
  <2>2. \A i \in DOMAIN toRisk' : toRisk'[i] \in RiskEvent
    OBVIOUS
  <2>3. QED
    BY <2>1, <2>2
<1>2. stored \in Nat /\ taken \in Nat /\ riskKnows' = 0
  BY DEF OrderTyped
<1>3. day'.state => stored' = taken' \/ (stored' < taken' /\ (handling' # "no" \/ unsaved'))
  BY <1>2 DEF RiskIsBehind
<1>4. QED
  BY <1>1, <1>2, <1>3 DEF RiskIsBehind

LEMMA LaterLots ==
  ASSUME NEW q \in Seq(Lot), NEW v \in Lot
  PROVE  /\ Append(q, v) \in Seq(Lot) /\ Len(Append(q, v)) = Len(q) + 1 /\ Len(q) \in Nat
         /\ ToSet(Append(q, v)) = ToSet(q) \cup {v}
         /\ Total(Append(q, v)) = Total(q) + v /\ Total(q) \in Int
<1> DEFINE longer == Append(q, v)
<1>1. /\ longer \in Seq(Lot) /\ Len(longer) = Len(q) + 1 /\ Len(q) \in Nat
      /\ DOMAIN q = 1 .. Len(q) /\ DOMAIN longer = 1 .. (Len(q) + 1)
      /\ longer[Len(q) + 1] = v /\ \A i \in 1 .. Len(q) : longer[i] = q[i]
  OBVIOUS
<1>2. \A i : i \in 1 .. (Len(q) + 1) <=> i \in 1 .. Len(q) \/ i = Len(q) + 1
  BY <1>1
<1>3. ToSet(longer) = ToSet(q) \cup {v}
  <2> HIDE DEF longer
  <2>1. \A x : x \in ToSet(longer) <=> x \in ToSet(q) \/ x = v
    BY <1>1, <1>2 DEF ToSet
  <2>2. QED
    BY <2>1
<1>4. q \in Seq(Int) /\ v \in Int
  <2>1. q \in [1 .. Len(q) -> Int]
    <3>1. \A i \in 1 .. Len(q) : q[i] \in Lot
      OBVIOUS
    <3>2. q = [i \in 1 .. Len(q) |-> q[i]]
      OBVIOUS
    <3>3. QED
      BY <3>1, <3>2 DEF Lot
  <2>2. QED
    BY <1>1, <2>1, SeqDef DEF Lot
<1>5. QED
  BY <1>1, <1>3, <1>4, SumAppended

LEMMA OrderInitial == OrderInit => OrderInv /\ MatchedIsEqual
<1> SUFFICES ASSUME OrderInit PROVE OrderInv /\ MatchedIsEqual
  OBVIOUS
<1>1. /\ day \in Days /\ executed = <<>> /\ handed = <<>> /\ booked = <<>> /\ positions = 0
      /\ calling = 0 /\ handling = "no" /\ taken = 0 /\ unsaved = FALSE
      /\ toPortfolio = <<>> /\ toRisk = <<>> /\ stored = 0 /\ riskKnows = 0 /\ triggered = 0
      /\ compared = [internal |-> 0, executor |-> 0, matched |-> TRUE]
  BY DEF OrderInit
<1>2. OrderTyped
  <2>1. Len(executed) <= day.fills
    BY <1>1, OrderAssumption
  <2>2. compared \in [internal : Int, executor : Int, matched : BOOLEAN]
    BY <1>1
  <2>3. /\ executed \in Seq(Lot) /\ handed \in Seq(Lot) /\ booked \in Seq(Lot)
        /\ toPortfolio \in Seq(PortfolioEvent) /\ toRisk \in Seq(RiskEvent)
    BY <1>1
  <2>4. stored \in Nat /\ taken \in Nat /\ triggered \in Nat /\ positions \in Int /\ calling \in 0 .. 2
    BY <1>1
  <2>5. QED
    BY <1>1, <2>1, <2>2, <2>3, <2>4 DEF OrderTyped
<1>3. \A type : OfType(<<>>, type, Len(<<>>)) = {} /\ Cardinality({}) = 0 /\ Len(<<>>) = 0 /\ DOMAIN <<>> = {}
  BY FS_EmptySet DEF OfType
<1>4. Fills
  BY <1>1, <1>3 DEF Fills, Magnitude
<1>5. OneSidedIsBooked
  <2>1. <<>> \in Seq(PortfolioEvent) /\ <<>> \in Seq(Lot)
    OBVIOUS
  <2>2. WaitingLots(<<>>) = 0
    <3>1. IsFiniteSet({}) /\ \A x \in {} : LotsIn(<<>>)[x] = 0
      BY FS_EmptySet
    <3>2. SumFunctionOnSet(LotsIn(<<>>), {}) = 0
      BY <3>1, SumOfZeros
    <3>3. QED
      BY <1>3, <3>2 DEF WaitingLots
  <2>3. Total(<<>>) = 0
    <3>1. IsFiniteSet({}) /\ \A x \in {} : <<>>[x] = 0
      BY FS_EmptySet
    <3>2. SumFunctionOnSet(<<>>, {}) = 0
      BY <3>1, SumOfZeros
    <3>3. QED
      BY <1>3, <3>2 DEF Total, SumFunction
  <2> DEFINE waiting == {i \in DOMAIN toPortfolio : toPortfolio[i].type = "filled"}
  <2>4. waiting = {} /\ Total([i \in waiting |-> toPortfolio[i].lots]) = 0
    BY <1>1, <1>3, <2>1, <2>2, WaitingIs
  <2>5. Len(booked) + Cardinality(waiting) = Len(handed)
    BY <1>1, <1>3, <2>4
  <2>6. positions + Total([i \in waiting |-> toPortfolio[i].lots]) = Total(handed)
    BY <1>1, <2>3, <2>4
  <2>7. Len(handed) + calling <= 2 * Len(executed)
    BY <1>1, <1>3
  <2> HIDE DEF waiting
  <2>8. QED
    BY <2>5, <2>6, <2>7 DEF OneSidedIsBooked, waiting
<1>6. RiskIsBehind
  BY <1>1, <1>3 DEF RiskIsBehind
<1>7. MatchedIsEqual
  BY <1>1 DEF MatchedIsEqual
<1>8. QED
  BY <1>2, <1>4, <1>5, <1>6, <1>7 DEF OrderInv

\* What is not of the queue of fills, and the bound on how often one is handed over.
LEMMA FilledKeeps ==
  ASSUME OrderInv, NEW lots \in Lot, FilledOutside(lots) PROVE OrderInv'
<1>1. OrderTyped /\ Fills /\ OneSidedIsBooked /\ RiskIsBehind
  BY DEF OrderInv
<1>2. /\ Len(executed) < day.fills /\ calling = 0 /\ executed' = Append(executed, lots) /\ calling' \in day.copies
      /\ UNCHANGED <<day, handed, toPortfolio, toRisk, handling, positions, booked, taken, stored, unsaved,
                     riskKnows, compared, triggered>>
  BY DEF FilledOutside, queues, books
<1>3. /\ executed \in Seq(Lot) /\ handed \in Seq(Lot) /\ day \in Days /\ toRisk \in Seq(RiskEvent)
  BY <1>1 DEF OrderTyped
<1>4. calling' \in 0 .. 2 /\ day.fills \in Nat
  BY <1>2, <1>3, OrderAssumption
<1>5. executed' \in Seq(Lot) /\ Len(executed') = Len(executed) + 1 /\ Len(executed) \in Nat /\ executed' # <<>>
  BY <1>2, <1>3
<1>6. OrderTyped'
  BY <1>1, <1>2, <1>4, <1>5 DEF OrderTyped
<1>7. Fills'
  BY <1>1, <1>2 DEF Fills, OneSided
<1>8. OneSidedIsBooked'
  <2>1. Len(handed) + calling <= 2 * Len(executed) /\ Len(handed) \in Nat
    BY <1>1, <1>3 DEF OneSidedIsBooked
  <2>2. Len(handed') + calling' <= 2 * Len(executed')
    BY <1>2, <1>4, <1>5, <2>1
  <2>3. QED
    BY <1>1, <1>2, <2>2 DEF OneSidedIsBooked
<1>9. RiskIsBehind'
  BY <1>1, <1>2, <1>3, RiskStays
<1>10. QED
  BY <1>6, <1>7, <1>8, <1>9 DEF OrderInv

LEMMA HandedKeeps ==
  ASSUME OrderInv, HandleFill PROVE OrderInv'
<1> DEFINE lots == Last(executed)
           e == [type |-> "filled", lots |-> lots]
           n == Len(toPortfolio) + 1
           W == {i \in DOMAIN toPortfolio : toPortfolio[i].type = "filled"}
           V == {i \in DOMAIN toPortfolio' : toPortfolio'[i].type = "filled"}
<1>1. OrderTyped /\ Fills /\ OneSidedIsBooked /\ RiskIsBehind
  BY DEF OrderInv
<1>2. /\ calling > 0 /\ calling' = calling - 1 /\ handed' = Append(handed, lots)
      /\ toPortfolio' = Append(toPortfolio, e)
      /\ UNCHANGED <<day, executed, toRisk, handling, positions, booked, taken, stored, unsaved,
                     riskKnows, compared, triggered>>
  BY DEF HandleFill, books, Receive, HasSymbol
<1>3. /\ toPortfolio \in Seq(PortfolioEvent) /\ handed \in Seq(Lot) /\ executed \in Seq(Lot)
      /\ toRisk \in Seq(RiskEvent) /\ positions \in Int /\ calling \in 0 .. 2
  BY <1>1 DEF OrderTyped
<1>4. lots \in Lot
  <2>1. executed # <<>>
    BY <1>1, <1>2 DEF OrderTyped
  <2>2. Len(executed) \in 1 .. Len(executed)
    BY <1>3, <2>1
  <2>3. QED
    BY <1>3, <2>2 DEF Last
<1> HIDE DEF lots
<1>5. e \in PortfolioEvent /\ e.type = "filled" /\ e.lots = lots
  BY <1>4 DEF PortfolioEvent
<1> HIDE DEF e
<1>6. /\ handed' \in Seq(Lot) /\ Len(handed') = Len(handed) + 1 /\ Len(handed) \in Nat
      /\ ToSet(handed') = ToSet(handed) \cup {lots}
      /\ Total(handed') = Total(handed) + lots /\ Total(handed) \in Int
  BY <1>2, <1>3, <1>4, LaterLots
<1>7. /\ toPortfolio' \in Seq(PortfolioEvent) /\ DOMAIN toPortfolio = 1 .. Len(toPortfolio)
      /\ DOMAIN toPortfolio' = 1 .. n /\ Len(toPortfolio') = n /\ Len(toPortfolio) \in Nat
      /\ toPortfolio'[n] = e /\ \A i \in 1 .. Len(toPortfolio) : toPortfolio'[i] = toPortfolio[i]
  BY <1>2, <1>3, <1>5
<1>8. OrderTyped'
  <2>1. calling' \in 0 .. 2
    BY <1>2, <1>3
  <2>2. executed' # <<>>
    BY <1>1, <1>2 DEF OrderTyped
  <2>3. QED
    BY <1>1, <1>2, <1>6, <1>7, <2>1, <2>2 DEF OrderTyped
<1>9. \A i \in 1 .. n : i \in 1 .. Len(toPortfolio) \/ i = n
  BY <1>7
<1>10. OneSided' => OneSided
  BY <1>2, <1>6 DEF OneSided
<1> HIDE DEF n
<1>11. Fills'
  <2>1. \A i \in DOMAIN toPortfolio' : toPortfolio'[i].type = "filled" => toPortfolio'[i].lots \in ToSet(handed')
    BY <1>1, <1>5, <1>6, <1>7, <1>9 DEF Fills
  <2>2. triggered' = 0 => \A i \in DOMAIN toPortfolio' : toPortfolio'[i].type # "reconciled"
    BY <1>1, <1>2, <1>5, <1>7, <1>9 DEF Fills
  <2>3. QED
    BY <1>1, <1>2, <1>10, <2>1, <2>2 DEF Fills
<1>12. OneSidedIsBooked'
  <2>1. /\ W = OfType(toPortfolio, "filled", Len(toPortfolio))
        /\ Total([i \in W |-> toPortfolio[i].lots]) = WaitingLots(toPortfolio)
        /\ V = OfType(toPortfolio', "filled", Len(toPortfolio'))
        /\ Total([i \in V |-> toPortfolio'[i].lots]) = WaitingLots(toPortfolio')
    BY <1>3, <1>7, WaitingIs
  <2>2. WaitingLots(toPortfolio') = WaitingLots(toPortfolio) + lots
    BY <1>2, <1>3, <1>5, WaitingAppend
  <2>3. Cardinality(V) = Cardinality(W) + 1 /\ Cardinality(W) \in Nat
    <3>1. Cardinality(OfType(Append(toPortfolio, e), "filled", Len(toPortfolio) + 1)) =
            Cardinality(OfType(toPortfolio, "filled", Len(toPortfolio))) + (IF e.type = "filled" THEN 1 ELSE 0)
      BY <1>3, <1>5, OfTypeAppend
    <3>2. Len(toPortfolio') = Len(toPortfolio) + 1
      BY <1>7 DEF n
    <3>3. Cardinality(OfType(toPortfolio, "filled", Len(toPortfolio))) \in Nat
      BY <1>7, OfTypeFinite
    <3> HIDE DEF V, W
    <3>4. QED
      BY <1>2, <1>5, <2>1, <3>1, <3>2, <3>3
  <2>4. /\ Len(booked) + Cardinality(W) = Len(handed) /\ Len(handed) + calling <= 2 * Len(executed)
        /\ OneSided => positions + Total([i \in W |-> toPortfolio[i].lots]) = Total(handed)
    BY <1>1 DEF OneSidedIsBooked, OneSided
  <2>5. WaitingLots(toPortfolio) \in Int /\ Len(booked) \in Nat /\ lots \in Int
    <3>1. booked \in Seq(Lot)
      BY <1>1 DEF OrderTyped
    <3>2. QED
      BY <1>3, <1>4, <3>1, WaitingType DEF Lot
  <2> HIDE DEF V, W
  <2>6. Len(booked') + Cardinality(V) = Len(handed')
    <3>1. Len(booked) + (Cardinality(W) + 1) = Len(handed) + 1
      BY <1>6, <2>3, <2>4, <2>5
    <3>2. booked' = booked
      BY <1>2
    <3>3. QED
      BY <1>6, <2>3, <3>1, <3>2, Zenon
  <2>7. ASSUME OneSided' PROVE positions' + Total([i \in V |-> toPortfolio'[i].lots]) = Total(handed')
    <3>1. positions + WaitingLots(toPortfolio) = Total(handed)
      BY <1>10, <2>1, <2>4, <2>7
    <3>2. positions + (WaitingLots(toPortfolio) + lots) = Total(handed) + lots
      BY <1>3, <1>6, <2>5, <3>1
    <3>3. QED
      BY <1>2, <1>6, <2>1, <2>2, <3>2
  <2>8. Len(handed') + calling' <= 2 * Len(executed')
    <3>1. (Len(handed) + 1) + (calling - 1) = Len(handed) + calling
      BY <1>3, <1>6
    <3>2. QED
      BY <1>2, <1>6, <2>4, <3>1, Zenon
  <2>9. QED
    BY <2>6, <2>7, <2>8 DEF OneSidedIsBooked, OneSided, V
<1>13. RiskIsBehind'
  BY <1>1, <1>2, <1>3, RiskStays
<1>14. QED
  BY <1>8, <1>11, <1>12, <1>13 DEF OrderInv

\* An event that is no fill.
LEMMA OtherKeeps ==
  ASSUME OrderInv, NEW type \in {"reconciled", "other"},
         toPortfolio' = Append(toPortfolio, [type |-> type]),
         triggered' \in Nat, type = "reconciled" => triggered' # 0, triggered' = 0 => triggered = 0,
         UNCHANGED <<day, executed, calling, handed, toRisk, books, riskKnows, compared>>
  PROVE  OrderInv'
<1> DEFINE e == [type |-> type]
           n == Len(toPortfolio) + 1
           W == {i \in DOMAIN toPortfolio : toPortfolio[i].type = "filled"}
           V == {i \in DOMAIN toPortfolio' : toPortfolio'[i].type = "filled"}
<1>1. OrderTyped /\ Fills /\ OneSidedIsBooked /\ RiskIsBehind
  BY DEF OrderInv
<1>2. /\ toPortfolio' = Append(toPortfolio, e)
      /\ UNCHANGED <<day, executed, calling, handed, toRisk, handling, positions, booked, taken, stored, unsaved,
                     riskKnows, compared>>
  BY DEF books
<1>3. e \in PortfolioEvent /\ e.type # "filled" /\ (triggered' = 0 => e.type # "reconciled")
  BY DEF PortfolioEvent
<1> HIDE DEF e
<1>4. toPortfolio \in Seq(PortfolioEvent) /\ toRisk \in Seq(RiskEvent)
  BY <1>1 DEF OrderTyped
<1>5. /\ toPortfolio' \in Seq(PortfolioEvent) /\ DOMAIN toPortfolio = 1 .. Len(toPortfolio)
      /\ DOMAIN toPortfolio' = 1 .. n /\ Len(toPortfolio') = n /\ Len(toPortfolio) \in Nat
      /\ toPortfolio'[n] = e /\ \A i \in 1 .. Len(toPortfolio) : toPortfolio'[i] = toPortfolio[i]
  BY <1>2, <1>3, <1>4
<1>6. OrderTyped'
  BY <1>1, <1>2, <1>5 DEF OrderTyped
<1>7. \A i \in 1 .. n : i \in 1 .. Len(toPortfolio) \/ i = n
  BY <1>5
<1>8. OneSided' => OneSided
  BY <1>2 DEF OneSided
<1> HIDE DEF n
<1>9. Fills'
  <2>1. \A i \in DOMAIN toPortfolio' : toPortfolio'[i].type = "filled" => toPortfolio'[i].lots \in ToSet(handed')
    BY <1>1, <1>2, <1>3, <1>5, <1>7 DEF Fills
  <2>2. triggered' = 0 => \A i \in DOMAIN toPortfolio' : toPortfolio'[i].type # "reconciled"
    BY <1>1, <1>2, <1>3, <1>5, <1>7 DEF Fills
  <2>3. QED
    BY <1>1, <1>2, <1>8, <2>1, <2>2 DEF Fills
<1>10. OneSidedIsBooked'
  <2>1. V = W /\ \A i \in W : toPortfolio'[i] = toPortfolio[i]
    <3>1. \A i : i \in 1 .. n <=> i \in 1 .. Len(toPortfolio) \/ i = n
      BY <1>5 DEF n
    <3>2. QED
      BY <1>3, <1>5, <3>1
  <2>2. /\ Len(booked) + Cardinality(W) = Len(handed) /\ Len(handed) + calling <= 2 * Len(executed)
        /\ OneSided => positions + Total([i \in W |-> toPortfolio[i].lots]) = Total(handed)
    BY <1>1 DEF OneSidedIsBooked, OneSided
  <2>3. [i \in V |-> toPortfolio'[i].lots] = [i \in W |-> toPortfolio[i].lots]
    BY <2>1
  <2> HIDE DEF V, W
  <2>4. /\ Len(booked') + Cardinality(V) = Len(handed') /\ Len(handed') + calling' <= 2 * Len(executed')
        /\ OneSided' => positions' + Total([i \in V |-> toPortfolio'[i].lots]) = Total(handed')
    BY <1>2, <1>8, <2>1, <2>2, <2>3
  <2>5. QED
    BY <2>4 DEF OneSidedIsBooked, OneSided, V
<1>11. RiskIsBehind'
  BY <1>1, <1>2, <1>4, RiskStays
<1>12. QED
  BY <1>6, <1>9, <1>10, <1>11 DEF OrderInv

\* The sum of the lots an executed sequence holds is positive when each of them is.
LEMMA FillBooked ==
  ASSUME NEW p \in Int, NEW lots \in Lot
  PROVE  /\ ProcessFill(p, lots) \in Int
         /\ p >= 0 /\ lots > 0 => ProcessFill(p, lots) = p + lots
         /\ \A n \in Nat : Magnitude(p) <= 2 * n => Magnitude(ProcessFill(p, lots)) <= 2 * (n + 1)
<1>1. p > 0 /\ lots > 0 => p * lots > 0
  BY DEF Lot
<1>2. p = 0 => p * lots = 0 /\ p + lots = lots
  BY DEF Lot
<1>3. QED
  BY <1>1, <1>2 DEF ProcessFill, Magnitude, Lot

\* What the portfolio processor leaves of its queue.
LEMMA PortfolioTaken ==
  ASSUME NEW q \in Seq(PortfolioEvent), q # <<>>
  PROVE  /\ Tail(q) \in Seq(PortfolioEvent) /\ Head(q) \in PortfolioEvent /\ Head(q) = q[1] /\ 1 \in DOMAIN q
         /\ \A i \in DOMAIN Tail(q) : i + 1 \in DOMAIN q /\ Tail(q)[i] = q[i + 1]
         /\ LET W == {i \in DOMAIN q : q[i].type = "filled"}
                V == {i \in DOMAIN Tail(q) : Tail(q)[i].type = "filled"}
                one == IF Head(q).type = "filled" THEN 1 ELSE 0
                first == IF Head(q).type = "filled" THEN Head(q).lots ELSE 0 IN
            /\ Cardinality(W) = Cardinality(V) + one /\ Cardinality(V) \in Nat
            /\ Total([i \in W |-> q[i].lots]) = Total([i \in V |-> Tail(q)[i].lots]) + first
            /\ Total([i \in V |-> Tail(q)[i].lots]) \in Int
<1> DEFINE rest == Tail(q)
           W == {i \in DOMAIN q : q[i].type = "filled"}
           V == {i \in DOMAIN rest : rest[i].type = "filled"}
           n == Len(q) - 1
<1>1. /\ Len(q) \in Nat \ {0} /\ n \in 0 .. Len(q) - 1 /\ n \in Nat /\ n + 1 = Len(q) /\ Len(rest) = n
      /\ rest \in Seq(PortfolioEvent) /\ DOMAIN rest = 1 .. n /\ DOMAIN q = 1 .. Len(q)
      /\ Head(q) = q[1] /\ Head(q) \in PortfolioEvent /\ 1 \in 1 .. Len(q)
      /\ \A i \in 1 .. n : i + 1 \in 1 .. Len(q) /\ rest[i] = q[i + 1]
  OBVIOUS
<1>2. /\ W = OfType(q, "filled", n + 1) /\ V = OfType(rest, "filled", n)
      /\ Total([i \in W |-> q[i].lots]) = WaitingLots(q)
      /\ Total([i \in V |-> rest[i].lots]) = WaitingLots(rest)
  <2> HIDE DEF rest, n
  <2>1. QED
    BY <1>1, WaitingIs
<1>3. /\ WaitingLots(q) = WaitingLots(rest) + (IF Head(q).type = "filled" THEN Head(q).lots ELSE 0)
      /\ WaitingLots(rest) \in Int
  BY WaitingTail
<1>4. Cardinality(OfType(q, "filled", n + 1)) =
        Cardinality(OfType(rest, "filled", n)) + (IF Head(q).type = "filled" THEN 1 ELSE 0)
  <2> HIDE DEF n
  <2>1. n \in 0 .. Len(q) - 1
    BY <1>1
  <2>2. QED
    BY <2>1, OfTypeTail
<1>5. Cardinality(V) \in Nat
  <2> HIDE DEF rest, V, n
  <2>1. QED
    BY <1>1, <1>2, OfTypeFinite
<1>6. /\ Cardinality(W) = Cardinality(V) + (IF Head(q).type = "filled" THEN 1 ELSE 0)
      /\ Total([i \in W |-> q[i].lots]) =
           Total([i \in V |-> rest[i].lots]) + (IF Head(q).type = "filled" THEN Head(q).lots ELSE 0)
      /\ Total([i \in V |-> rest[i].lots]) \in Int
  <2> HIDE DEF rest, W, V, n
  <2>1. QED
    BY <1>2, <1>3, <1>4
<1>7. QED
  BY <1>1, <1>5, <1>6

LEMMA TakenKeeps ==
  ASSUME OrderInv, TakeEvent PROVE OrderInv'
<1> DEFINE event == Head(toPortfolio)
           W == {i \in DOMAIN toPortfolio : toPortfolio[i].type = "filled"}
           V == {i \in DOMAIN toPortfolio' : toPortfolio'[i].type = "filled"}
           waits == Total([i \in W |-> toPortfolio[i].lots])
           stays == Total([i \in V |-> toPortfolio'[i].lots])
           one == IF event.type = "filled" THEN 1 ELSE 0
           first == IF event.type = "filled" THEN event.lots ELSE 0
<1>1. OrderTyped /\ Fills /\ OneSidedIsBooked /\ RiskIsBehind
  BY DEF OrderInv
<1>2. /\ toPortfolio # <<>> /\ toPortfolio' = Tail(toPortfolio)
      /\ taken' = taken + 1 /\ handling' \in {"position", "portfolio"}
      /\ UNCHANGED <<day, executed, calling, handed, toRisk, stored, unsaved, riskKnows, compared, triggered>>
  BY DEF TakeEvent
<1>3. /\ toPortfolio \in Seq(PortfolioEvent) /\ booked \in Seq(Lot) /\ handed \in Seq(Lot)
      /\ positions \in Int /\ taken \in Nat /\ toRisk \in Seq(RiskEvent)
  BY <1>1 DEF OrderTyped
<1>4. /\ toPortfolio' \in Seq(PortfolioEvent) /\ event \in PortfolioEvent /\ event = toPortfolio[1] /\ 1 \in DOMAIN toPortfolio
      /\ \A i \in DOMAIN toPortfolio' : i + 1 \in DOMAIN toPortfolio /\ toPortfolio'[i] = toPortfolio[i + 1]
      /\ Cardinality(W) = Cardinality(V) + one /\ Cardinality(V) \in Nat
      /\ waits = stays + first /\ stays \in Int
  BY <1>2, <1>3, PortfolioTaken
<1>5. RiskIsBehind'
  BY <1>1, <1>2, <1>3, RiskStays
<1>6. event.type \in {"filled", "reconciled", "other"} /\ (event.type = "filled" => event.lots \in Lot)
  BY <1>4, PortfolioEventShape
<1>7. /\ event.type = "filled" => positions' = ProcessFill(positions, event.lots) /\ booked' = Append(booked, event.lots)
      /\ event.type = "reconciled" => positions' = 0 /\ booked' = booked
      /\ event.type = "other" => positions' = positions /\ booked' = booked
  BY DEF TakeEvent, ProcessReconciliation
<1> HIDE DEF event
<1>8. /\ booked' \in Seq(Lot) /\ Len(booked') = Len(booked) + one /\ Len(booked) \in Nat /\ positions' \in Int
  <2>1. CASE event.type = "filled"
    <3>1. positions' \in Int
      BY <1>3, <1>6, <1>7, <2>1, FillBooked
    <3>2. QED
      BY <1>3, <1>6, <1>7, <2>1, <3>1, LaterLots
  <2>2. CASE event.type # "filled"
    BY <1>3, <1>6, <1>7, <2>2
  <2>3. QED
    BY <2>1, <2>2
<1>9. OrderTyped'
  <2>1. taken' \in Nat
    BY <1>2, <1>3
  <2>2. QED
    BY <1>1, <1>2, <1>4, <1>8, <2>1 DEF OrderTyped
<1>10. OneSided' <=> OneSided
  BY <1>2 DEF OneSided
<1>11. ASSUME OneSided PROVE event.type # "reconciled" /\ (event.type = "filled" => event.lots > 0) /\ positions >= 0
  BY <1>1, <1>4, <1>11 DEF Fills, OneSided
<1>12. ASSUME OneSided PROVE positions' = positions + first /\ first \in Nat
  <2>1. CASE event.type = "filled"
    <3>1. ProcessFill(positions, event.lots) = positions + event.lots
      BY <1>3, <1>6, <1>11, <1>12, <2>1, FillBooked
    <3>2. event.lots \in Nat
      BY <1>6, <1>11, <1>12, <2>1 DEF Lot
    <3>3. QED
      BY <1>7, <2>1, <3>1, <3>2
  <2>2. CASE event.type # "filled"
    BY <1>3, <1>6, <1>7, <1>11, <1>12, <2>2
  <2>3. QED
    BY <2>1, <2>2
<1>13. Fills'
  <2>1. \A i \in DOMAIN toPortfolio' : toPortfolio'[i].type = "filled" => toPortfolio'[i].lots \in ToSet(handed')
    BY <1>1, <1>2, <1>4 DEF Fills
  <2>2. triggered' = 0 => \A i \in DOMAIN toPortfolio' : toPortfolio'[i].type # "reconciled"
    BY <1>1, <1>2, <1>4 DEF Fills
  <2>3. ASSUME OneSided PROVE positions' >= 0
    <3> HIDE DEF first
    <3>1. QED
      BY <1>3, <1>11, <1>12, <2>3
  <2>4. Magnitude(positions') <= 2 * Len(booked')
    <3>1. Magnitude(positions) <= 2 * Len(booked)
      BY <1>1 DEF Fills
    <3>2. CASE event.type = "filled"
      <4>1. Magnitude(ProcessFill(positions, event.lots)) <= 2 * (Len(booked) + 1)
        BY <1>3, <1>6, <1>8, <3>1, <3>2, FillBooked
      <4>2. QED
        BY <1>7, <1>8, <3>2, <4>1
    <3>3. CASE event.type = "reconciled"
      BY <1>7, <1>8, <3>3 DEF Magnitude
    <3>4. CASE event.type = "other"
      BY <1>7, <3>1, <3>4
    <3>5. QED
      BY <1>6, <3>2, <3>3, <3>4
  <2>5. QED
    BY <1>10, <2>1, <2>2, <2>3, <2>4 DEF Fills
<1>14. OneSidedIsBooked'
  <2>1. /\ Len(booked) + Cardinality(W) = Len(handed) /\ Len(handed) + calling <= 2 * Len(executed)
        /\ OneSided => positions + waits = Total(handed)
    BY <1>1 DEF OneSidedIsBooked, OneSided
  <2> HIDE DEF W, V, waits, stays
  <2>2. Len(booked') + Cardinality(V) = Len(handed')
    <3>1. (Len(booked) + one) + Cardinality(V) = Len(booked) + (Cardinality(V) + one)
      BY <1>4, <1>8
    <3>2. QED
      BY <1>2, <1>4, <1>8, <2>1, <3>1, Zenon
  <2>3. ASSUME OneSided' PROVE positions' + stays = Total(handed')
    <3>1. positions' = positions + first /\ first \in Nat
      BY <1>10, <1>12, <2>3
    <3> HIDE DEF first
    <3>2. positions' + stays = positions + waits
      BY <1>3, <1>4, <3>1
    <3>3. QED
      BY <1>2, <1>10, <2>1, <2>3, <3>2
  <2>4. QED
    BY <1>2, <2>1, <2>2, <2>3 DEF OneSidedIsBooked, OneSided, V, stays
<1>15. QED
  BY <1>5, <1>9, <1>13, <1>14 DEF OrderInv

\* A step that neither fills, queues nor books.
LEMMA QuietKeeps ==
  ASSUME OrderInv,
         UNCHANGED <<day, executed, calling, handed, toPortfolio, positions, booked, taken, riskKnows, triggered>>,
         compared' \in [internal : Int, executor : Int, matched : BOOLEAN], toRisk' \in Seq(RiskEvent),
         handling' \in {"no", "position", "portfolio"}, unsaved' \in BOOLEAN,
         \/ stored' = stored /\ (handling # "no" \/ unsaved => handling' # "no" \/ unsaved')
         \/ stored' \in Nat /\ (day.state => stored' = taken)
  PROVE  OrderInv'
<1>1. OrderTyped /\ Fills /\ OneSidedIsBooked /\ RiskIsBehind
  BY DEF OrderInv
<1>2. OrderTyped'
  BY <1>1 DEF OrderTyped
<1>3. Fills'
  BY <1>1 DEF Fills, OneSided
<1>4. OneSidedIsBooked'
  BY <1>1 DEF OneSidedIsBooked
<1>5. RiskIsBehind'
  BY <1>1, RiskStays
<1>6. QED
  BY <1>2, <1>3, <1>4, <1>5 DEF OrderInv

LEMMA OrderStep == ASSUME OrderInv, [OrderNext]_orderVars PROVE OrderInv'
<1>1. /\ toRisk \in Seq(RiskEvent) /\ stored \in Nat /\ taken \in Nat /\ triggered \in Nat
      /\ handling \in {"no", "position", "portfolio"} /\ unsaved \in BOOLEAN
      /\ compared \in [internal : Int, executor : Int, matched : BOOLEAN]
  BY DEF OrderInv, OrderTyped
<1> DEFINE Same == UNCHANGED <<day, executed, calling, handed, toPortfolio, positions, booked, taken,
                               riskKnows, triggered>>
<1>2. CASE UNCHANGED orderVars \/ Approve \/ ExecutionProcess
  <2>1. Same /\ UNCHANGED <<toRisk, handling, unsaved, stored, compared>>
    BY <1>2 DEF orderVars, queues, books, Approve, ExecutionProcess
  <2>2. QED
    BY <1>1, <2>1, QuietKeeps
<1>3. CASE Decide
  <2> DEFINE e == [type |-> "decision"]
  <2>1. Same /\ UNCHANGED <<handling, unsaved, stored, compared>> /\ toRisk' = Append(toRisk, e)
    BY <1>3 DEF Decide, books, Receive, HasSymbol
  <2>2. e \in RiskEvent
    BY DEF RiskEvent
  <2> HIDE DEF e
  <2>3. toRisk' \in Seq(RiskEvent)
    BY <1>1, <2>1, <2>2
  <2>4. QED
    BY <1>1, <2>1, <2>3, QuietKeeps
<1>4. CASE RiskProcess
  <2>1. /\ UNCHANGED <<day, executed, calling, handed, toPortfolio, positions, booked, taken, triggered>>
        /\ UNCHANGED <<handling, unsaved, stored, compared>> /\ toRisk # <<>> /\ toRisk' = Tail(toRisk)
    BY <1>4 DEF RiskProcess, books
  <2>2. Head(toRisk).type = "decision" /\ toRisk' \in Seq(RiskEvent)
    <3>1. Head(toRisk) \in RiskEvent
      BY <1>1, <2>1
    <3>2. QED
      BY <1>1, <2>1, <3>1 DEF RiskEvent
  <2>3. riskKnows' = riskKnows
    BY <1>4, <2>2 DEF RiskProcess
  <2>4. QED
    BY <1>1, <2>1, <2>2, <2>3, QuietKeeps
<1>5. CASE ReconcilePosition
  <2> DEFINE net == Total(executed)
             match == positions = 0 \/ 100 * Magnitude(positions - net) <= Magnitude(positions)
  <2>1. Same /\ UNCHANGED <<toRisk, handling, unsaved, stored>>
        /\ compared' = [internal |-> positions, executor |-> net, matched |-> match]
    BY <1>5 DEF ReconcilePosition, queues, books
  <2>2. positions \in Int /\ net \in Int /\ match \in BOOLEAN
    <3>1. executed \in Seq(Lot) /\ positions \in Int /\ 1 \in Lot
      BY DEF OrderInv, OrderTyped, Lot
    <3>2. Total(executed) \in Int
      BY <3>1, LaterLots
    <3>3. QED
      BY <3>1, <3>2
  <2> HIDE DEF net, match
  <2>3. compared' \in [internal : Int, executor : Int, matched : BOOLEAN]
    BY <2>1, <2>2
  <2>4. QED
    BY <1>1, <2>1, <2>3, QuietKeeps
<1>6. CASE UpdatePositionState
  <2>1. Same /\ UNCHANGED <<toRisk, stored, compared>> /\ handling # "no"
        /\ \/ handling' = "portfolio" /\ unsaved' = unsaved
           \/ handling' = "no" /\ unsaved' = TRUE
    BY <1>6 DEF UpdatePositionState, queues
  <2>2. QED
    BY <1>1, <2>1, QuietKeeps
<1>7. CASE CreatePortfolioUpdate
  <2>1. Same /\ UNCHANGED <<toRisk, compared>> /\ handling' = "no"
        /\ \/ stored' = (IF day.state THEN taken ELSE stored) /\ unsaved' = FALSE
           \/ stored' = stored /\ unsaved' = TRUE
    BY <1>7 DEF CreatePortfolioUpdate, Receive, HasSymbol
  <2>2. QED
    BY <1>1, <2>1, QuietKeeps
<1>8. CASE OtherEvent
  <2>1. /\ toPortfolio' = Append(toPortfolio, [type |-> "other"])
        /\ UNCHANGED <<day, executed, calling, handed, toRisk, books, riskKnows, compared, triggered>>
    BY <1>8 DEF OtherEvent, Receive, HasSymbol
  <2>2. QED
    BY <1>1, <2>1, OtherKeeps
<1>9. CASE TriggerReconciliation
  <2>1. /\ toPortfolio' = Append(toPortfolio, [type |-> "reconciled"]) /\ triggered' = triggered + 1
        /\ UNCHANGED <<day, executed, calling, handed, toRisk, books, riskKnows, compared>>
    BY <1>9 DEF TriggerReconciliation, Receive, HasSymbol
  <2>2. triggered' \in Nat /\ triggered' # 0
    BY <1>1, <2>1
  <2>3. QED
    BY <2>1, <2>2, OtherKeeps
<1>10. \A lots \in {1, -1, 2} : lots \in Lot
  BY DEF Lot
<1>11. QED
  BY <1>2, <1>3, <1>4, <1>5, <1>6, <1>7, <1>8, <1>9, <1>10, FilledKeeps, HandedKeeps, TakenKeeps
  DEF OrderNext, PortfolioProcess

\* A hundredth of a position is less than a lot while it is below a hundred lots, which
\* fifty handler calls of two lots cannot pass.
ShortDays == \A d \in Days : d.fills < 25

LEMMA MatchedStep ==
  ASSUME OrderInv, MatchedIsEqual, ShortDays, [OrderNext]_orderVars PROVE MatchedIsEqual'
<1>1. CASE ReconcilePosition
  <2> DEFINE net == Total(executed)
             match == positions = 0 \/ 100 * Magnitude(positions - net) <= Magnitude(positions)
  <2>1. compared' = [internal |-> positions, executor |-> net, matched |-> match]
    BY <1>1 DEF ReconcilePosition
  <2>2. /\ executed \in Seq(Lot) /\ booked \in Seq(Lot) /\ handed \in Seq(Lot) /\ positions \in Int /\ day \in Days
        /\ Len(executed) <= day.fills /\ toPortfolio \in Seq(PortfolioEvent) /\ calling \in 0 .. 2
    BY DEF OrderInv, OrderTyped
  <2>3. net \in Int
    <3>1. 1 \in Lot
      BY DEF Lot
    <3>2. QED
      BY <2>2, <3>1, LaterLots
  <2>4. Magnitude(positions) < 100
    <3>1. Magnitude(positions) <= 2 * Len(booked)
      BY DEF OrderInv, Fills
    <3>2. Len(booked) <= Len(handed) /\ Len(handed) <= 2 * Len(executed)
      <4> DEFINE W == {i \in DOMAIN toPortfolio : toPortfolio[i].type = "filled"}
      <4>1. Len(booked) + Cardinality(W) = Len(handed) /\ Len(handed) + calling <= 2 * Len(executed)
        BY DEF OrderInv, OneSidedIsBooked
      <4>2. W = OfType(toPortfolio, "filled", Len(toPortfolio)) /\ Len(toPortfolio) \in Nat
        BY <2>2 DEF OfType
      <4>3. Cardinality(W) \in Nat
        BY <4>2, OfTypeFinite
      <4> HIDE DEF W
      <4>4. QED
        BY <2>2, <4>1, <4>3
    <3>3. /\ day.fills \in Nat /\ day.fills < 25
          /\ Len(booked) \in Nat /\ Len(executed) \in Nat /\ Len(handed) \in Nat
      BY <2>2, OrderAssumption DEF ShortDays
    <3>4. QED
      BY <2>2, <3>1, <3>2, <3>3 DEF Magnitude
  <2> HIDE DEF net
  <2>5. match /\ positions # 0 => positions = net
    BY <2>2, <2>3, <2>4 DEF Magnitude
  <2> HIDE DEF match
  <2>6. QED
    BY <2>1, <2>5 DEF MatchedIsEqual
<1>2. CASE ~ ReconcilePosition
  <2>1. UNCHANGED compared
    BY <1>2 DEF OrderNext, orderVars, FilledOutside, HandleFill, Decide, OtherEvent, Approve, PortfolioProcess,
                TakeEvent, UpdatePositionState, CreatePortfolioUpdate, RiskProcess, ExecutionProcess,
                TriggerReconciliation
  <2>2. QED
    BY <2>1 DEF MatchedIsEqual
<1>3. QED
  BY <1>1, <1>2

LEMMA OrderHolds == ASSUME OrderInv PROVE OrderTypeOK /\ OneSidedIsBooked /\ RiskIsBehind
<1>1. \A q \in Seq(Lot) : \A v \in ToSet(q) : v \in {1, -1, 2}
  BY DEF ToSet, Lot
<1>2. QED
  BY <1>1 DEF OrderInv, OrderTyped, OrderTypeOK
Route == [exchange : ToSet(Exchanges), maker : BOOLEAN]

RoutingTyped ==
  /\ intent \in Intents /\ planning \in {"planning", "planned", "raised"}
  /\ parts \in Nat \ {0} /\ calls \in 1 .. RecursionLimit
  /\ listed \subseteq ToSet(Exchanges) /\ routes \in Seq(Route)
  /\ sent \in Seq([route : Route, offered : SUBSET Route])
  /\ fillHistory \in Seq(Nat) /\ Len(fillHistory) <= HistoryLimit

\* Nothing goes before the plan is made, and a route is for a piece that waits.
PiecesWait ==
  /\ planning # "planned" => sent = <<>> /\ routes = <<>>
  /\ routes # <<>> => Len(sent) < parts

\* What is within the rate is within the size after one split.
OneSplitFits ==
  calls > 1 /\ RatePart * intent.size <= Liquidity(intent) => intent.size <= MaxOrderSize * parts

RoutingInv == RoutingTyped /\ PiecesWait /\ OneSplitFits /\ PlanKeepsLimits /\ SentByTheBest

LEMMA Ceiling ==
  ASSUME NEW a \in Nat \ {0}, NEW b \in Nat \ {0}
  PROVE  CeilDiv(a, b) \in Nat \ {0} /\ a <= CeilDiv(a, b) * b
<1> DEFINE q == (a + b - 1) \div b
<1>1. q \in Int /\ q * b <= a + b - 1 /\ a + b - 1 < (q + 1) * b
  <2>1. ASSUME NEW c \in Nat PROVE (c \div b) \in Int /\ (c \div b) * b <= c /\ c < ((c \div b) + 1) * b
    OBVIOUS
  <2>2. a + b - 1 \in Nat
    OBVIOUS
  <2>3. QED
    BY <2>1, <2>2
<1> HIDE DEF q
<1>2. (q + 1) * b = q * b + b /\ q * b \in Int
  BY <1>1
<1>3. a <= q * b
  BY <1>1, <1>2
<1>4. q >= 1
  <2>1. SUFFICES ASSUME q <= 0 PROVE FALSE
    BY <1>1
  <2>2. q * b <= 0
    BY <1>1, <2>1
  <2>3. QED
    BY <1>1, <1>3, <2>2
<1>5. QED
  BY <1>1, <1>3, <1>4 DEF CeilDiv, q

LEMMA Cancelled ==
  ASSUME NEW a \in Nat, NEW b \in Nat, NEW c \in Nat \ {0}, a * c <= b * c PROVE a <= b
<1>1. SUFFICES ASSUME a >= b + 1 PROVE FALSE
  OBVIOUS
<1>2. a * c >= (b + 1) * c /\ (b + 1) * c = b * c + c
  BY <1>1
<1>3. a * c \in Nat /\ b * c \in Nat
  OBVIOUS
<1>4. QED
  BY <1>2, <1>3

LEMMA SplitsFit ==
  ASSUME NEW size \in Nat \ {0}, NEW depth \in Nat, NEW n \in Nat \ {0}
  PROVE  /\ Splits(size, depth, n) \in Nat \ {0}
         /\ RatePart * size <= depth /\ size > MaxOrderSize * n =>
              size <= MaxOrderSize * (n * Splits(size, depth, n))
<1> DEFINE most == MaxOrderSize * n
           limit == SmallerOf(most * RatePart, depth)
           least == n * RatePart
           piece == LargerOf(limit, least)
<1>1. MaxOrderSize \in Nat \ {0} /\ RatePart \in Nat \ {0}
  BY RoutingAssumption
<1>2. ASSUME NEW x \in Nat \ {0}, NEW y \in Nat \ {0} PROVE x * y \in Nat \ {0} /\ x <= x * y /\ y <= x * y
  OBVIOUS
<1>3. most \in Nat \ {0} /\ most * RatePart \in Nat \ {0} /\ least \in Nat \ {0} /\ size * RatePart \in Nat \ {0}
  BY <1>1, <1>2
<1>4. Splits(size, depth, n) = CeilDiv(size * RatePart, piece)
  BY DEF Splits
<1>5. piece \in Nat \ {0}
  <2> HIDE DEF most, least
  <2>1. limit \in Nat
    BY <1>3 DEF SmallerOf
  <2> HIDE DEF limit
  <2>2. QED
    BY <1>3, <2>1 DEF LargerOf
<1>6. Splits(size, depth, n) \in Nat \ {0} /\ size * RatePart <= Splits(size, depth, n) * piece
  <2> HIDE DEF piece
  <2>1. QED
    BY <1>3, <1>4, <1>5, Ceiling
<1>7. ASSUME RatePart * size <= depth, size > most
      PROVE  size <= MaxOrderSize * (n * Splits(size, depth, n))
  <2>1. most * RatePart <= size * RatePart
    <3> HIDE DEF most
    <3>1. \A x, y \in Nat : x < y => x * RatePart <= y * RatePart
      BY <1>1
    <3>2. QED
      BY <1>3, <1>7, <3>1
  <2>2. limit = most * RatePart
    <3>1. size * RatePart <= depth
      BY <1>1, <1>7
    <3> HIDE DEF most
    <3>2. QED
      BY <1>3, <2>1, <3>1 DEF SmallerOf
  <2>3. least <= most * RatePart
    <3>1. n <= MaxOrderSize * n
      BY <1>1, <1>2
    <3>2. \A x, y \in Nat : x <= y => x * RatePart <= y * RatePart
      BY <1>1
    <3> HIDE DEF most
    <3>3. n * RatePart <= most * RatePart
      BY <1>3, <3>1, <3>2 DEF most
    <3>4. QED
      BY <3>3
  <2>4. piece = most * RatePart
    <3> HIDE DEF limit, least, most
    <3>1. QED
      BY <1>3, <2>2, <2>3 DEF LargerOf
  <2> DEFINE k == Splits(size, depth, n)
  <2>5. size * RatePart <= (k * most) * RatePart
    <3>1. k \in Nat /\ size * RatePart <= k * (most * RatePart)
      BY <1>6, <2>4
    <3> HIDE DEF k, most
    <3>2. k * (most * RatePart) = (k * most) * RatePart
      BY <1>1, <1>3, <3>1
    <3>3. QED
      BY <3>1, <3>2
  <2>6. k * most \in Nat /\ k \in Nat \ {0}
    <3>1. k \in Nat \ {0}
      BY <1>6
    <3> HIDE DEF k, most
    <3>2. QED
      BY <1>3, <3>1
  <2>7. size <= k * most
    <3> HIDE DEF k, most
    <3>1. QED
      BY <1>1, <2>5, <2>6, Cancelled
  <2>8. k * (MaxOrderSize * n) = MaxOrderSize * (n * k)
    <3> HIDE DEF k
    <3>1. QED
      BY <1>1, <2>6
  <2>9. QED
    <3> HIDE DEF k
    <3>1. size <= MaxOrderSize * (n * k)
      BY <2>7, <2>8
    <3>2. QED
      BY <3>1 DEF k
<1>8. QED
  BY <1>6, <1>7

LEMMA ScoreIsNumber == ASSUME NEW r \in Route PROVE Score(r) \in Int
<1> DEFINE place == CHOOSE i \in DOMAIN Exchanges : Exchanges[i] = r.exchange
<1>1. Len(Exchanges) \in Nat /\ DOMAIN Exchanges = 1 .. Len(Exchanges)
  BY RoutingAssumption
<1>2. \E i \in DOMAIN Exchanges : Exchanges[i] = r.exchange
  BY DEF Route, ToSet
<1>3. place \in 1 .. Len(Exchanges)
  BY <1>1, <1>2
<1> HIDE DEF place
<1>4. QED
  BY <1>1, <1>3 DEF Score, place

\* The best of some routes is one of them.
LEMMA BestIsBest ==
  ASSUME NEW list \in Seq(Route), list # <<>>
  PROVE  /\ Best(list) \in ToSet(list) /\ ToSet(list) \in SUBSET Route
         /\ \A r \in ToSet(list) : Score(r) <= Score(Best(list))
<1> DEFINE scores == [r \in ToSet(list) |-> Score(r)]
           S == {scores[r] : r \in ToSet(list)}
<1>1. ToSet(list) \in SUBSET Route /\ ToSet(list) # {} /\ IsFiniteSet(ToSet(list))
  <2>1. Len(list) \in Nat \ {0} /\ DOMAIN list = 1 .. Len(list)
    OBVIOUS
  <2>2. ToSet(list) \in SUBSET Route /\ list[1] \in ToSet(list)
    BY <2>1 DEF ToSet
  <2>3. IsFiniteSet(1 .. Len(list))
    BY <2>1, UpToN
  <2>4. IsFiniteSet({list[i] : i \in DOMAIN list})
    BY <2>1, <2>3, FiniteImage
  <2>5. QED
    BY <2>2, <2>4 DEF ToSet
<1>2. S \in SUBSET Int /\ S # {} /\ IsFiniteSet(S)
  <2>1. \A r \in ToSet(list) : scores[r] \in Int
    BY <1>1, ScoreIsNumber
  <2>2. IsFiniteSet(S)
    <3> HIDE DEF scores
    <3>1. QED
      BY <1>1, FiniteImage
  <2>3. QED
    BY <1>1, <2>1, <2>2
<1>3. Max(S) \in S /\ \A n \in S : n <= Max(S)
  <2> HIDE DEF S
  <2>1. QED
    BY <1>2, Extremes
<1>4. PICK best \in ToSet(list) : Max(S) = Score(best)
  BY <1>3
<1>5. \A r \in ToSet(list) : Score(r) <= Score(best)
  <2>1. TAKE r \in ToSet(list)
  <2>2. Score(r) \in S
    OBVIOUS
  <2>3. QED
    BY <1>3, <1>4, <2>2
<1>6. QED
  BY <1>1, <1>5 DEF Best

LEMMA RoutingInitial == RoutingInit => RoutingInv
<1> SUFFICES ASSUME RoutingInit PROVE RoutingInv
  OBVIOUS
<1>1. /\ intent \in Intents /\ planning = "planning" /\ parts = 1 /\ calls = 1
      /\ listed = {Exchanges[1], Exchanges[2]} /\ routes = <<>> /\ sent = <<>> /\ fillHistory = <<>>
  BY DEF RoutingInit
<1>2. listed \subseteq ToSet(Exchanges)
  <2>1. 1 \in DOMAIN Exchanges /\ 2 \in DOMAIN Exchanges
    BY RoutingAssumption
  <2>2. QED
    BY <1>1, <2>1 DEF ToSet
<1>3. RoutingTyped
  <2>1. parts \in Nat \ {0} /\ calls \in 1 .. RecursionLimit /\ Len(fillHistory) <= HistoryLimit
    BY <1>1, RoutingAssumption
  <2>2. routes \in Seq(Route) /\ sent \in Seq([route : Route, offered : SUBSET Route]) /\ fillHistory \in Seq(Nat)
    BY <1>1
  <2>3. QED
    BY <1>1, <1>2, <2>1, <2>2 DEF RoutingTyped
<1>4. PiecesWait /\ OneSplitFits /\ PlanKeepsLimits
  BY <1>1 DEF PiecesWait, OneSplitFits, PlanKeepsLimits
<1>5. SentByTheBest
  <2>1. Len(sent) = 0 /\ DOMAIN sent = {}
    BY <1>1
  <2>2. QED
    BY <1>1, <2>1 DEF SentByTheBest
<1>6. QED
  BY <1>3, <1>4, <1>5 DEF RoutingInv

LEMMA LiquidityType == ASSUME NEW i \in Intents PROVE Liquidity(i) \in Nat
BY RoutingAssumption DEF Liquidity

LEMMA PlanKeeps == ASSUME RoutingInv, Plan PROVE RoutingInv'
<1>1. RoutingTyped /\ PiecesWait /\ OneSplitFits /\ PlanKeepsLimits /\ SentByTheBest
  BY DEF RoutingInv
<1>2. planning = "planning" /\ UNCHANGED <<intent, listed, routes, sent, fillHistory, changes>>
  BY DEF Plan, routeVars
<1>3. intent \in Intents /\ parts \in Nat \ {0} /\ calls \in 1 .. RecursionLimit /\ sent = <<>> /\ routes = <<>>
  BY <1>1, <1>2 DEF RoutingTyped, PiecesWait
<1>4. /\ intent.size \in Nat \ {0} /\ Liquidity(intent) \in Nat /\ MaxOrderSize \in Nat \ {0} /\ RatePart \in Nat \ {0}
      /\ RecursionLimit \in Nat \ {0, 1}
  BY <1>3, RoutingAssumption, LiquidityType
<1> DEFINE k == Splits(intent.size, Liquidity(intent), parts)
<1>5. /\ k \in Nat \ {0}
      /\ RatePart * intent.size <= Liquidity(intent) /\ intent.size > MaxOrderSize * parts =>
           intent.size <= MaxOrderSize * (parts * k)
  BY <1>3, <1>4, SplitsFit
<1>6. ShouldSplit(intent.size, Liquidity(intent), parts) <=>
        intent.size > MaxOrderSize * parts \/ RatePart * intent.size > Liquidity(intent)
  BY DEF ShouldSplit
<1>7. MaxOrderSize * parts \in Nat /\ RatePart * intent.size \in Nat
  BY <1>3, <1>4
<1>8. CASE ~ ShouldSplit(intent.size, Liquidity(intent), parts)
  <2>1. planning' = "planned" /\ UNCHANGED <<parts, calls>>
    BY <1>8 DEF Plan
  <2>2. RoutingTyped' /\ PiecesWait' /\ OneSplitFits' /\ SentByTheBest'
    <3>1. RoutingTyped'
      BY <1>1, <1>2, <2>1 DEF RoutingTyped
    <3>2. PiecesWait' /\ OneSplitFits'
      BY <1>1, <1>2, <1>3, <2>1 DEF PiecesWait, OneSplitFits
    <3>3. SentByTheBest'
      BY <1>1, <1>2, <2>1 DEF SentByTheBest, Score
    <3>4. QED
      BY <3>1, <3>2, <3>3
  <2>3. PlanKeepsLimits'
    BY <1>2, <1>4, <1>6, <1>7, <1>8, <2>1 DEF PlanKeepsLimits
  <2>4. QED
    BY <2>2, <2>3 DEF RoutingInv
<1>9. CASE ShouldSplit(intent.size, Liquidity(intent), parts) /\ calls = RecursionLimit
  <2>1. planning' = "raised" /\ UNCHANGED <<parts, calls>>
    BY <1>9 DEF Plan
  <2>2. RoutingTyped' /\ PiecesWait' /\ OneSplitFits' /\ SentByTheBest'
    <3>1. RoutingTyped'
      BY <1>1, <1>2, <2>1 DEF RoutingTyped
    <3>2. PiecesWait' /\ OneSplitFits'
      BY <1>1, <1>2, <1>3, <2>1 DEF PiecesWait, OneSplitFits
    <3>3. SentByTheBest'
      BY <1>1, <1>2, <2>1 DEF SentByTheBest, Score
    <3>4. QED
      BY <3>1, <3>2, <3>3
  <2>3. RatePart * intent.size > Liquidity(intent)
    <3>1. calls > 1
      BY <1>4, <1>9
    <3>2. RatePart * intent.size <= Liquidity(intent) => intent.size <= MaxOrderSize * parts
      BY <1>1, <3>1 DEF OneSplitFits
    <3>3. QED
      BY <1>4, <1>6, <1>7, <1>9, <3>2
  <2>4. PlanKeepsLimits'
    BY <1>2, <2>1, <2>3 DEF PlanKeepsLimits
  <2>5. QED
    BY <2>2, <2>4 DEF RoutingInv
<1>10. CASE ShouldSplit(intent.size, Liquidity(intent), parts) /\ calls # RecursionLimit
  <2>1. parts' = parts * k /\ calls' = calls + 1 /\ planning' = planning
    BY <1>10 DEF Plan
  <2> HIDE DEF k
  <2>2. parts * k \in Nat \ {0}
    BY <1>3, <1>5
  <2>3. RoutingTyped'
    <3>1. calls' \in 1 .. RecursionLimit
      BY <1>3, <1>4, <1>10, <2>1
    <3>2. QED
      BY <1>1, <1>2, <2>1, <2>2, <3>1 DEF RoutingTyped
  <2>4. PiecesWait'
    BY <1>2, <1>3, <2>1 DEF PiecesWait
  <2>5. OneSplitFits'
    <3>1. SUFFICES ASSUME RatePart * intent.size <= Liquidity(intent) PROVE intent.size <= MaxOrderSize * (parts * k)
      BY <1>2, <2>1 DEF OneSplitFits
    <3>2. intent.size > MaxOrderSize * parts
      BY <1>4, <1>6, <1>7, <1>10, <3>1
    <3>3. QED
      BY <1>5, <3>1, <3>2
  <2>6. PlanKeepsLimits'
    BY <1>2, <2>1 DEF PlanKeepsLimits
  <2>7. SentByTheBest'
    <3>1. sent' = <<>> /\ Len(<<>>) = 0 /\ DOMAIN <<>> = {} /\ 0 <= parts'
      BY <1>2, <1>3, <2>1, <2>2
    <3>2. QED
      BY <3>1 DEF SentByTheBest
  <2>8. QED
    BY <2>3, <2>4, <2>5, <2>6, <2>7 DEF RoutingInv
<1>11. QED
  BY <1>8, <1>9, <1>10

LEMMA RoutesKeep == ASSUME RoutingInv, GenerateRoutes PROVE RoutingInv'
<1>1. RoutingTyped /\ PiecesWait /\ OneSplitFits /\ PlanKeepsLimits /\ SentByTheBest
  BY DEF RoutingInv
<1>2. /\ planning = "planned" /\ Len(sent) < parts
      /\ UNCHANGED <<intent, planning, parts, calls, listed, sent, fillHistory, changes>>
  BY DEF GenerateRoutes, planVars
<1>3. PICK list \in [1 .. SmallerOf(Cardinality(Candidates), MaxRoutes) -> Candidates] : routes' = list
  BY DEF GenerateRoutes
<1>4. Candidates \subseteq Route
  <2> DEFINE Makers == IF intent.type = "market" THEN {FALSE} ELSE BOOLEAN
  <2>1. Takers \subseteq ToSet(Exchanges) /\ Makers \subseteq BOOLEAN
    BY <1>1 DEF RoutingTyped, Takers
  <2>2. Candidates = {[exchange |-> x, maker |-> m] : x \in Takers, m \in Makers}
    BY DEF Candidates
  <2> HIDE DEF Makers
  <2>3. QED
    BY <2>1, <2>2 DEF Route
<1>5. routes' \in Seq(Route)
  <2> DEFINE k == SmallerOf(Cardinality(Candidates), MaxRoutes)
  <2>1. k \in Nat
    <3>1. IsFiniteSet(ToSet(Exchanges))
      <4>1. IsFiniteSet(DOMAIN Exchanges)
        <5>1. Len(Exchanges) \in Nat /\ DOMAIN Exchanges = 1 .. Len(Exchanges)
          BY RoutingAssumption
        <5>2. QED
          BY <5>1, UpToN
      <4>2. IsFiniteSet({Exchanges[i] : i \in DOMAIN Exchanges})
        BY <4>1, FiniteImage
      <4>3. QED
        BY <4>2 DEF ToSet
    <3>2. IsFiniteSet(ToSet(Exchanges) \X BOOLEAN)
      <4>1. IsFiniteSet(BOOLEAN)
        <5>1. IsFiniteSet({TRUE}) /\ BOOLEAN = {TRUE} \cup {FALSE}
          BY FS_Singleton
        <5>2. IsFiniteSet({TRUE} \cup {FALSE})
          BY <5>1, FS_AddElement
        <5>3. QED
          BY <5>1, <5>2
      <4>2. QED
        BY <3>1, <4>1, FS_Product
    <3> DEFINE pair == [p \in ToSet(Exchanges) \X BOOLEAN |-> [exchange |-> p[1], maker |-> p[2]]]
    <3>3. IsFiniteSet({pair[p] : p \in ToSet(Exchanges) \X BOOLEAN})
      <4> HIDE DEF pair
      <4>1. QED
        BY <3>2, FiniteImage
    <3>4. Route \subseteq {pair[p] : p \in ToSet(Exchanges) \X BOOLEAN}
      <4>1. SUFFICES ASSUME NEW r \in Route
                     PROVE  \E p \in ToSet(Exchanges) \X BOOLEAN : r = pair[p]
        OBVIOUS
      <4>2. <<r.exchange, r.maker>> \in ToSet(Exchanges) \X BOOLEAN
        BY DEF Route
      <4>3. r = [exchange |-> r.exchange, maker |-> r.maker]
        BY DEF Route
      <4>4. QED
        BY <4>2, <4>3
    <3>5. IsFiniteSet(Candidates)
      BY <1>4, <3>3, <3>4, FS_Subset
    <3>6. Cardinality(Candidates) \in Nat
      BY <3>5, FS_CardinalityType
    <3>7. QED
      BY <3>6, RoutingAssumption DEF SmallerOf
  <2> HIDE DEF k
  <2>2. list \in [1 .. k -> Route]
    BY <1>3, <1>4 DEF k
  <2>3. QED
    BY <1>3, <2>1, <2>2, SeqDef
<1>6. RoutingTyped'
  BY <1>1, <1>2, <1>5 DEF RoutingTyped
<1>7. PiecesWait'
  BY <1>1, <1>2 DEF PiecesWait
<1>8. OneSplitFits' /\ PlanKeepsLimits'
  BY <1>1, <1>2 DEF OneSplitFits, PlanKeepsLimits
<1>9. SentByTheBest'
  BY <1>1, <1>2 DEF SentByTheBest, Score
<1>10. QED
  BY <1>6, <1>7, <1>8, <1>9 DEF RoutingInv

LEMMA SendKeeps == ASSUME RoutingInv, SelectAndSend PROVE RoutingInv'
<1> DEFINE piece == [route |-> Best(routes), offered |-> ToSet(routes)]
           n == Len(sent) + 1
<1>1. RoutingTyped /\ PiecesWait /\ OneSplitFits /\ PlanKeepsLimits /\ SentByTheBest
  BY DEF RoutingInv
<1>2. /\ routes # <<>> /\ sent' = Append(sent, piece) /\ routes' = <<>>
      /\ UNCHANGED <<intent, planning, parts, calls, listed, fillHistory, changes>>
  BY DEF SelectAndSend, planVars
<1>3. routes \in Seq(Route) /\ sent \in Seq([route : Route, offered : SUBSET Route]) /\ parts \in Nat
  BY <1>1 DEF RoutingTyped
<1>4. /\ piece.route \in piece.offered /\ piece.offered \in SUBSET Route
      /\ \A r \in piece.offered : Score(r) <= Score(piece.route)
      /\ piece \in [route : Route, offered : SUBSET Route]
  BY <1>2, <1>3, BestIsBest
<1> HIDE DEF piece
<1>5. /\ sent' \in Seq([route : Route, offered : SUBSET Route]) /\ Len(sent') = n /\ Len(sent) \in Nat
      /\ DOMAIN sent' = 1 .. n /\ DOMAIN sent = 1 .. Len(sent)
      /\ sent'[n] = piece /\ \A i \in 1 .. Len(sent) : sent'[i] = sent[i]
  BY <1>2, <1>3, <1>4
<1>6. planning = "planned" /\ Len(sent) < parts
  BY <1>1, <1>2 DEF PiecesWait
<1>7. RoutingTyped'
  <2>1. routes' \in Seq(Route)
    BY <1>2
  <2>2. QED
    BY <1>1, <1>2, <1>5, <2>1 DEF RoutingTyped
<1>8. PiecesWait' /\ OneSplitFits' /\ PlanKeepsLimits'
  BY <1>1, <1>2, <1>6 DEF PiecesWait, OneSplitFits, PlanKeepsLimits
<1>9. SentByTheBest'
  <2>1. Len(sent') <= parts'
    BY <1>2, <1>3, <1>5, <1>6
  <2>2. ASSUME NEW i \in DOMAIN sent' PROVE /\ sent'[i].route \in sent'[i].offered
                                            /\ \A r \in sent'[i].offered : Score(r) <= Score(sent'[i].route)
    <3>1. CASE i \in 1 .. Len(sent)
      BY <1>1, <1>5, <3>1 DEF SentByTheBest
    <3>2. CASE i = n
      BY <1>4, <1>5, <3>2
    <3>3. QED
      BY <1>5, <2>2, <3>1, <3>2
  <2>3. \A r : Score(r)' = Score(r)
    BY <1>2 DEF Score
  <2>4. QED
    BY <1>2, <2>1, <2>2 DEF SentByTheBest, Score
<1>10. QED
  BY <1>7, <1>8, <1>9 DEF RoutingInv

LEMMA RecordKeeps == ASSUME RoutingInv, NEW i \in DOMAIN sent, RecordFill(i) PROVE RoutingInv'
<1> DEFINE longer == Append(fillHistory, i)
           half == HistoryLimit \div 2
<1>1. RoutingTyped /\ PiecesWait /\ OneSplitFits /\ PlanKeepsLimits /\ SentByTheBest
  BY DEF RoutingInv
<1>2. /\ fillHistory' = IF Len(longer) > HistoryLimit THEN SubSeq(longer, Len(longer) - half + 1, Len(longer)) ELSE longer
      /\ UNCHANGED <<intent, planning, parts, calls, listed, routes, sent, changes>>
  BY DEF RecordFill, planVars
<1>3. fillHistory \in Seq(Nat) /\ sent \in Seq([route : Route, offered : SUBSET Route])
  BY <1>1 DEF RoutingTyped
<1>4. longer \in Seq(Nat) /\ Len(longer) \in Nat
  <2>1. i \in Nat
    BY <1>3
  <2>2. QED
    BY <1>3, <2>1
<1>5. half \in Nat /\ half <= HistoryLimit /\ HistoryLimit \in Nat
  BY RoutingAssumption
<1> HIDE DEF longer, half
<1>6. fillHistory' \in Seq(Nat) /\ Len(fillHistory') <= HistoryLimit
  <2>1. CASE Len(longer) > HistoryLimit
    <3>1. Len(longer) - half + 1 \in 1 .. Len(longer) + 1 /\ Len(longer) \in Len(longer) - half .. Len(longer)
      BY <1>4, <1>5, <2>1
    <3>2. fillHistory' = SubSeq(longer, Len(longer) - half + 1, Len(longer))
      BY <1>2, <2>1
    <3>3. fillHistory' \in Seq(Nat) /\ Len(fillHistory') = Len(longer) - (Len(longer) - half + 1) + 1
      BY <1>4, <1>5, <2>1, <3>1, <3>2
    <3>4. QED
      BY <1>4, <1>5, <3>3
  <2>2. CASE ~ (Len(longer) > HistoryLimit)
    BY <1>2, <1>4, <1>5, <2>2
  <2>3. QED
    BY <2>1, <2>2
<1>7. RoutingTyped'
  BY <1>1, <1>2, <1>6 DEF RoutingTyped
<1>8. PiecesWait' /\ OneSplitFits' /\ PlanKeepsLimits'
  BY <1>1, <1>2 DEF PiecesWait, OneSplitFits, PlanKeepsLimits
<1>9. SentByTheBest'
  BY <1>1, <1>2 DEF SentByTheBest, Score
<1>10. QED
  BY <1>7, <1>8, <1>9 DEF RoutingInv

LEMMA RoutingStep == ASSUME RoutingInv, [RoutingNext]_routingVars PROVE RoutingInv'
<1>1. RoutingTyped /\ PiecesWait /\ OneSplitFits /\ PlanKeepsLimits /\ SentByTheBest
  BY DEF RoutingInv
<1>2. ASSUME UNCHANGED <<intent, planning, parts, calls, routes, sent, fillHistory>>, listed' \subseteq ToSet(Exchanges)
      PROVE  RoutingInv'
  <2>1. RoutingTyped'
    BY <1>1, <1>2 DEF RoutingTyped
  <2>2. PiecesWait' /\ OneSplitFits' /\ PlanKeepsLimits'
    BY <1>1, <1>2 DEF PiecesWait, OneSplitFits, PlanKeepsLimits
  <2>3. SentByTheBest'
    BY <1>1, <1>2 DEF SentByTheBest, Score
  <2>4. QED
    BY <2>1, <2>2, <2>3 DEF RoutingInv
<1>3. listed \subseteq ToSet(Exchanges)
  BY <1>1 DEF RoutingTyped
<1>4. CASE UNCHANGED routingVars
  BY <1>2, <1>3, <1>4 DEF routingVars, planVars, routeVars
<1>5. ASSUME NEW x \in ToSet(Exchanges), AddExchange(x) \/ RemoveExchange(x) PROVE RoutingInv'
  <2>1. UNCHANGED <<intent, planning, parts, calls, routes, sent, fillHistory>>
    BY <1>5 DEF AddExchange, RemoveExchange, planVars
  <2>2. listed' \subseteq ToSet(Exchanges)
    BY <1>3, <1>5 DEF AddExchange, RemoveExchange
  <2>3. QED
    BY <1>2, <2>1, <2>2
<1>6. QED
  BY <1>4, <1>5, PlanKeeps, RoutesKeep, SendKeeps, RecordKeeps DEF RoutingNext

LEMMA RoutingHolds == ASSUME RoutingInv PROVE RoutingTypeOK /\ PlanKeepsLimits /\ SentByTheBest
BY DEF RoutingInv, RoutingTyped, RoutingTypeOK
AuditRow == [request : Requests, result : {"rejected", "pending", "none", "submitted", "accepted"}]

BridgeTyped ==
  /\ bridge \in Bridges /\ execMode \in {"simulation", "paper", "live"}
  /\ armed \in BOOLEAN /\ gatewayUp \in BOOLEAN /\ feedUp \in BOOLEAN
  /\ gatewayOrders \in [Requests -> {"none", "submitted", "accepted"}]
  /\ submissions \in SUBSET Requests /\ accepted \in [Requests -> Nat]
  /\ simulating \in Requests \cup {Idle} /\ audit \in Seq(AuditRow) /\ Len(audit) <= AuditLimit
  /\ sends \in Nat /\ lost \in Nat /\ subscriptions \subseteq tickHandlers
  /\ healthLoops \in Nat /\ ownLoop \in BOOLEAN /\ (ownLoop => healthLoops > 0)

\* A request is on its way, or accepted, only once the gateway knows it.
OrdersKnown ==
  \A r \in Requests : /\ gatewayOrders[r] = "none" => accepted[r] = 0 /\ r \notin submissions
                      /\ r \in submissions => accepted[r] = 0
                      /\ accepted[r] <= 1

BridgeInv == BridgeTyped /\ OrdersKnown /\ EveryCallAudited

LEMMA BridgeInitial == BridgeInit => BridgeInv
<1> SUFFICES ASSUME BridgeInit PROVE BridgeInv
  OBVIOUS
<1>1. BridgeTyped
  <2>1. bridge \in Bridges /\ execMode \in {"simulation", "paper", "live"}
    BY BridgeAssumption DEF BridgeInit
  <2>2. audit \in Seq(AuditRow) /\ Len(audit) <= AuditLimit
    BY BridgeAssumption DEF BridgeInit
  <2>3. QED
    BY <2>1, <2>2 DEF BridgeInit, BridgeTyped
<1>2. OrdersKnown
  BY DEF BridgeInit, OrdersKnown
<1>3. EveryCallAudited
  BY DEF BridgeInit, EveryCallAudited
<1>4. QED
  BY <1>1, <1>2, <1>3 DEF BridgeInv

\* A row more is on record, or counted as dropped with those before it.
LEMMA AuditKeeps ==
  ASSUME BridgeTyped, NEW r \in Requests, NEW result \in {"rejected", "pending", "none", "submitted", "accepted"},
         Audit(r, result)
  PROVE  /\ audit' \in Seq(AuditRow) /\ Len(audit') <= AuditLimit /\ lost' \in Nat
         /\ Len(audit') + lost' = Len(audit) + lost + 1 /\ Len(audit) \in Nat /\ Len(audit') \in Nat
<1> DEFINE row == [request |-> r, result |-> result]
           rows == Append(audit, row)
           half == AuditLimit \div 2
<1>1. audit \in Seq(AuditRow) /\ lost \in Nat /\ row \in AuditRow
  BY DEF BridgeTyped, AuditRow
<1> HIDE DEF row
<1>2. rows \in Seq(AuditRow) /\ Len(rows) = Len(audit) + 1 /\ Len(audit) \in Nat
  BY <1>1
<1>3. half \in Nat /\ half <= AuditLimit /\ AuditLimit \in Nat
  BY BridgeAssumption
<1>4. /\ audit' = IF Len(rows) > AuditLimit THEN SubSeq(rows, Len(rows) - half + 1, Len(rows)) ELSE rows
      /\ lost' = IF Len(rows) > AuditLimit THEN lost + Len(rows) - half ELSE lost
  BY DEF Audit, row
<1> HIDE DEF rows, half
<1>5. CASE Len(rows) > AuditLimit
  <2>1. audit' = SubSeq(rows, Len(rows) - half + 1, Len(rows)) /\ lost' = lost + Len(rows) - half
    BY <1>4, <1>5
  <2>2. Len(rows) - half + 1 \in 1 .. Len(rows) + 1 /\ Len(rows) \in Nat
    BY <1>2, <1>3, <1>5
  <2>3. audit' \in Seq(AuditRow) /\ Len(audit') = Len(rows) - (Len(rows) - half + 1) + 1
    BY <1>2, <1>3, <1>5, <2>1, <2>2
  <2>4. Len(audit') = half
    BY <1>3, <2>2, <2>3
  <2>5. lost + Len(rows) - half \in Nat /\ half + (lost + Len(rows) - half) = Len(audit) + lost + 1
    BY <1>1, <1>2, <1>3, <1>5
  <2>6. Len(audit') + lost' = half + (lost + Len(rows) - half)
    BY <2>1, <2>4, Zenon
  <2>7. QED
    BY <1>2, <1>3, <2>1, <2>3, <2>4, <2>5, <2>6
<1>6. CASE ~ (Len(rows) > AuditLimit)
  <2>1. audit' = rows /\ lost' = lost
    BY <1>4, <1>6
  <2>2. QED
    BY <1>1, <1>2, <1>3, <1>6, <2>1
<1>7. QED
  BY <1>5, <1>6

LEMMA GatewayKeeps ==
  ASSUME BridgeInv, NEW r \in Requests, GatewaySend(r), UNCHANGED accepted
  PROVE  /\ gatewayOrders' \in [Requests -> {"none", "submitted", "accepted"}]
         /\ submissions' \in SUBSET Requests /\ OrdersKnown'
<1>1. /\ gatewayOrders \in [Requests -> {"none", "submitted", "accepted"}]
      /\ submissions \in SUBSET Requests /\ accepted \in [Requests -> Nat] /\ OrdersKnown
  BY DEF BridgeInv, BridgeTyped
<1>2. CASE gatewayOrders[r] # "none"
  BY <1>1, <1>2 DEF GatewaySend, OrdersKnown
<1>3. CASE gatewayOrders[r] = "none"
  <2>1. /\ gatewayOrders' = [gatewayOrders EXCEPT ![r] = "submitted"]
        /\ submissions' = submissions \cup {r} /\ accepted' = accepted
    BY <1>3 DEF GatewaySend
  <2>2. QED
    BY <1>1, <1>3, <2>1 DEF OrdersKnown
<1>4. QED
  BY <1>2, <1>3

LEMMA SendOrderKeeps ==
  ASSUME BridgeInv, NEW r \in Requests, SendOrder(r)
  PROVE  BridgeInv'
<1>1. BridgeTyped /\ OrdersKnown /\ EveryCallAudited
  BY DEF BridgeInv
<1>2. /\ simulating = Idle /\ sends' = sends + 1
      /\ UNCHANGED <<bridge, execMode, armed, gatewayUp, feedUp, tickHandlers, subscriptions, healthLoops, ownLoop,
                     accepted, switches>>
  BY DEF SendOrder, linkVars, loopVars
<1>3. sends \in Nat /\ lost \in Nat /\ audit \in Seq(AuditRow) /\ r # Idle
      /\ gatewayOrders \in [Requests -> {"none", "submitted", "accepted"}]
  BY <1>1, BridgeAssumption DEF BridgeTyped, Idle
<1>4. Len(audit) + lost = sends /\ sends' \in Nat
  BY <1>1, <1>2, <1>3 DEF EveryCallAudited
<1>5. CASE Refused(r) \/ (execMode # "simulation" /\ ~ bridge.confirmed)
  <2>1. Audit(r, "rejected") /\ UNCHANGED <<simulating, gatewayOrders, submissions>>
    BY <1>5 DEF SendOrder
  <2>2. /\ audit' \in Seq(AuditRow) /\ Len(audit') <= AuditLimit /\ lost' \in Nat
        /\ Len(audit') + lost' = Len(audit) + lost + 1 /\ Len(audit') \in Nat
    BY <1>1, <2>1, AuditKeeps
  <2>3. BridgeTyped' /\ OrdersKnown'
    BY <1>1, <1>2, <1>4, <2>1, <2>2 DEF BridgeTyped, OrdersKnown
  <2>4. EveryCallAudited'
    BY <1>2, <1>4, <2>1, <2>2 DEF EveryCallAudited
  <2>5. QED
    BY <2>1, <2>3, <2>4 DEF BridgeInv
<1>6. CASE ~ (Refused(r) \/ (execMode # "simulation" /\ ~ bridge.confirmed)) /\ execMode = "simulation"
  <2>1. simulating' = r /\ UNCHANGED <<gatewayOrders, submissions, audit, lost>>
    BY <1>6 DEF SendOrder
  <2>2. BridgeTyped' /\ OrdersKnown'
    BY <1>1, <1>2, <1>4, <2>1 DEF BridgeTyped, OrdersKnown
  <2>3. EveryCallAudited'
    BY <1>2, <1>3, <1>4, <2>1 DEF EveryCallAudited
  <2>4. QED
    BY <2>1, <2>2, <2>3 DEF BridgeInv
<1>7. CASE ~ (Refused(r) \/ (execMode # "simulation" /\ ~ bridge.confirmed)) /\ execMode # "simulation"
  <2>1. GatewaySend(r) /\ Audit(r, gatewayOrders'[r]) /\ UNCHANGED <<simulating, accepted>>
    BY <1>2, <1>7 DEF SendOrder
  <2>2. /\ gatewayOrders' \in [Requests -> {"none", "submitted", "accepted"}]
        /\ submissions' \in SUBSET Requests /\ OrdersKnown'
    BY <2>1, GatewayKeeps
  <2>3. gatewayOrders'[r] \in {"rejected", "pending", "none", "submitted", "accepted"}
    BY <2>2
  <2>4. /\ audit' \in Seq(AuditRow) /\ Len(audit') <= AuditLimit /\ lost' \in Nat
        /\ Len(audit') + lost' = Len(audit) + lost + 1 /\ Len(audit') \in Nat
    BY <1>1, <2>1, <2>3, AuditKeeps
  <2>5. BridgeTyped'
    BY <1>1, <1>2, <1>4, <2>1, <2>2, <2>4 DEF BridgeTyped
  <2>6. EveryCallAudited'
    BY <1>2, <1>4, <2>1, <2>4 DEF EveryCallAudited
  <2>7. QED
    BY <2>2, <2>5, <2>6 DEF BridgeInv
<1>8. QED
  BY <1>5, <1>6, <1>7

LEMMA BridgeStep == ASSUME BridgeInv, [BridgeNext]_bridgeVars PROVE BridgeInv'
<1>1. BridgeTyped /\ OrdersKnown /\ EveryCallAudited
  BY DEF BridgeInv
<1>2. ASSUME UNCHANGED <<bridge, simulating, gatewayOrders, submissions, accepted, audit, sends, lost>>,
             execMode' \in {"simulation", "paper", "live"}, subscriptions' \subseteq tickHandlers',
             armed' \in BOOLEAN, gatewayUp' \in BOOLEAN, feedUp' \in BOOLEAN,
             healthLoops' \in Nat, ownLoop' \in BOOLEAN, ownLoop' => healthLoops' > 0
      PROVE  BridgeInv'
  <2>1. BridgeTyped'
    BY <1>1, <1>2 DEF BridgeTyped
  <2>2. OrdersKnown' /\ EveryCallAudited'
    BY <1>1, <1>2 DEF OrdersKnown, EveryCallAudited
  <2>3. QED
    BY <2>1, <2>2 DEF BridgeInv
<1>3. /\ execMode \in {"simulation", "paper", "live"} /\ subscriptions \subseteq tickHandlers
      /\ armed \in BOOLEAN /\ gatewayUp \in BOOLEAN /\ feedUp \in BOOLEAN
      /\ healthLoops \in Nat /\ ownLoop \in BOOLEAN /\ (ownLoop => healthLoops > 0)
  BY <1>1 DEF BridgeTyped
<1>4. CASE UNCHANGED bridgeVars
  <2>1. UNCHANGED <<bridge, simulating, gatewayOrders, submissions, accepted, audit, sends, lost>>
    BY <1>4 DEF bridgeVars, orderLogVars
  <2>2. UNCHANGED <<execMode, armed, gatewayUp, feedUp, tickHandlers, subscriptions, healthLoops, ownLoop>>
    BY <1>4 DEF bridgeVars, linkVars, loopVars
  <2>3. QED
    BY <1>2, <1>3, <2>1, <2>2
<1>5. CASE Initialize \/ Shutdown
  <2>1. UNCHANGED <<bridge, simulating, gatewayOrders, submissions, accepted, audit, sends, lost, execMode, armed, tickHandlers>>
    BY <1>5 DEF Initialize, Shutdown, orderLogVars
  <2>2. gatewayUp' \in BOOLEAN /\ feedUp' \in BOOLEAN /\ subscriptions' \subseteq tickHandlers
    BY <1>3, <1>5 DEF Initialize, Shutdown
  <2>3. healthLoops' \in Nat /\ ownLoop' \in BOOLEAN /\ (ownLoop' => healthLoops' > 0)
    <3>1. CASE Initialize
      BY <1>3, <3>1 DEF Initialize
    <3>2. CASE Shutdown
      <4>1. ownLoop' = FALSE /\ healthLoops' = (IF ownLoop THEN healthLoops - 1 ELSE healthLoops)
        BY <3>2 DEF Shutdown
      <4>2. healthLoops' \in Nat
        <5>1. CASE ownLoop
          BY <1>3, <4>1, <5>1
        <5>2. CASE ~ ownLoop
          BY <1>3, <4>1, <5>2
        <5>3. QED
          BY <5>1, <5>2
      <4>3. QED
        BY <4>1, <4>2
    <3>3. QED
      BY <1>5, <3>1, <3>2
  <2>4. QED
    BY <1>2, <1>3, <2>1, <2>2, <2>3
<1>a. CASE GatewayDisconnect \/ FeedDisconnect \/ ArmKillSwitch \/ DisarmKillSwitch \/ HealthCheck
  BY <1>2, <1>3, <1>a DEF GatewayDisconnect, FeedDisconnect, ArmKillSwitch, DisarmKillSwitch, HealthCheck,
                          linkVars, loopVars, orderLogVars
<1>6. CASE \E s \in Instruments : SubscribeTick(s)
  <2>1. PICK s \in Instruments : SubscribeTick(s)
    BY <1>6
  <2>2. subscriptions' \subseteq tickHandlers'
    BY <1>3, <2>1 DEF SubscribeTick
  <2>3. QED
    BY <1>2, <1>3, <2>1, <2>2 DEF SubscribeTick, orderLogVars, loopVars
<1>7. CASE \E m \in {"simulation", "paper", "live"} : SetExecutionMode(m)
  BY <1>2, <1>3, <1>7 DEF SetExecutionMode, linkVars, loopVars, orderLogVars
<1>8. CASE SimulatedAnswer
  <2>1. /\ simulating # Idle /\ Audit(simulating, "pending") /\ simulating' = Idle
        /\ UNCHANGED <<bridge, execMode, armed, gatewayUp, feedUp, tickHandlers, subscriptions, healthLoops, ownLoop,
                       gatewayOrders, submissions, accepted, sends>>
    BY <1>8 DEF SimulatedAnswer, linkVars, loopVars
  <2>2. simulating \in Requests
    BY <1>1, <2>1 DEF BridgeTyped
  <2>3. /\ audit' \in Seq(AuditRow) /\ Len(audit') <= AuditLimit /\ lost' \in Nat
        /\ Len(audit') + lost' = Len(audit) + lost + 1 /\ Len(audit') \in Nat /\ Len(audit) \in Nat
    BY <1>1, <2>1, <2>2, AuditKeeps
  <2>4. BridgeTyped' /\ OrdersKnown'
    BY <1>1, <2>1, <2>3 DEF BridgeTyped, OrdersKnown
  <2>5. EveryCallAudited'
    <3>1. lost \in Nat /\ sends \in Nat /\ Len(audit) + lost + 1 = sends
      BY <1>1, <2>1 DEF EveryCallAudited, BridgeTyped
    <3>2. QED
      BY <2>1, <2>3, <3>1 DEF EveryCallAudited
  <2>6. QED
    BY <2>4, <2>5 DEF BridgeInv
<1>9. ASSUME NEW r \in Requests, SubmitToGateway(r) PROVE BridgeInv'
  <2>1. /\ r \in submissions /\ submissions' = submissions \ {r}
        /\ gatewayOrders' = [gatewayOrders EXCEPT ![r] = "accepted"]
        /\ accepted' = [accepted EXCEPT ![r] = accepted[r] + 1]
        /\ UNCHANGED <<bridge, execMode, armed, gatewayUp, feedUp, tickHandlers, subscriptions, healthLoops, ownLoop,
                       simulating, audit, sends, lost>>
    BY <1>9 DEF SubmitToGateway, linkVars, loopVars
  <2>2. /\ gatewayOrders \in [Requests -> {"none", "submitted", "accepted"}]
        /\ accepted \in [Requests -> Nat] /\ submissions \in SUBSET Requests
    BY <1>1 DEF BridgeTyped
  <2>3. accepted[r] = 0 /\ gatewayOrders[r] # "none"
    BY <1>1, <2>1 DEF OrdersKnown
  <2>4. BridgeTyped'
    BY <1>1, <2>1, <2>2, <2>3 DEF BridgeTyped
  <2>5. OrdersKnown'
    BY <1>1, <2>1, <2>2, <2>3 DEF OrdersKnown
  <2>6. EveryCallAudited'
    BY <1>1, <2>1 DEF EveryCallAudited
  <2>7. QED
    BY <2>4, <2>5, <2>6 DEF BridgeInv
<1>10. ASSUME NEW r \in Requests, SendOrder(r) PROVE BridgeInv'
  BY <1>10, SendOrderKeeps
<1>11. QED
  BY <1>4, <1>5, <1>a, <1>6, <1>7, <1>8, <1>9, <1>10 DEF BridgeNext

LEMMA BridgeHolds == ASSUME BridgeInv PROVE BridgeTypeOK /\ OneOrderPerRequest /\ EveryCallAudited
<1>1. OneOrderPerRequest
  BY DEF BridgeInv, BridgeTyped, OrdersKnown, OneOrderPerRequest
<1>2. QED
  BY <1>1 DEF BridgeInv, BridgeTyped, BridgeTypeOK
-----------------------------------------------------------------------------
(***************************************************************************)
(* ExchangeValidator: each window remembers what was accepted in its time, *)
(* and the position stays where the limit of one order lets it.            *)
(***************************************************************************)
ValidatorKinds == {"total", "rejected", "limited"}

\* The stamps are in the order of time, no more of them than the limits say, and those
\* of the second are the end of those of the minute.
StampsTyped ==
  /\ validatorTime \in 0 .. MaxValidatorTime
  /\ secondStamps \in Seq(Nat) /\ Len(secondStamps) <= PerSecond /\ NeverFalls(secondStamps)
  /\ minuteStamps \in Seq(Nat) /\ Len(minuteStamps) <= PerMinute /\ NeverFalls(minuteStamps)
  /\ \A i \in 1 .. Len(secondStamps) : secondStamps[i] <= validatorTime
  /\ \A i \in 1 .. Len(minuteStamps) : minuteStamps[i] <= validatorTime
  /\ acceptedAt \in Seq(Nat) /\ \A i \in 1 .. Len(acceptedAt) : acceptedAt[i] <= validatorTime

\* One sequence is the end of another.
AtTheEnd(q, p) ==
  Len(q) <= Len(p) /\ \A i \in 1 .. Len(q) : q[i] = p[(Len(p) - Len(q)) + i]

\* In the time of a window, no more orders were accepted than it remembers.
Recalls(stamps, length) ==
  \A t \in Int : t >= validatorTime - length =>
                   Cardinality(After(acceptedAt, t)) <= Cardinality(After(stamps, t))

\* Those accepted in the time before an order, with it.
Recent(i, length) == {j \in 1 .. i : acceptedAt[i] - acceptedAt[j] < length}

WithinRates ==
  \A i \in 1 .. Len(acceptedAt) :
    Cardinality(Recent(i, SecondTicks)) <= PerSecond /\ Cardinality(Recent(i, MinuteTicks)) <= PerMinute

StampInv ==
  /\ StampsTyped /\ AtTheEnd(secondStamps, minuteStamps)
  /\ Recalls(secondStamps, SecondTicks) /\ Recalls(minuteStamps, MinuteTicks)
  /\ WithinRates

\* What is in flight fits the exchange; at most one order is, if none overlapped, and
\* the position is near its limit with it and without it.
FlightInv ==
  /\ holding \in Int /\ overlapped \in BOOLEAN /\ inFlight \in Seq(Int)
  /\ \A i \in 1 .. Len(inFlight) : inFlight[i] % 2 = 0 /\ QuantityFits(Unsigned(inFlight[i]))
  /\ ~ overlapped =>
       /\ Len(inFlight) <= 1 /\ Unsigned(holding) <= HoldingLimit + 1
       /\ Len(inFlight) = 1 => Unsigned(holding + inFlight[1]) <= HoldingLimit + 1

CountInv ==
  /\ validatorStats \in [ValidatorKinds -> Nat]
  /\ validatorStats["total"] >=
       validatorStats["rejected"] + validatorStats["limited"] + Len(acceptedAt)

ValidatorInv == StampInv /\ FlightInv /\ CountInv

-----------------------------------------------------------------------------
LEMMA ValidatorConstants ==
  /\ SecondTicks \in Nat /\ MinuteTicks \in Nat /\ SecondTicks <= MinuteTicks
  /\ SecondTicks >= 1 /\ PerSecond \in Nat /\ PerMinute \in Nat /\ HoldingLimit \in Nat
  /\ LeastSize \in Nat /\ MostSize \in Nat /\ LeastSize % 2 = 0 /\ MostSize % 2 = 0
  /\ MaxValidatorTime \in Nat /\ \A size \in OrderSizes : size \in Nat /\ size > 0
BY ValidatorAssumption

\* The validator has seen nothing at its start.
LEMMA ValidatorInitial == ValidatorInit => ValidatorInv
<1>1. SUFFICES ASSUME ValidatorInit PROVE ValidatorInv
  OBVIOUS
<1>2. StampsTyped
  BY <1>1, ValidatorConstants DEF ValidatorInit, StampsTyped, NeverFalls
<1>3. AtTheEnd(secondStamps, minuteStamps) /\ WithinRates
  BY <1>1 DEF ValidatorInit, AtTheEnd, WithinRates
<1>4. Recalls(secondStamps, SecondTicks) /\ Recalls(minuteStamps, MinuteTicks)
  <2>1. acceptedAt = secondStamps /\ acceptedAt = minuteStamps
    BY <1>1 DEF ValidatorInit
  <2>2. \A t \in Int : Cardinality(After(acceptedAt, t)) \in Nat
    BY <1>2, AfterIsFinite DEF StampsTyped
  <2>3. \A t \in Int : Cardinality(After(acceptedAt, t)) <= Cardinality(After(acceptedAt, t))
    BY <2>2
  <2>4. QED
    BY <2>1, <2>3 DEF Recalls
<1>5. FlightInv
  <2>1. holding = 0 /\ overlapped = FALSE /\ inFlight = <<>> /\ Len(inFlight) = 0
    BY <1>1 DEF ValidatorInit
  <2>2. inFlight \in Seq(Int) /\ \A i \in 1 .. Len(inFlight) : FALSE
    BY <2>1
  <2>3. Unsigned(holding) <= HoldingLimit + 1 /\ Len(inFlight) <= 1 /\ Len(inFlight) # 1
    BY <2>1, ValidatorConstants DEF Unsigned
  <2>4. holding \in Int /\ overlapped \in BOOLEAN
    <3>1. overlapped \in BOOLEAN
      BY <2>1, Zenon
    <3>2. QED
      BY <2>1, <3>1
  <2>5. \A i \in 1 .. Len(inFlight) : inFlight[i] % 2 = 0 /\ QuantityFits(Unsigned(inFlight[i]))
    BY <2>2
  <2>6. QED
    BY <2>2, <2>3, <2>4, <2>5, Zenon DEF FlightInv
<1>6. CountInv
  <2>1. validatorStats = [total |-> 0, rejected |-> 0, limited |-> 0] /\ acceptedAt = <<>>
    BY <1>1 DEF ValidatorInit
  <2>2. validatorStats \in [ValidatorKinds -> Nat]
    BY <2>1 DEF ValidatorKinds
  <2>3. QED
    BY <2>1, <2>2 DEF CountInv
<1>7. QED
  BY <1>2, <1>3, <1>4, <1>5, <1>6 DEF ValidatorInv, StampInv

\* A window keeps the younger end of its stamps.
LEMMA WindowCut ==
  ASSUME StampsTyped, NEW q \in Seq(Nat), NeverFalls(q), NEW length \in Nat
  PROVE  \E d \in 0 .. Len(q) :
           /\ InWindow(q, length) \in Seq(Nat) /\ Len(InWindow(q, length)) = Len(q) - d
           /\ \A i \in 1 .. Len(InWindow(q, length)) : InWindow(q, length)[i] = q[d + i]
           /\ \A i \in 1 .. Len(q) : i <= d <=> validatorTime - q[i] >= length
<1> DEFINE D == {i \in DOMAIN q : validatorTime - q[i] >= length}
           d == Cardinality(D)
<1>1. Len(q) \in Nat /\ DOMAIN q = 1 .. Len(q) /\ \A i \in 1 .. Len(q) : q[i] \in Nat
  OBVIOUS
<1>2. validatorTime \in Nat
  BY ValidatorConstants DEF StampsTyped
<1>3. D \in SUBSET (1 .. Len(q)) /\ \A i : i \in D <=> i \in 1 .. Len(q) /\ validatorTime - q[i] >= length
  BY <1>1
<1>4. \A i \in D : \A j \in 1 .. Len(q) : j <= i => j \in D
  <2>1. TAKE i \in D
  <2>2. TAKE j \in 1 .. Len(q)
  <2>3. HAVE j <= i
  <2>4. q[j] <= q[i] /\ validatorTime - q[i] >= length
    BY <1>1, <1>3, <2>3 DEF NeverFalls
  <2>5. q[j] \in Nat /\ q[i] \in Nat
    BY <1>1, <1>3
  <2>6. validatorTime - q[j] >= length
    BY <1>2, <2>4, <2>5
  <2>7. QED
    BY <1>3, <2>6
<1> HIDE DEF D
<1>5. d \in 0 .. Len(q) /\ \A i \in 1 .. Len(q) : i \in D <=> i <= d
  BY <1>1, <1>3, <1>4, Beginning
<1>6. InWindow(q, length) = SubSeq(q, 1 + d, Len(q))
  BY DEF InWindow, D
<1> HIDE DEF d
<1>7. /\ SubSeq(q, 1 + d, Len(q)) \in Seq(Nat) /\ Len(SubSeq(q, 1 + d, Len(q))) = Len(q) - d
      /\ \A i \in 1 .. Len(q) - d : SubSeq(q, 1 + d, Len(q))[i] = q[d + i]
  <2> DEFINE m == Len(q) - d
             rest == [i \in 1 .. m |-> q[d + i]]
  <2>1. SubSeq(q, 1 + d, Len(q)) = rest
    BY <1>1, <1>5
  <2>2. m \in Nat /\ \A i \in 1 .. m : q[d + i] \in Nat
    BY <1>1, <1>5
  <2> HIDE DEF m
  <2>3. rest \in Seq(Nat) /\ Len(rest) = m /\ \A i \in 1 .. m : rest[i] = q[d + i]
    BY <2>2
  <2> HIDE DEF rest
  <2>4. QED
    BY <2>1, <2>3 DEF m
<1>8. \A i \in 1 .. Len(q) : i <= d <=> validatorTime - q[i] >= length
  BY <1>3, <1>5
<1>9. QED
  BY <1>5, <1>6, <1>7, <1>8
\* So it recalls as much of what was accepted in its time.
LEMMA WindowRecalls ==
  ASSUME StampsTyped, NEW q \in Seq(Nat), NeverFalls(q), \A i \in 1 .. Len(q) : q[i] <= validatorTime,
         NEW length \in Nat, Recalls(q, length), NEW w, w = InWindow(q, length)
  PROVE  /\ w \in Seq(Nat) /\ Len(w) <= Len(q) /\ NeverFalls(w) /\ Recalls(w, length)
         /\ \A i \in 1 .. Len(w) : w[i] <= validatorTime
<1>1. PICK d \in 0 .. Len(q) :
           /\ w \in Seq(Nat) /\ Len(w) = Len(q) - d
           /\ \A i \in 1 .. Len(w) : w[i] = q[d + i]
           /\ \A i \in 1 .. Len(q) : i <= d <=> validatorTime - q[i] >= length
  BY WindowCut
<1>2. /\ Len(q) \in Nat /\ Len(w) \in Nat /\ DOMAIN q = 1 .. Len(q) /\ DOMAIN w = 1 .. Len(w)
      /\ \A i \in 1 .. Len(q) : q[i] \in Nat
  BY <1>1
<1>3. \A i \in 1 .. Len(w) : d + i \in 1 .. Len(q)
  BY <1>1, <1>2
<1>4. NeverFalls(w)
  <2>1. SUFFICES ASSUME NEW i \in 1 .. Len(w), NEW j \in 1 .. Len(w), i <= j PROVE w[i] <= w[j]
    BY <1>2 DEF NeverFalls
  <2>2. d + i \in 1 .. Len(q) /\ d + j \in 1 .. Len(q) /\ d + i <= d + j
    BY <1>2, <1>3, <2>1
  <2>3. q[d + i] <= q[d + j]
    BY <1>2, <2>2 DEF NeverFalls
  <2>4. QED
    BY <1>1, <2>3
<1>5. \A i \in 1 .. Len(w) : w[i] <= validatorTime
  BY <1>1, <1>3
<1>6. Recalls(w, length)
  <2>1. SUFFICES ASSUME NEW t \in Int, t >= validatorTime - length
                 PROVE  Cardinality(After(acceptedAt, t)) <= Cardinality(After(w, t))
    BY DEF Recalls
  <2>2. validatorTime \in Nat
    BY ValidatorConstants DEF StampsTyped
  <2>3. \A i \in 1 .. d : ~ (q[i] > t)
    <3>1. TAKE i \in 1 .. d
    <3>2. i \in 1 .. Len(q) /\ validatorTime - q[i] >= length /\ q[i] \in Nat
      BY <1>1, <1>2
    <3>3. QED
      BY <2>1, <2>2, <3>2
  <2>4. Cardinality(After(w, t)) = Cardinality(After(q, t))
    BY <1>1, <2>3, AfterCut
  <2>5. QED
    BY <2>1, <2>4 DEF Recalls
<1>7. QED
  BY <1>1, <1>2, <1>4, <1>5, <1>6

\* The windows of the second and of the minute end alike.
LEMMA WindowsEndAlike ==
  ASSUME StampsTyped, AtTheEnd(secondStamps, minuteStamps),
         NEW s, s = InWindow(secondStamps, SecondTicks), NEW m, m = InWindow(minuteStamps, MinuteTicks)
  PROVE  AtTheEnd(s, m) /\ AtTheEnd(s, secondStamps)
<1> DEFINE q == secondStamps
           p == minuteStamps
<1>1. /\ q \in Seq(Nat) /\ NeverFalls(q) /\ p \in Seq(Nat) /\ NeverFalls(p)
      /\ validatorTime \in Nat /\ SecondTicks \in Nat /\ MinuteTicks \in Nat /\ SecondTicks <= MinuteTicks
  BY ValidatorConstants DEF StampsTyped
<1>2. Len(q) \in Nat /\ Len(p) \in Nat /\ Len(q) <= Len(p)
      /\ \A i \in 1 .. Len(q) : q[i] = p[(Len(p) - Len(q)) + i]
  BY <1>1 DEF AtTheEnd
<1> HIDE DEF q, p
<1>3. PICK d \in 0 .. Len(q) :
           /\ s \in Seq(Nat) /\ Len(s) = Len(q) - d
           /\ \A i \in 1 .. Len(s) : s[i] = q[d + i]
           /\ \A i \in 1 .. Len(q) : i <= d <=> validatorTime - q[i] >= SecondTicks
  BY <1>1, WindowCut DEF q
<1>4. PICK e \in 0 .. Len(p) :
           /\ m \in Seq(Nat) /\ Len(m) = Len(p) - e
           /\ \A i \in 1 .. Len(m) : m[i] = p[e + i]
           /\ \A i \in 1 .. Len(p) : i <= e <=> validatorTime - p[i] >= MinuteTicks
  BY <1>1, WindowCut DEF p
<1>5. Len(s) \in Nat /\ Len(m) \in Nat
  BY <1>3, <1>4
<1>6. Len(s) <= Len(m)
  <2>1. CASE d = Len(q)
    BY <1>2, <1>3, <1>5, <2>1
  <2>2. CASE d < Len(q)
    <3>1. d + 1 \in 1 .. Len(q) /\ ~ (d + 1 <= d) /\ (Len(p) - Len(q)) + (d + 1) \in 1 .. Len(p)
      BY <1>2, <2>2
    <3>2. q[d + 1] = p[(Len(p) - Len(q)) + (d + 1)] /\ q[d + 1] \in Nat
      <4>1. \A i \in 1 .. Len(q) : q[i] = p[(Len(p) - Len(q)) + i]
        BY <1>2
      <4>2. \A i \in 1 .. Len(q) : q[i] \in Nat
        BY <1>1
      <4>3. d + 1 \in 1 .. Len(q)
        BY <3>1
      <4>4. QED
        BY <4>1, <4>2, <4>3, Zenon
    <3>3. ~ (validatorTime - q[d + 1] >= SecondTicks)
      BY <1>3, <3>1
    <3>4. ~ (validatorTime - q[d + 1] >= MinuteTicks)
      BY <1>1, <3>2, <3>3
    <3>5. ~ ((Len(p) - Len(q)) + (d + 1) <= e)
      BY <1>4, <3>1, <3>2, <3>4
    <3>6. QED
      BY <1>2, <1>3, <1>4, <3>5
  <2>3. QED
    BY <1>2, <2>1, <2>2
<1>7. \A i \in 1 .. Len(s) : s[i] = m[(Len(m) - Len(s)) + i]
  <2>1. TAKE i \in 1 .. Len(s)
  <2>2. s[i] = q[d + i] /\ d + i \in 1 .. Len(q)
    BY <1>2, <1>3, <1>5
  <2>3. q[d + i] = p[(Len(p) - Len(q)) + (d + i)]
    BY <1>2, <2>2
  <2>4. (Len(m) - Len(s)) + i \in 1 .. Len(m)
    BY <1>5, <1>6
  <2>5. m[(Len(m) - Len(s)) + i] = p[e + ((Len(m) - Len(s)) + i)]
    BY <1>4, <2>4
  <2>6. e + ((Len(m) - Len(s)) + i) = (Len(p) - Len(q)) + (d + i)
    BY <1>2, <1>3, <1>4
  <2>7. QED
    BY <2>2, <2>3, <2>5, <2>6
<1>8. \A i \in 1 .. Len(s) : s[i] = q[(Len(q) - Len(s)) + i]
  <2>1. Len(q) - Len(s) = d
    BY <1>2, <1>3
  <2>2. QED
    BY <1>3, <2>1
<1>9. AtTheEnd(s, m)
  BY <1>6, <1>7 DEF AtTheEnd
<1>10. Len(s) <= Len(q)
  BY <1>2, <1>3
<1>11. QED
  BY <1>8, <1>9, <1>10 DEF AtTheEnd, q

\* They do when both are added to, and an end of an end is one.
LEMMA EndsTogether ==
  ASSUME NEW q \in Seq(Nat), NEW p \in Seq(Nat), AtTheEnd(q, p), NEW v \in Nat
  PROVE  AtTheEnd(Append(q, v), Append(p, v))
<1> DEFINE q1 == Append(q, v)
           p1 == Append(p, v)
<1>1. /\ Len(q) \in Nat /\ Len(p) \in Nat /\ Len(q) <= Len(p)
      /\ \A i \in 1 .. Len(q) : q[i] = p[(Len(p) - Len(q)) + i]
  BY DEF AtTheEnd
<1>2. /\ Len(q1) = Len(q) + 1 /\ Len(p1) = Len(p) + 1 /\ q1[Len(q) + 1] = v /\ p1[Len(p) + 1] = v
      /\ (\A i \in 1 .. Len(q) : q1[i] = q[i]) /\ (\A i \in 1 .. Len(p) : p1[i] = p[i])
  OBVIOUS
<1> HIDE DEF q1, p1
<1>3. ASSUME NEW i \in 1 .. Len(q1) PROVE q1[i] = p1[(Len(p1) - Len(q1)) + i]
  <2>1. (Len(p1) - Len(q1)) + i = (Len(p) - Len(q)) + i
    BY <1>1, <1>2
  <2>2. CASE i = Len(q) + 1
    <3>1. (Len(p) - Len(q)) + i = Len(p) + 1
      BY <1>1, <2>2
    <3>2. QED
      BY <1>2, <2>1, <2>2, <3>1
  <2>3. CASE i \in 1 .. Len(q)
    <3>1. (Len(p) - Len(q)) + i \in 1 .. Len(p)
      BY <1>1, <2>3
    <3>2. QED
      BY <1>1, <1>2, <2>1, <2>3, <3>1
  <2>4. QED
    BY <1>1, <1>2, <2>2, <2>3
<1>4. Len(q1) <= Len(p1)
  BY <1>1, <1>2
<1>5. QED
  BY <1>3, <1>4 DEF AtTheEnd, q1, p1

LEMMA EndIsSuffix ==
  ASSUME NEW q \in Seq(Nat), NEW p \in Seq(Nat), NEW r \in Seq(Nat), AtTheEnd(q, p), AtTheEnd(r, q)
  PROVE  IsSuffix(r, p)
<1> DEFINE a == Reverse(r)
           b == Reverse(p)
<1>1. /\ Len(q) \in Nat /\ Len(p) \in Nat /\ Len(r) \in Nat /\ Len(q) <= Len(p) /\ Len(r) <= Len(q)
      /\ (\A i \in 1 .. Len(q) : q[i] = p[(Len(p) - Len(q)) + i])
      /\ \A i \in 1 .. Len(r) : r[i] = q[(Len(q) - Len(r)) + i]
  BY DEF AtTheEnd
<1>2. \A i \in 1 .. Len(r) : r[i] = p[(Len(p) - Len(r)) + i]
  <2>1. TAKE i \in 1 .. Len(r)
  <2>2. (Len(q) - Len(r)) + i \in 1 .. Len(q)
    BY <1>1
  <2>3. (Len(p) - Len(q)) + ((Len(q) - Len(r)) + i) = (Len(p) - Len(r)) + i
    BY <1>1
  <2>4. QED
    BY <1>1, <2>2, <2>3
<1>3. /\ a \in Seq(Nat) /\ Len(a) = Len(r) /\ \A i \in 1 .. Len(r) : a[i] = r[(Len(r) - i) + 1]
  BY DEF Reverse
<1>4. /\ b \in Seq(Nat) /\ Len(b) = Len(p) /\ \A i \in 1 .. Len(p) : b[i] = p[(Len(p) - i) + 1]
  BY DEF Reverse
<1> HIDE DEF a, b
<1>5. \A i \in 1 .. Len(r) : a[i] = b[i]
  <2>1. TAKE i \in 1 .. Len(r)
  <2>2. (Len(r) - i) + 1 \in 1 .. Len(r) /\ i \in 1 .. Len(p)
    BY <1>1
  <2>3. (Len(p) - Len(r)) + ((Len(r) - i) + 1) = (Len(p) - i) + 1
    BY <1>1
  <2>4. a[i] = p[(Len(p) - i) + 1]
    BY <1>2, <1>3, <2>2, <2>3
  <2>5. QED
    BY <1>4, <2>2, <2>4
<1>6. SubSeq(a, 1, Len(a)) = SubSeq(b, 1, Len(a))
  <2> DEFINE sa == SubSeq(a, 1, Len(a))
             sb == SubSeq(b, 1, Len(a))
  <2>1. sa = [i \in 1 .. Len(r) |-> a[i]]
    BY <1>1, <1>3
  <2>2. sb = [i \in 1 .. Len(r) |-> b[i]]
    BY <1>1, <1>3, <1>4
  <2>3. QED
    BY <1>5, <2>1, <2>2
<1>7. IsPrefix(a, b)
  BY <1>1, <1>3, <1>4, <1>6 DEF IsPrefix
<1>8. QED
  BY <1>7 DEF IsSuffix, a, b
\* A window that takes every stamp goes on recalling what is accepted.
LEMMA RecallsMore ==
  ASSUME StampsTyped, NEW w \in Seq(Nat), NEW length \in Nat, Recalls(w, length),
         acceptedAt' = acceptedAt \/ acceptedAt' = Append(acceptedAt, validatorTime)
  PROVE  \A t \in Int : t >= validatorTime - length =>
           Cardinality(After(acceptedAt', t)) <= Cardinality(After(Append(w, validatorTime), t))
<1>1. SUFFICES ASSUME NEW t \in Int, t >= validatorTime - length
               PROVE  Cardinality(After(acceptedAt', t)) <= Cardinality(After(Append(w, validatorTime), t))
  OBVIOUS
<1>2. validatorTime \in Nat /\ acceptedAt \in Seq(Nat)
  BY ValidatorConstants DEF StampsTyped
<1>3. Cardinality(After(acceptedAt, t)) <= Cardinality(After(w, t))
  BY <1>1 DEF Recalls
<1>4. Cardinality(After(acceptedAt, t)) \in Nat /\ Cardinality(After(w, t)) \in Nat
  BY <1>2, AfterIsFinite
<1>5. /\ Cardinality(After(Append(w, validatorTime), t)) =
           Cardinality(After(w, t)) + (IF validatorTime > t THEN 1 ELSE 0)
      /\ Cardinality(After(Append(acceptedAt, validatorTime), t)) =
           Cardinality(After(acceptedAt, t)) + (IF validatorTime > t THEN 1 ELSE 0)
  BY <1>2, AfterAppend
<1> DEFINE one == IF validatorTime > t THEN 1 ELSE 0
<1>6. one \in 0 .. 1
  OBVIOUS
<1>7. Cardinality(After(acceptedAt', t)) = Cardinality(After(acceptedAt, t))
      \/ Cardinality(After(acceptedAt', t)) = Cardinality(After(acceptedAt, t)) + one
  BY <1>5, Zenon
<1>8. Cardinality(After(Append(w, validatorTime), t)) = Cardinality(After(w, t)) + one
  BY <1>5, Zenon
<1> HIDE DEF one
<1>9. QED
  BY <1>3, <1>4, <1>6, <1>7, <1>8

\* What a limit says of the orders before an accepted one stays true of it.
LEMMA RatesStay ==
  ASSUME StampsTyped, WithinRates, NEW v \in Nat, acceptedAt' = Append(acceptedAt, v)
  PROVE  \A i \in 1 .. Len(acceptedAt) :
           Cardinality(Recent(i, SecondTicks)') <= PerSecond /\ Cardinality(Recent(i, MinuteTicks)') <= PerMinute
<1>1. TAKE i \in 1 .. Len(acceptedAt)
<1>2. acceptedAt \in Seq(Nat)
  BY DEF StampsTyped
<1>3. \A j \in 1 .. i : acceptedAt'[j] = acceptedAt[j]
  BY <1>2
<1>4. Recent(i, SecondTicks)' = Recent(i, SecondTicks) /\ Recent(i, MinuteTicks)' = Recent(i, MinuteTicks)
  <2>1. i \in 1 .. i
    OBVIOUS
  <2>2. \A j \in 1 .. i : acceptedAt'[i] - acceptedAt'[j] = acceptedAt[i] - acceptedAt[j]
    BY <1>3, <2>1
  <2>3. QED
    BY <2>2 DEF Recent
<1>5. QED
  BY <1>4 DEF WithinRates

\* The newest is one of those the window recalls.
LEMMA NewestWithinRate ==
  ASSUME StampsTyped, NEW w \in Seq(Nat), NEW length \in Nat, NEW most \in Nat, Len(w) < most,
         Recalls(w, length), acceptedAt' = Append(acceptedAt, validatorTime),
         NEW n, n = Len(acceptedAt) + 1
  PROVE  Cardinality(Recent(n, length)') <= most
<1> DEFINE t == validatorTime - length
<1>1. validatorTime \in Nat /\ acceptedAt \in Seq(Nat) /\ acceptedAt' \in Seq(Nat) /\ t \in Int
  BY ValidatorConstants DEF StampsTyped
<1>2. /\ Len(acceptedAt') = n /\ DOMAIN acceptedAt' = 1 .. n /\ n \in Nat /\ acceptedAt'[n] = validatorTime
      /\ \A j \in 1 .. n : acceptedAt'[j] \in Nat
  BY <1>1
<1>3. Recent(n, length)' = After(acceptedAt', t)
  <2>1. \A j \in 1 .. n : acceptedAt'[n] - acceptedAt'[j] < length <=> acceptedAt'[j] > t
    BY <1>1, <1>2
  <2>2. QED
    BY <1>2, <2>1 DEF Recent, After
<1>4. Cardinality(After(acceptedAt', t)) <= Cardinality(After(Append(w, validatorTime), t))
  <2> HIDE DEF t
  <2>1. t >= validatorTime - length
    BY <1>1 DEF t
  <2>2. QED
    BY <1>1, <2>1, RecallsMore
<1>5. Append(w, validatorTime) \in Seq(Nat) /\ Len(Append(w, validatorTime)) = Len(w) + 1 /\ Len(w) \in Nat
  BY <1>1
<1>6. /\ Cardinality(After(Append(w, validatorTime), t)) <= Len(Append(w, validatorTime))
      /\ Cardinality(After(Append(w, validatorTime), t)) \in Nat
      /\ Cardinality(After(acceptedAt', t)) \in Nat
  <2> HIDE DEF t
  <2>1. QED
    BY <1>1, <1>5, AfterIsFinite
<1>7. QED
  <2> HIDE DEF t
  <2>1. QED
    BY <1>3, <1>4, <1>5, <1>6

\* What both windows are after they were brought up to date.
LEMMA Windows ==
  ASSUME StampInv,
         NEW s, s = InWindow(secondStamps, SecondTicks), NEW m, m = InWindow(minuteStamps, MinuteTicks)
  PROVE  /\ s \in Seq(Nat) /\ Len(s) <= PerSecond /\ NeverFalls(s) /\ Recalls(s, SecondTicks)
         /\ \A i \in 1 .. Len(s) : s[i] <= validatorTime
         /\ m \in Seq(Nat) /\ Len(m) <= PerMinute /\ NeverFalls(m) /\ Recalls(m, MinuteTicks)
         /\ \A i \in 1 .. Len(m) : m[i] <= validatorTime
         /\ AtTheEnd(s, m) /\ AtTheEnd(s, secondStamps)
<1>1. /\ StampsTyped /\ AtTheEnd(secondStamps, minuteStamps)
      /\ Recalls(secondStamps, SecondTicks) /\ Recalls(minuteStamps, MinuteTicks)
  BY DEF StampInv
<1>2. /\ s \in Seq(Nat) /\ Len(s) <= Len(secondStamps) /\ NeverFalls(s) /\ Recalls(s, SecondTicks)
      /\ \A i \in 1 .. Len(s) : s[i] <= validatorTime
  <2>1. /\ secondStamps \in Seq(Nat) /\ NeverFalls(secondStamps) /\ SecondTicks \in Nat
        /\ \A i \in 1 .. Len(secondStamps) : secondStamps[i] <= validatorTime
    BY <1>1, ValidatorConstants DEF StampsTyped
  <2>2. QED
    BY <1>1, <2>1, WindowRecalls
<1>3. /\ m \in Seq(Nat) /\ Len(m) <= Len(minuteStamps) /\ NeverFalls(m) /\ Recalls(m, MinuteTicks)
      /\ \A i \in 1 .. Len(m) : m[i] <= validatorTime
  <2>1. /\ minuteStamps \in Seq(Nat) /\ NeverFalls(minuteStamps) /\ MinuteTicks \in Nat
        /\ \A i \in 1 .. Len(minuteStamps) : minuteStamps[i] <= validatorTime
    BY <1>1, ValidatorConstants DEF StampsTyped
  <2>2. QED
    BY <1>1, <2>1, WindowRecalls
<1>4. Len(s) <= PerSecond /\ Len(m) <= PerMinute
  <2>1. /\ Len(secondStamps) \in Nat /\ Len(minuteStamps) \in Nat /\ Len(s) \in Nat /\ Len(m) \in Nat
        /\ Len(secondStamps) <= PerSecond /\ Len(minuteStamps) <= PerMinute
    BY <1>1, <1>2, <1>3 DEF StampsTyped
  <2>2. QED
    BY <1>2, <1>3, <2>1, ValidatorConstants
<1>5. AtTheEnd(s, m) /\ AtTheEnd(s, secondStamps)
  BY <1>1, WindowsEndAlike
<1>6. QED
  BY <1>2, <1>3, <1>4, <1>5

\* A sequence in the order of time stays so, when the time is added to it.
LEMMA StampAdded ==
  ASSUME NEW q \in Seq(Nat), NeverFalls(q), NEW v \in Nat, \A i \in 1 .. Len(q) : q[i] <= v
  PROVE  /\ Append(q, v) \in Seq(Nat) /\ Len(Append(q, v)) = Len(q) + 1 /\ NeverFalls(Append(q, v))
         /\ \A i \in 1 .. Len(Append(q, v)) : Append(q, v)[i] <= v
<1> DEFINE r == Append(q, v)
<1>1. /\ r \in Seq(Nat) /\ Len(r) = Len(q) + 1 /\ Len(q) \in Nat /\ DOMAIN r = 1 .. Len(r)
      /\ r[Len(q) + 1] = v /\ \A i \in 1 .. Len(q) : r[i] = q[i]
  OBVIOUS
<1>2. \A i \in 1 .. Len(q) : q[i] \in Nat
  OBVIOUS
<1> HIDE DEF r
<1>3. \A i \in 1 .. Len(r) : i \in 1 .. Len(q) \/ i = Len(q) + 1
  BY <1>1
<1>4. \A i \in 1 .. Len(r) : r[i] <= v
  BY <1>1, <1>3
<1>5. NeverFalls(r)
  <2>1. SUFFICES ASSUME NEW i \in 1 .. Len(r), NEW j \in 1 .. Len(r), i <= j PROVE r[i] <= r[j]
    BY <1>1 DEF NeverFalls
  <2>2. CASE j = Len(q) + 1
    BY <1>1, <1>4, <2>2
  <2>3. CASE j \in 1 .. Len(q)
    <3>1. i \in 1 .. Len(q)
      BY <1>1, <2>1, <2>3
    <3>2. q[i] <= q[j]
      BY <2>1, <2>3, <3>1 DEF NeverFalls
    <3>3. QED
      BY <1>1, <2>3, <3>1, <3>2
  <2>4. QED
    BY <1>3, <2>2, <2>3
<1>6. QED
  BY <1>1, <1>4, <1>5 DEF r
\* The windows are brought up to date.
LEMMA LimitedStamps ==
  ASSUME StampInv, UNCHANGED <<validatorTime, acceptedAt>>,
         secondStamps' = InWindow(secondStamps, SecondTicks),
         minuteStamps' = InWindow(minuteStamps, MinuteTicks)
  PROVE  StampInv'
<1> DEFINE s == InWindow(secondStamps, SecondTicks)
           m == InWindow(minuteStamps, MinuteTicks)
<1>1. /\ s \in Seq(Nat) /\ Len(s) <= PerSecond /\ NeverFalls(s) /\ Recalls(s, SecondTicks)
      /\ \A i \in 1 .. Len(s) : s[i] <= validatorTime
      /\ m \in Seq(Nat) /\ Len(m) <= PerMinute /\ NeverFalls(m) /\ Recalls(m, MinuteTicks)
      /\ \A i \in 1 .. Len(m) : m[i] <= validatorTime
      /\ AtTheEnd(s, m)
  BY Windows
<1>2. secondStamps' = s /\ minuteStamps' = m /\ validatorTime' = validatorTime /\ acceptedAt' = acceptedAt
  OBVIOUS
<1> HIDE DEF s, m
<1>3. StampsTyped'
  BY <1>1, <1>2 DEF StampInv, StampsTyped
<1>4. AtTheEnd(secondStamps, minuteStamps)'
  BY <1>1, <1>2
<1>5. Recalls(secondStamps, SecondTicks)' /\ Recalls(minuteStamps, MinuteTicks)'
  BY <1>1, <1>2 DEF Recalls
<1>6. WithinRates'
  BY <1>2 DEF StampInv, WithinRates, Recent
<1>7. QED
  BY <1>3, <1>4, <1>5, <1>6 DEF StampInv

\* An order within the rates leaves its stamp in both windows, accepted or not.
LEMMA AddedStamps ==
  ASSUME StampInv, RateFits, UNCHANGED validatorTime,
         secondStamps' = Append(InWindow(secondStamps, SecondTicks), validatorTime),
         minuteStamps' = Append(InWindow(minuteStamps, MinuteTicks), validatorTime),
         acceptedAt' = acceptedAt \/ acceptedAt' = Append(acceptedAt, validatorTime)
  PROVE  StampInv'
<1> DEFINE s == InWindow(secondStamps, SecondTicks)
           m == InWindow(minuteStamps, MinuteTicks)
<1>1. /\ s \in Seq(Nat) /\ NeverFalls(s) /\ Recalls(s, SecondTicks)
      /\ \A i \in 1 .. Len(s) : s[i] <= validatorTime
      /\ m \in Seq(Nat) /\ NeverFalls(m) /\ Recalls(m, MinuteTicks)
      /\ \A i \in 1 .. Len(m) : m[i] <= validatorTime
      /\ AtTheEnd(s, m)
  BY Windows
<1>2. /\ secondStamps' = Append(s, validatorTime) /\ minuteStamps' = Append(m, validatorTime)
      /\ validatorTime' = validatorTime /\ Len(s) < PerSecond /\ Len(m) < PerMinute
  BY DEF RateFits
<1>3. /\ validatorTime \in Nat /\ validatorTime \in 0 .. MaxValidatorTime /\ StampsTyped /\ WithinRates
      /\ acceptedAt \in Seq(Nat) /\ \A i \in 1 .. Len(acceptedAt) : acceptedAt[i] <= validatorTime
  BY ValidatorConstants DEF StampInv, StampsTyped
<1> HIDE DEF s, m
<1>4. /\ secondStamps' \in Seq(Nat) /\ Len(secondStamps') = Len(s) + 1 /\ NeverFalls(secondStamps')
      /\ \A i \in 1 .. Len(secondStamps') : secondStamps'[i] <= validatorTime
  BY <1>1, <1>2, <1>3, StampAdded
<1>5. /\ minuteStamps' \in Seq(Nat) /\ Len(minuteStamps') = Len(m) + 1 /\ NeverFalls(minuteStamps')
      /\ \A i \in 1 .. Len(minuteStamps') : minuteStamps'[i] <= validatorTime
  BY <1>1, <1>2, <1>3, StampAdded
<1>6. Len(s) + 1 <= PerSecond /\ Len(m) + 1 <= PerMinute
  <2>1. Len(s) \in Nat /\ Len(m) \in Nat
    BY <1>1
  <2>2. QED
    BY <1>2, <2>1, ValidatorConstants
<1>7. acceptedAt' \in Seq(Nat) /\ \A i \in 1 .. Len(acceptedAt') : acceptedAt'[i] <= validatorTime
  <2>1. CASE acceptedAt' = acceptedAt
    BY <1>3, <2>1
  <2>2. CASE acceptedAt' = Append(acceptedAt, validatorTime)
    <3>1. /\ acceptedAt' \in Seq(Nat) /\ Len(acceptedAt') = Len(acceptedAt) + 1 /\ Len(acceptedAt) \in Nat
          /\ acceptedAt'[Len(acceptedAt) + 1] = validatorTime
          /\ \A i \in 1 .. Len(acceptedAt) : acceptedAt'[i] = acceptedAt[i]
      BY <1>3, <2>2
    <3>2. \A i \in 1 .. Len(acceptedAt') : i \in 1 .. Len(acceptedAt) \/ i = Len(acceptedAt) + 1
      BY <3>1
    <3>3. \A i \in 1 .. Len(acceptedAt') : acceptedAt'[i] <= validatorTime
      <4>1. TAKE i \in 1 .. Len(acceptedAt')
      <4>2. CASE i \in 1 .. Len(acceptedAt)
        BY <1>3, <3>1, <4>2
      <4>3. CASE i = Len(acceptedAt) + 1
        BY <1>3, <3>1, <4>3
      <4>4. QED
        BY <3>2, <4>2, <4>3
    <3>4. QED
      BY <3>1, <3>3
  <2>3. QED
    BY <2>1, <2>2
<1>8. StampsTyped'
  <2>1. /\ validatorTime' \in 0 .. MaxValidatorTime
        /\ Len(secondStamps') <= PerSecond /\ Len(minuteStamps') <= PerMinute
    BY <1>2, <1>3, <1>4, <1>5, <1>6
  <2>2. QED
    BY <1>2, <1>4, <1>5, <1>7, <2>1 DEF StampsTyped
<1>9. AtTheEnd(secondStamps, minuteStamps)'
  <2>1. AtTheEnd(Append(s, validatorTime), Append(m, validatorTime))
    BY <1>1, <1>3, EndsTogether
  <2>2. QED
    BY <1>2, <2>1
<1>10. Recalls(secondStamps, SecondTicks)' /\ Recalls(minuteStamps, MinuteTicks)'
  <2>1. \A t \in Int : t >= validatorTime - SecondTicks =>
           Cardinality(After(acceptedAt', t)) <= Cardinality(After(Append(s, validatorTime), t))
    BY <1>1, <1>3, RecallsMore, ValidatorConstants
  <2>2. \A t \in Int : t >= validatorTime - MinuteTicks =>
           Cardinality(After(acceptedAt', t)) <= Cardinality(After(Append(m, validatorTime), t))
    BY <1>1, <1>3, RecallsMore, ValidatorConstants
  <2>3. QED
    BY <1>2, <2>1, <2>2 DEF Recalls
<1>11. WithinRates'
  <2>1. CASE acceptedAt' = acceptedAt
    BY <1>3, <2>1 DEF WithinRates, Recent
  <2>2. CASE acceptedAt' = Append(acceptedAt, validatorTime)
    <3>1. PICK n \in Nat : n = Len(acceptedAt) + 1
      BY <1>3
    <3>2. Len(acceptedAt') = n /\ \A i \in 1 .. n : i \in 1 .. Len(acceptedAt) \/ i = n
      BY <1>3, <2>2, <3>1
    <3>3. \A i \in 1 .. Len(acceptedAt) :
            Cardinality(Recent(i, SecondTicks)') <= PerSecond
            /\ Cardinality(Recent(i, MinuteTicks)') <= PerMinute
      BY <1>3, <2>2, RatesStay
    <3>4. Cardinality(Recent(n, SecondTicks)') <= PerSecond
      BY <1>1, <1>2, <1>3, <2>2, <3>1, NewestWithinRate, ValidatorConstants
    <3>5. Cardinality(Recent(n, MinuteTicks)') <= PerMinute
      BY <1>1, <1>2, <1>3, <2>2, <3>1, NewestWithinRate, ValidatorConstants
    <3>6. QED
      BY <3>2, <3>3, <3>4, <3>5 DEF WithinRates
  <2>3. QED
    BY <2>1, <2>2
<1>12. QED
  BY <1>8, <1>9, <1>10, <1>11 DEF StampInv

\* reset_rate_limits forgets both windows, and what was accepted before it.
LEMMA ResetStamps ==
  ASSUME StampInv, UNCHANGED validatorTime, secondStamps' = <<>>, minuteStamps' = <<>>, acceptedAt' = <<>>
  PROVE  StampInv'
<1>1. validatorTime' \in 0 .. MaxValidatorTime
  BY DEF StampInv, StampsTyped
<1>2. StampsTyped'
  BY <1>1, ValidatorConstants DEF StampsTyped, NeverFalls
<1>3. AtTheEnd(secondStamps, minuteStamps)' /\ WithinRates'
  BY DEF AtTheEnd, WithinRates
<1>4. \A t \in Int : Cardinality(After(<<>>, t)) <= Cardinality(After(<<>>, t))
  <2>1. <<>> \in Seq(Nat)
    OBVIOUS
  <2>2. \A t \in Int : Cardinality(After(<<>>, t)) \in Nat
    BY <2>1, AfterIsFinite
  <2>3. QED
    BY <2>2
<1>5. Recalls(secondStamps, SecondTicks)' /\ Recalls(minuteStamps, MinuteTicks)'
  BY <1>4 DEF Recalls
<1>6. QED
  BY <1>2, <1>3, <1>5 DEF StampInv

\* As time passes a window has to recall less.
LEMMA LaterStamps ==
  ASSUME StampInv, ValidatorTick PROVE StampInv'
<1>1. /\ validatorTime < MaxValidatorTime /\ validatorTime' = validatorTime + 1
      /\ UNCHANGED <<secondStamps, minuteStamps, acceptedAt>>
  BY DEF ValidatorTick
<1>2. validatorTime \in Nat /\ SecondTicks \in Nat /\ MinuteTicks \in Nat /\ MaxValidatorTime \in Nat
  BY ValidatorConstants DEF StampInv, StampsTyped
<1>3. validatorTime' \in 0 .. MaxValidatorTime /\ \A n \in Nat : n <= validatorTime => n <= validatorTime'
  BY <1>1, <1>2
<1>4. StampsTyped'
  <2>1. \A i \in 1 .. Len(secondStamps) : secondStamps[i] \in Nat /\ secondStamps[i] <= validatorTime
    BY DEF StampInv, StampsTyped
  <2>2. \A i \in 1 .. Len(minuteStamps) : minuteStamps[i] \in Nat /\ minuteStamps[i] <= validatorTime
    BY DEF StampInv, StampsTyped
  <2>3. \A i \in 1 .. Len(acceptedAt) : acceptedAt[i] \in Nat /\ acceptedAt[i] <= validatorTime
    BY DEF StampInv, StampsTyped
  <2>4. QED
    BY <1>1, <1>3, <2>1, <2>2, <2>3 DEF StampInv, StampsTyped
<1>5. AtTheEnd(secondStamps, minuteStamps)' /\ WithinRates'
  BY <1>1 DEF StampInv, AtTheEnd, WithinRates, Recent
<1>6. Recalls(secondStamps, SecondTicks)' /\ Recalls(minuteStamps, MinuteTicks)'
  <2>1. \A t \in Int : /\ t >= validatorTime' - SecondTicks => t >= validatorTime - SecondTicks
                       /\ t >= validatorTime' - MinuteTicks => t >= validatorTime - MinuteTicks
    BY <1>1, <1>2
  <2>2. Recalls(secondStamps, SecondTicks) /\ Recalls(minuteStamps, MinuteTicks)
    BY DEF StampInv
  <2>3. QED
    BY <1>1, <2>1, <2>2 DEF Recalls
<1>7. QED
  BY <1>4, <1>5, <1>6 DEF StampInv
\* A quantity moves by one at most when it is rounded, and stays in its bounds, which
\* are multiples of the precision.
LEMMA RoundedFits ==
  ASSUME NEW size \in Nat, size > 0, QuantityFits(size), NEW r, r = Rounded(size)
  PROVE  r \in Nat /\ r % 2 = 0 /\ QuantityFits(r) /\ size - 1 <= r /\ r <= size + 1
<1>0. LeastSize \in Nat /\ MostSize \in Nat /\ LeastSize % 2 = 0 /\ MostSize % 2 = 0
  BY ValidatorConstants
<1>1. CASE size % 2 = 0
  <2>1. r = size
    BY <1>1 DEF Rounded
  <2>2. QED
    BY <1>1, <2>1 DEF QuantityFits
<1>2. CASE size % 2 # 0
  <2>1. PICK k \in Int : k = (size + 1) \div 4
    OBVIOUS
  <2>2. r = 2 * (2 * k)
    BY <1>2, <2>1 DEF Rounded
  <2>3. 4 * k <= size + 1 /\ size + 1 < 4 * k + 4
    BY <2>1
  <2>4. PICK h \in Nat : size = 2 * h + 1
    <3>1. size % 2 = 1 /\ size = 2 * (size \div 2) + (size % 2) /\ size \div 2 \in Nat
      BY <1>2
    <3>2. QED
      BY <3>1
  <2>5. r \in Nat /\ size - 1 <= r /\ r <= size + 1
    BY <2>2, <2>3, <2>4
  <2>6. r % 2 = 0
    BY <2>2
  <2>7. PICK a \in Nat, b \in Nat : LeastSize = 2 * a /\ MostSize = 2 * b
    <3>1. LeastSize = 2 * (LeastSize \div 2) + (LeastSize % 2) /\ LeastSize \div 2 \in Nat
      BY <1>0
    <3>2. MostSize = 2 * (MostSize \div 2) + (MostSize % 2) /\ MostSize \div 2 \in Nat
      BY <1>0
    <3>3. QED
      BY <1>0, <3>1, <3>2
  <2>8. LeastSize <= size - 1 /\ size + 1 <= MostSize
    BY <2>4, <2>7 DEF QuantityFits
  <2>9. QED
    BY <1>0, <2>5, <2>6, <2>8 DEF QuantityFits
<1>3. QED
  BY <1>1, <1>2

\* So does an order of that quantity, bought or sold.
LEMMA SignedFits ==
  ASSUME NEW size \in Nat, size > 0, QuantityFits(size), NEW sign \in {1, -1}, NEW x, x = sign * Rounded(size)
  PROVE  /\ x \in Int /\ x % 2 = 0 /\ QuantityFits(Unsigned(x))
         /\ sign * size - 1 <= x /\ x <= sign * size + 1 /\ sign * size \in Int
<1>1. PICK r \in Nat : r = Rounded(size)
  BY RoundedFits
<1>2. r % 2 = 0 /\ QuantityFits(r) /\ size - 1 <= r /\ r <= size + 1
  BY <1>1, RoundedFits
<1>3. CASE sign = 1
  <2>1. x = r /\ sign * size = size /\ Unsigned(x) = r
    BY <1>1, <1>3 DEF Unsigned
  <2>2. QED
    BY <1>2, <2>1
<1>4. CASE sign = -1
  <2>1. x = 0 - r /\ sign * size = 0 - size /\ x \in Int
    BY <1>1, <1>4
  <2>2. Unsigned(x) = r
    BY <2>1 DEF Unsigned
  <2>3. x % 2 = 0
    <3>1. r = 2 * (r \div 2) + (r % 2) /\ r \div 2 \in Nat
      OBVIOUS
    <3>2. x = 2 * (0 - (r \div 2)) /\ 0 - (r \div 2) \in Int
      BY <1>2, <2>1, <3>1
    <3>3. \A k \in Int : (2 * k) % 2 = 0
      OBVIOUS
    <3>4. QED
      BY <3>2, <3>3
  <2>4. QED
    BY <1>2, <2>1, <2>2, <2>3
<1>5. QED
  BY <1>3, <1>4

\* A position that is off by one is past its limit by one at most.
LEMMA NearlyWithin ==
  ASSUME NEW h \in Int, NEW o \in Int, NEW x \in Int, NEW most \in Nat, o - 1 <= x, x <= o + 1,
         Unsigned(h + o) <= most
  PROVE  Unsigned(h + x) <= most + 1
<1>1. 0 - most <= h + o /\ h + o <= most
  BY DEF Unsigned
<1>2. 0 - (most + 1) <= h + x /\ h + x <= most + 1 /\ h + x \in Int
  BY <1>1
<1>3. \A n \in Int : 0 - (most + 1) <= n /\ n <= most + 1 => Unsigned(n) <= most + 1
  BY DEF Unsigned
<1>4. QED
  BY <1>2, <1>3

\* An accepted order goes into flight.
LEMMA AcceptedFlight ==
  ASSUME FlightInv, NEW size \in OrderSizes, NEW sign \in {1, -1}, QuantityFits(size),
         HoldingFits(sign * size), inFlight' = Append(inFlight, sign * Rounded(size)),
         overlapped' = (overlapped \/ inFlight # <<>>), UNCHANGED holding
  PROVE  FlightInv'
<1>1. size \in Nat /\ size > 0
  BY ValidatorConstants
<1>2. PICK x \in Int : x = sign * Rounded(size)
  BY <1>1, SignedFits
<1>3. x % 2 = 0 /\ QuantityFits(Unsigned(x)) /\ sign * size - 1 <= x /\ x <= sign * size + 1 /\ sign * size \in Int
  BY <1>1, <1>2, SignedFits
<1>4. holding \in Int /\ overlapped \in BOOLEAN /\ inFlight \in Seq(Int) /\ Len(inFlight) \in Nat
  BY DEF FlightInv
<1>5. /\ inFlight' \in Seq(Int) /\ Len(inFlight') = Len(inFlight) + 1 /\ inFlight'[Len(inFlight) + 1] = x
      /\ \A i \in 1 .. Len(inFlight) : inFlight'[i] = inFlight[i]
  BY <1>2, <1>4
<1>6. overlapped' \in BOOLEAN /\ (~ overlapped' => inFlight = <<>> /\ ~ overlapped)
  BY <1>4, Zenon
<1>7. \A i \in 1 .. Len(inFlight') : inFlight'[i] % 2 = 0 /\ QuantityFits(Unsigned(inFlight'[i]))
  <2>1. \A i \in 1 .. Len(inFlight) : inFlight[i] % 2 = 0 /\ QuantityFits(Unsigned(inFlight[i]))
    BY DEF FlightInv
  <2>2. TAKE i \in 1 .. Len(inFlight')
  <2>3. CASE i \in 1 .. Len(inFlight)
    BY <1>5, <2>1, <2>3
  <2>4. CASE i = Len(inFlight) + 1
    BY <1>3, <1>5, <2>4
  <2>5. QED
    BY <1>4, <1>5, <2>3, <2>4
<1>8. ASSUME ~ overlapped'
      PROVE  /\ Len(inFlight') <= 1 /\ Unsigned(holding) <= HoldingLimit + 1
             /\ Len(inFlight') = 1 => Unsigned(holding + inFlight'[1]) <= HoldingLimit + 1
  <2>1. inFlight = <<>> /\ Unsigned(holding) <= HoldingLimit + 1
    BY <1>6, <1>8 DEF FlightInv
  <2>2. Len(inFlight) = 0
    BY <2>1
  <2>3. Len(inFlight') = 1 /\ inFlight'[1] = x
    BY <1>5, <2>2
  <2>4. PICK o \in Int : o = sign * size
    BY <1>3
  <2>5. Unsigned(holding + o) <= HoldingLimit
    BY <2>4 DEF HoldingFits
  <2>6. Unsigned(holding + x) <= HoldingLimit + 1
    <3>1. o - 1 <= x /\ x <= o + 1
      BY <1>3, <2>4
    <3>2. holding \in Int /\ HoldingLimit \in Nat
      BY <1>4, ValidatorConstants
    <3>3. QED
      BY <2>5, <3>1, <3>2, NearlyWithin
  <2>7. QED
    BY <2>1, <2>3, <2>6
<1>9. QED
  BY <1>4, <1>5, <1>6, <1>7, <1>8, Zenon DEF FlightInv

\* What two sequences have is what they have together.
LEMMA Joined ==
  ASSUME NEW S, NEW a \in Seq(S), NEW b \in Seq(S)
  PROVE  /\ a \o b \in Seq(S) /\ Len(a \o b) = Len(a) + Len(b)
         /\ \A j \in 1 .. Len(a) : (a \o b)[j] = a[j]
         /\ \A j \in 1 .. Len(b) : (a \o b)[Len(a) + j] = b[j]
<1>1. a \o b \in Seq(S) /\ Len(a \o b) = Len(a) + Len(b) /\ Len(a) \in Nat /\ Len(b) \in Nat
  OBVIOUS
<1>2. \A j \in 1 .. Len(a) : (a \o b)[j] = a[j]
  OBVIOUS
<1>3. \A j \in 1 .. Len(b) : (a \o b)[Len(a) + j] = b[j]
  OBVIOUS
<1>4. QED
  BY <1>1, <1>2, <1>3

\* A fill takes its order out of flight, into the position.
LEMMA FilledFlight ==
  ASSUME FlightInv, NEW i \in DOMAIN inFlight, UpdateHolding(i) PROVE FlightInv'
<1>1. /\ holding' = holding + inFlight[i] /\ inFlight' = RemoveAt(inFlight, i) /\ overlapped' = overlapped
  BY DEF UpdateHolding
<1>2. holding \in Int /\ overlapped \in BOOLEAN /\ inFlight \in Seq(Int) /\ Len(inFlight) \in Nat
      /\ i \in 1 .. Len(inFlight) /\ inFlight[i] \in Int
  BY DEF FlightInv
<1>n. i \in Nat /\ 1 <= i /\ i <= Len(inFlight) /\ Len(inFlight) \in Nat
  BY <1>2
<1> DEFINE front == SubSeq(inFlight, 1, i - 1)
           back == SubSeq(inFlight, i + 1, Len(inFlight))
<1>3. /\ front \in Seq(Int) /\ Len(front) = i - 1 /\ \A j \in 1 .. i - 1 : front[j] = inFlight[j]
  BY <1>2
<1>4. /\ back \in Seq(Int) /\ Len(back) = Len(inFlight) - i
      /\ \A j \in 1 .. Len(inFlight) - i : back[j] = inFlight[i + j]
  <2> DEFINE m == Len(inFlight) - i
             rest == [j \in 1 .. m |-> inFlight[i + j]]
  <2>1. back = rest
    <3>1. ASSUME NEW q \in Seq(Int), NEW n \in 1 .. Len(q)
          PROVE  /\ DOMAIN SubSeq(q, n + 1, Len(q)) = 1 .. Len(q) - n
                 /\ \A j \in 1 .. Len(q) - n : SubSeq(q, n + 1, Len(q))[j] = q[n + j]
      <4>1. SubSeq(q, n + 1, Len(q)) = [j \in 1 .. Len(q) - n |-> q[n + j]]
        <5>1. (Len(q) - (n + 1)) + 1 = Len(q) - n /\ \A j \in 1 .. Len(q) - n : ((n + 1) + j) - 1 = n + j
          OBVIOUS
        <5>2. SubSeq(q, n + 1, Len(q)) = [j \in 1 .. (Len(q) - (n + 1)) + 1 |-> q[((n + 1) + j) - 1]]
          OBVIOUS
        <5>3. QED
          BY <5>1, <5>2
      <4>2. QED
        BY <4>1
    <3>2. /\ DOMAIN back = 1 .. m /\ \A j \in 1 .. m : back[j] = inFlight[i + j]
      BY <1>2, <3>1
    <3>3. back = [j \in DOMAIN back |-> back[j]]
      OBVIOUS
    <3> HIDE DEF back, m
    <3>4. QED
      BY <3>2, <3>3
  <2>2. m \in Nat /\ \A j \in 1 .. m : inFlight[i + j] \in Int
    BY <1>2
  <2> HIDE DEF m, back
  <2>3. rest \in Seq(Int) /\ Len(rest) = m /\ \A j \in 1 .. m : rest[j] = inFlight[i + j]
    BY <2>2
  <2> HIDE DEF rest
  <2>4. QED
    BY <2>1, <2>3 DEF m
<1>5. inFlight' = front \o back
  BY <1>1 DEF RemoveAt
<1> HIDE DEF front, back
<1>f. Len(front) \in Nat /\ Len(back) \in Nat /\ Len(front) = i - 1 /\ Len(back) = Len(inFlight) - i
  BY <1>2, <1>3, <1>4
<1>c. /\ front \o back \in Seq(Int) /\ Len(front \o back) = Len(front) + Len(back)
      /\ (\A j \in 1 .. Len(front) : (front \o back)[j] = front[j])
      /\ \A j \in 1 .. Len(back) : (front \o back)[Len(front) + j] = back[j]
  <2>1. front \in Seq(Int)
    BY <1>3
  <2>2. back \in Seq(Int)
    BY <1>4
  <2>3. QED
    BY <2>1, <2>2, Joined
<1>6. /\ inFlight' \in Seq(Int) /\ Len(inFlight') = Len(inFlight) - 1
      /\ \A j \in 1 .. Len(inFlight) - 1 : \E k \in 1 .. Len(inFlight) : inFlight'[j] = inFlight[k]
  <2>1. inFlight' \in Seq(Int) /\ Len(inFlight') = Len(front) + Len(back)
    BY <1>5, <1>c
  <2>2. Len(front) + Len(back) = Len(inFlight) - 1
    BY <1>2, <1>f
  <2>3. ASSUME NEW j \in 1 .. Len(inFlight) - 1
        PROVE  \E k \in 1 .. Len(inFlight) : inFlight'[j] = inFlight[k]
    <3>1. CASE j <= i - 1
      <4>1. j \in 1 .. Len(front) /\ j \in 1 .. Len(inFlight)
        BY <1>2, <1>3, <3>1
      <4>2. inFlight'[j] = front[j]
        BY <1>5, <1>c, <4>1
      <4>3. QED
        BY <1>3, <4>1, <4>2
    <3>2. CASE ~ (j <= i - 1)
      <4>1. PICK k \in 1 .. Len(back) : j = Len(front) + k
        <5>1. j - Len(front) \in 1 .. Len(back) /\ j = Len(front) + (j - Len(front))
          <6>1. j \in Nat /\ 1 <= j /\ j <= Len(inFlight) - 1
            BY <1>n
          <6>2. Len(front) < j /\ j <= Len(front) + Len(back)
            BY <1>n, <1>f, <3>2, <6>1
          <6>3. QED
            BY <1>f, <6>1, <6>2
        <5>2. QED
          BY <5>1
      <4>2. inFlight'[j] = back[k]
        BY <1>5, <1>c, <4>1
      <4>3. back[k] = inFlight[i + k] /\ i + k \in 1 .. Len(inFlight)
        <5>1. k \in Nat /\ 1 <= k /\ k <= Len(inFlight) - i
          BY <1>f, <4>1
        <5>2. k \in 1 .. Len(inFlight) - i /\ i + k \in 1 .. Len(inFlight)
          BY <1>n, <5>1
        <5>3. QED
          BY <1>4, <5>2, Zenon
      <4>4. QED
        BY <4>2, <4>3
    <3>3. QED
      BY <3>1, <3>2
  <2>4. QED
    BY <2>1, <2>2, <2>3
<1>7. holding' \in Int /\ overlapped' \in BOOLEAN
  <2>1. holding' \in Int
    BY <1>1, <1>2
  <2>2. QED
    BY <1>1, <1>2, <2>1, Zenon
<1>8. \A j \in 1 .. Len(inFlight') : inFlight'[j] % 2 = 0 /\ QuantityFits(Unsigned(inFlight'[j]))
  <2>1. \A j \in 1 .. Len(inFlight) : inFlight[j] % 2 = 0 /\ QuantityFits(Unsigned(inFlight[j]))
    BY DEF FlightInv
  <2>2. QED
    BY <1>6, <2>1
<1>9. ASSUME ~ overlapped'
      PROVE  /\ Len(inFlight') <= 1 /\ Unsigned(holding') <= HoldingLimit + 1
             /\ Len(inFlight') = 1 => Unsigned(holding' + inFlight'[1]) <= HoldingLimit + 1
  <2>1. Len(inFlight) <= 1 /\ (Len(inFlight) = 1 => Unsigned(holding + inFlight[1]) <= HoldingLimit + 1)
    BY <1>1, <1>9 DEF FlightInv
  <2>2. Len(inFlight) = 1 /\ i = 1
    <3>1. \A n \in Nat : i <= n /\ n <= 1 => n = 1 /\ i = 1
      <4>1. i \in Nat /\ 1 <= i
        BY <1>n
      <4>2. QED
        BY <4>1
    <3>2. QED
      BY <1>n, <2>1, <3>1, Zenon
  <2>3. Len(inFlight') = 0
    BY <1>6, <2>2
  <2>4. Unsigned(holding') <= HoldingLimit + 1
    BY <1>1, <2>1, <2>2
  <2>5. QED
    BY <2>3, <2>4
<1>10. QED
  BY <1>6, <1>7, <1>8, <1>9, Zenon DEF FlightInv
\* Every call is counted once, as one of three kinds.
LEMMA CountedCall ==
  ASSUME CountInv, StampInv, NEW kinds \in SUBSET ValidatorKinds, Counted(kinds)
  PROVE  /\ validatorStats' \in [ValidatorKinds -> Nat]
         /\ \A k \in ValidatorKinds : validatorStats'[k] = validatorStats[k] + (IF k \in kinds THEN 1 ELSE 0)
         /\ \A k \in ValidatorKinds : validatorStats[k] \in Nat
         /\ Len(acceptedAt) \in Nat
<1>1. validatorStats \in [ValidatorKinds -> Nat] /\ DOMAIN validatorStats = ValidatorKinds
  BY DEF CountInv
<1>2. \A k \in ValidatorKinds : validatorStats[k] \in Nat
  BY <1>1
<1>3. \A k \in ValidatorKinds : validatorStats[k] + (IF k \in kinds THEN 1 ELSE 0) \in Nat
  BY <1>2
<1>4. validatorStats' = [k \in ValidatorKinds |-> validatorStats[k] + (IF k \in kinds THEN 1 ELSE 0)]
  BY <1>1, Zenon DEF Counted
<1>5. Len(acceptedAt) \in Nat
  BY DEF StampInv, StampsTyped
<1>6. QED
  BY <1>2, <1>3, <1>4, <1>5

LEMMA CountedStep ==
  ASSUME CountInv, StampInv,
         \/ Counted({"total", "rejected"}) /\ acceptedAt' = acceptedAt
         \/ Counted({"total", "limited"}) /\ acceptedAt' = acceptedAt
         \/ Counted({"total"}) /\ acceptedAt' = Append(acceptedAt, validatorTime)
  PROVE  CountInv'
<1> DEFINE total == validatorStats["total"]
           rejected == validatorStats["rejected"]
           limited == validatorStats["limited"]
           n == Len(acceptedAt)
<1>1. total >= rejected + limited + n
  BY DEF CountInv
<1>2. CASE Counted({"total", "rejected"}) /\ acceptedAt' = acceptedAt
  <2>1. {"total", "rejected"} \in SUBSET ValidatorKinds
    BY DEF ValidatorKinds
  <2>2. /\ validatorStats' \in [ValidatorKinds -> Nat]
        /\ \A k \in ValidatorKinds :
             validatorStats'[k] = validatorStats[k] + (IF k \in {"total", "rejected"} THEN 1 ELSE 0)
        /\ (\A k \in ValidatorKinds : validatorStats[k] \in Nat) /\ n \in Nat
    BY <1>2, <2>1, CountedCall
  <2>3. /\ validatorStats'["total"] = total + 1 /\ validatorStats'["rejected"] = rejected + 1
        /\ validatorStats'["limited"] = limited + 0 /\ total \in Nat /\ rejected \in Nat /\ limited \in Nat
    BY <2>2 DEF ValidatorKinds
  <2>4. total + 1 >= (rejected + 1) + (limited + 0) + n
    BY <1>1, <2>2, <2>3
  <2>5. QED
    BY <1>2, <2>2, <2>3, <2>4, Zenon DEF CountInv
<1>3. CASE Counted({"total", "limited"}) /\ acceptedAt' = acceptedAt
  <2>1. {"total", "limited"} \in SUBSET ValidatorKinds
    BY DEF ValidatorKinds
  <2>2. /\ validatorStats' \in [ValidatorKinds -> Nat]
        /\ \A k \in ValidatorKinds :
             validatorStats'[k] = validatorStats[k] + (IF k \in {"total", "limited"} THEN 1 ELSE 0)
        /\ (\A k \in ValidatorKinds : validatorStats[k] \in Nat) /\ n \in Nat
    BY <1>3, <2>1, CountedCall
  <2>3. /\ validatorStats'["total"] = total + 1 /\ validatorStats'["rejected"] = rejected + 0
        /\ validatorStats'["limited"] = limited + 1 /\ total \in Nat /\ rejected \in Nat /\ limited \in Nat
    BY <2>2 DEF ValidatorKinds
  <2>4. total + 1 >= (rejected + 0) + (limited + 1) + n
    BY <1>1, <2>2, <2>3
  <2>5. QED
    BY <1>3, <2>2, <2>3, <2>4, Zenon DEF CountInv
<1>4. CASE Counted({"total"}) /\ acceptedAt' = Append(acceptedAt, validatorTime)
  <2>1. {"total"} \in SUBSET ValidatorKinds
    BY DEF ValidatorKinds
  <2>2. /\ validatorStats' \in [ValidatorKinds -> Nat]
        /\ \A k \in ValidatorKinds :
             validatorStats'[k] = validatorStats[k] + (IF k \in {"total"} THEN 1 ELSE 0)
        /\ (\A k \in ValidatorKinds : validatorStats[k] \in Nat) /\ n \in Nat
    BY <1>4, <2>1, CountedCall
  <2>3. /\ validatorStats'["total"] = total + 1 /\ validatorStats'["rejected"] = rejected + 0
        /\ validatorStats'["limited"] = limited + 0 /\ total \in Nat /\ rejected \in Nat /\ limited \in Nat
    BY <2>2 DEF ValidatorKinds
  <2>4. Len(acceptedAt') = n + 1
    BY <1>4 DEF StampInv, StampsTyped
  <2>5. total + 1 >= (rejected + 0) + (limited + 0) + (n + 1)
    BY <1>1, <2>2, <2>3
  <2>6. QED
    BY <2>2, <2>3, <2>4, <2>5, Zenon DEF CountInv
<1>5. QED
  BY <1>2, <1>3, <1>4

-----------------------------------------------------------------------------
\* Each step keeps the invariant.
LEMMA ValidatorStep == ASSUME ValidatorInv, [ValidatorNext]_validatorVars PROVE ValidatorInv'
<1>0. StampInv /\ FlightInv /\ CountInv
  BY DEF ValidatorInv
<1>1. ASSUME NEW size \in OrderSizes, RefuseOrder(size) PROVE ValidatorInv'
  <2>1. /\ Counted({"total", "rejected"})
        /\ UNCHANGED <<validatorTime, secondStamps, minuteStamps, holding, inFlight, overlapped, acceptedAt>>
    BY <1>1 DEF RefuseOrder
  <2>2. StampInv'
    BY <1>0, <2>1 DEF StampInv, StampsTyped, AtTheEnd, Recalls, WithinRates, Recent
  <2>3. FlightInv'
    BY <1>0, <2>1 DEF FlightInv
  <2>4. CountInv'
    BY <1>0, <2>1, CountedStep
  <2>5. QED
    BY <2>2, <2>3, <2>4 DEF ValidatorInv
<1>2. ASSUME NEW size \in OrderSizes, LimitRate(size) PROVE ValidatorInv'
  <2>1. /\ Counted({"total", "limited"}) /\ UNCHANGED <<validatorTime, holding, inFlight, overlapped, acceptedAt>>
        /\ secondStamps' = InWindow(secondStamps, SecondTicks)
        /\ minuteStamps' = InWindow(minuteStamps, MinuteTicks)
    BY <1>2 DEF LimitRate
  <2>2. StampInv'
    BY <1>0, <2>1, LimitedStamps
  <2>3. FlightInv'
    BY <1>0, <2>1 DEF FlightInv
  <2>4. CountInv'
    BY <1>0, <2>1, CountedStep
  <2>5. QED
    BY <2>2, <2>3, <2>4 DEF ValidatorInv
<1>3. ASSUME NEW size \in OrderSizes, NEW sign \in {1, -1}, ValidateOrder(size, sign) PROVE ValidatorInv'
  <2>1. /\ RateFits /\ QuantityFits(size) /\ UNCHANGED <<validatorTime, holding>>
        /\ secondStamps' = Append(InWindow(secondStamps, SecondTicks), validatorTime)
        /\ minuteStamps' = Append(InWindow(minuteStamps, MinuteTicks), validatorTime)
    BY <1>3 DEF ValidateOrder
  <2>2. CASE Counted({"total", "rejected"}) /\ UNCHANGED <<inFlight, overlapped, acceptedAt>>
    <3>1. StampInv'
      BY <1>0, <2>1, <2>2, AddedStamps
    <3>2. FlightInv'
      BY <1>0, <2>1, <2>2 DEF FlightInv
    <3>3. CountInv'
      BY <1>0, <2>2, CountedStep
    <3>4. QED
      BY <3>1, <3>2, <3>3 DEF ValidatorInv
  <2>3. CASE /\ HoldingFits(sign * size) /\ Counted({"total"})
             /\ inFlight' = Append(inFlight, sign * Rounded(size))
             /\ overlapped' = (overlapped \/ inFlight # <<>>)
             /\ acceptedAt' = Append(acceptedAt, validatorTime)
    <3>1. StampInv'
      BY <1>0, <2>1, <2>3, AddedStamps
    <3>2. FlightInv'
      BY <1>0, <2>1, <2>3, AcceptedFlight
    <3>3. CountInv'
      BY <1>0, <2>3, CountedStep
    <3>4. QED
      BY <3>1, <3>2, <3>3 DEF ValidatorInv
  <2>4. QED
    BY <1>3, <2>2, <2>3 DEF ValidateOrder
<1>4. ASSUME NEW i \in DOMAIN inFlight, UpdateHolding(i) PROVE ValidatorInv'
  <2>1. UNCHANGED <<validatorTime, secondStamps, minuteStamps, validatorStats, overlapped, acceptedAt>>
    BY <1>4 DEF UpdateHolding
  <2>2. StampInv'
    BY <1>0, <2>1 DEF StampInv, StampsTyped, AtTheEnd, Recalls, WithinRates, Recent
  <2>3. FlightInv'
    BY <1>0, <1>4, FilledFlight
  <2>4. CountInv'
    BY <1>0, <2>1 DEF CountInv
  <2>5. QED
    BY <2>2, <2>3, <2>4 DEF ValidatorInv
<1>5. CASE ResetRateLimits
  <2>1. /\ secondStamps' = <<>> /\ minuteStamps' = <<>> /\ acceptedAt' = <<>>
        /\ UNCHANGED <<validatorTime, holding, validatorStats, inFlight, overlapped>>
    BY <1>5 DEF ResetRateLimits
  <2>2. StampInv'
    BY <1>0, <2>1, ResetStamps
  <2>3. FlightInv'
    BY <1>0, <2>1 DEF FlightInv
  <2>4. CountInv'
    <3>1. \A k \in ValidatorKinds : validatorStats[k] \in Nat
      BY <1>0 DEF CountInv
    <3>2. /\ validatorStats["total"] \in Nat /\ validatorStats["rejected"] \in Nat
          /\ validatorStats["limited"] \in Nat
      BY <3>1 DEF ValidatorKinds
    <3>3. Len(acceptedAt) \in Nat /\ Len(acceptedAt') = 0
      BY <1>0, <2>1 DEF StampInv, StampsTyped
    <3>4. validatorStats["total"] >= validatorStats["rejected"] + validatorStats["limited"] + 0
      BY <1>0, <3>2, <3>3 DEF CountInv
    <3>5. validatorStats' = validatorStats /\ validatorStats \in [ValidatorKinds -> Nat]
      BY <1>0, <2>1 DEF CountInv
    <3>6. QED
      BY <3>3, <3>4, <3>5, Zenon DEF CountInv
  <2>5. QED
    BY <2>2, <2>3, <2>4 DEF ValidatorInv
<1>6. CASE ValidatorTick
  <2>1. UNCHANGED <<secondStamps, minuteStamps, holding, validatorStats, inFlight, overlapped, acceptedAt>>
    BY <1>6 DEF ValidatorTick
  <2>2. StampInv'
    BY <1>0, <1>6, LaterStamps
  <2>3. FlightInv'
    BY <1>0, <2>1 DEF FlightInv
  <2>4. CountInv'
    BY <1>0, <2>1 DEF CountInv
  <2>5. QED
    BY <2>2, <2>3, <2>4 DEF ValidatorInv
<1>7. CASE UNCHANGED validatorVars
  <2>1. UNCHANGED <<validatorTime, secondStamps, minuteStamps, holding, validatorStats, inFlight, overlapped,
                    acceptedAt>>
    BY <1>7 DEF validatorVars
  <2>2. StampInv'
    BY <1>0, <2>1 DEF StampInv, StampsTyped, AtTheEnd, Recalls, WithinRates, Recent
  <2>3. FlightInv' /\ CountInv'
    BY <1>0, <2>1 DEF FlightInv, CountInv
  <2>4. QED
    BY <2>2, <2>3 DEF ValidatorInv
<1>8. QED
  BY <1>1, <1>2, <1>3, <1>4, <1>5, <1>6, <1>7 DEF ValidatorNext

\* What the validator promises follows.
LEMMA ValidatorHolds ==
  ValidatorInv => ValidatorTypeOK /\ AcceptedWithinRates /\ HoldingNearLimit /\ AcceptedFitExchange
<1>1. SUFFICES ASSUME ValidatorInv
               PROVE  ValidatorTypeOK /\ AcceptedWithinRates /\ HoldingNearLimit /\ AcceptedFitExchange
  OBVIOUS
<1>2. StampInv /\ StampsTyped /\ FlightInv /\ CountInv
  BY <1>1 DEF ValidatorInv, StampInv
<1>3. /\ validatorTime \in 0 .. MaxValidatorTime /\ MaxValidatorTime \in Nat
      /\ secondStamps \in Seq(Nat) /\ Len(secondStamps) <= PerSecond /\ PerSecond \in Nat
      /\ minuteStamps \in Seq(Nat) /\ Len(minuteStamps) <= PerMinute /\ PerMinute \in Nat
      /\ \A i \in 1 .. Len(secondStamps) : secondStamps[i] <= validatorTime
      /\ \A i \in 1 .. Len(minuteStamps) : minuteStamps[i] <= validatorTime
  BY <1>2, ValidatorConstants DEF StampsTyped
<1>4. ASSUME NEW q \in Seq(Nat), \A i \in 1 .. Len(q) : q[i] <= validatorTime
      PROVE  q \in Seq(0 .. MaxValidatorTime)
  <2>1. \A i \in 1 .. Len(q) : q[i] \in 0 .. MaxValidatorTime
    <3>1. TAKE i \in 1 .. Len(q)
    <3>2. q[i] \in Nat /\ q[i] <= validatorTime
      BY <1>4
    <3>3. QED
      BY <1>3, <3>2
  <2>2. QED
    BY <2>1, SequenceType
<1>5. /\ secondStamps \in BoundedSeq(0 .. MaxValidatorTime, PerSecond)
      /\ minuteStamps \in BoundedSeq(0 .. MaxValidatorTime, PerMinute)
  <2>1. secondStamps \in Seq(0 .. MaxValidatorTime) /\ minuteStamps \in Seq(0 .. MaxValidatorTime)
    BY <1>3, <1>4
  <2>2. QED
    BY <1>3, <2>1, BoundedSequence
<1>6. ValidatorTypeOK
  <2>1. holding \in Int /\ overlapped \in BOOLEAN /\ \A i \in DOMAIN inFlight : inFlight[i] \in Int
    BY <1>2 DEF FlightInv
  <2>2. QED
    BY <1>3, <1>5, <2>1 DEF ValidatorTypeOK
<1>7. AcceptedWithinRates
  <2>1. DOMAIN acceptedAt = 1 .. Len(acceptedAt) /\ WithinRates
    BY <1>2 DEF StampInv, StampsTyped
  <2>2. PICK s : s = InWindow(secondStamps, SecondTicks)
    OBVIOUS
  <2>3. s \in Seq(Nat) /\ AtTheEnd(s, secondStamps) /\ AtTheEnd(secondStamps, minuteStamps)
    BY <1>2, <2>2, Windows DEF StampInv
  <2>4. IsSuffix(s, minuteStamps)
    BY <1>3, <2>3, EndIsSuffix
  <2>5. QED
    BY <2>1, <2>2, <2>4 DEF AcceptedWithinRates, WithinRates, Recent
<1>8. HoldingNearLimit
  BY <1>2 DEF FlightInv, HoldingNearLimit
<1>9. AcceptedFitExchange
  <2>1. DOMAIN inFlight = 1 .. Len(inFlight)
    BY <1>2 DEF FlightInv
  <2>2. \A i \in DOMAIN inFlight : inFlight[i] % 2 = 0 /\ QuantityFits(Unsigned(inFlight[i]))
    BY <1>2, <2>1 DEF FlightInv
  <2>3. /\ validatorStats.total = validatorStats["total"] /\ validatorStats.rejected = validatorStats["rejected"]
        /\ validatorStats.limited = validatorStats["limited"]
    OBVIOUS
  <2>4. validatorStats.total >= validatorStats.rejected + validatorStats.limited + Len(acceptedAt)
    BY <1>2 DEF CountInv
  <2>5. QED
    BY <2>2, <2>4 DEF AcceptedFitExchange
<1>10. QED
  BY <1>6, <1>7, <1>8, <1>9
-----------------------------------------------------------------------------
(***************************************************************************)
(* The run of all parts: each step is one of a part, which the others do   *)
(* not see.                                                                *)
(***************************************************************************)
DeskInv == BooksInv /\ EngineInv /\ OrderInv /\ RoutingInv /\ BridgeInv /\ ValidatorInv

\* A step of the desk is a step of each part, or none of it.
LEMMA StepOfEach ==
  ASSUME [DeskNext]_deskVars
  PROVE  /\ [Next]_vars /\ [EngineNext]_engineVars /\ [OrderNext]_orderVars
         /\ [RoutingNext]_routingVars /\ [BridgeNext]_bridgeVars /\ [ValidatorNext]_validatorVars
<1>1. CASE UNCHANGED deskVars
  BY <1>1 DEF deskVars, portfolioVars
<1>2. CASE DeskNext
  BY <1>2 DEF DeskNext, portfolioVars
<1>3. QED
  BY <1>1, <1>2

LEMMA DeskInitial == DeskInit => DeskInv /\ ResultsFit /\ MatchedIsEqual
<1> SUFFICES ASSUME DeskInit PROVE DeskInv /\ ResultsFit /\ MatchedIsEqual
  OBVIOUS
<1>1. Init /\ EngineInit /\ OrderInit /\ RoutingInit /\ BridgeInit /\ ValidatorInit
  BY DEF DeskInit
<1>2. QED
  BY <1>1, BooksInitial, EngineInitial, OrderInitial, RoutingInitial, BridgeInitial, ValidatorInitial
  DEF DeskInv

LEMMA DeskStep == ASSUME DeskInv, [DeskNext]_deskVars PROVE DeskInv'
<1>1. /\ [Next]_vars /\ [EngineNext]_engineVars /\ [OrderNext]_orderVars
      /\ [RoutingNext]_routingVars /\ [BridgeNext]_bridgeVars /\ [ValidatorNext]_validatorVars
  BY StepOfEach
<1>2. BooksInv'
  BY <1>1, BooksStep DEF DeskInv
<1>3. EngineInv' /\ OrderInv'
  BY <1>1, EngineStep, OrderStep DEF DeskInv
<1>4. RoutingInv' /\ BridgeInv' /\ ValidatorInv'
  BY <1>1, RoutingStep, BridgeStep, ValidatorStep DEF DeskInv
<1>5. QED
  BY <1>2, <1>3, <1>4 DEF DeskInv

\* Every part keeps its invariant in every run.
THEOREM DeskInvariant == DeskSpec => []DeskInv
<1>1. DeskInit => DeskInv
  BY DeskInitial
<1>2. DeskInv /\ [DeskNext]_deskVars => DeskInv'
  BY DeskStep
<1>3. QED
  BY <1>1, <1>2, PTL DEF DeskSpec

\* The variables of every part have their types.
THEOREM DeskTyped == DeskSpec => []DeskTypeOK
<1>1. DeskInv => DeskTypeOK
  BY BooksHold, EngineHolds, OrderHolds, RoutingHolds, BridgeHolds, ValidatorHolds DEF DeskInv, DeskTypeOK
<1>2. QED
  BY <1>1, DeskInvariant, PTL

\* portfolio/portfolio.py: if the averages of update_from_fill leave no remainder, which
\* the code's floating-point numbers need not care about, the result of a position that
\* was priced after its last fill is what its fills paid and what it is worth; and the
\* drawdown is a fraction of the highest capital and never worse than the maximum.
THEOREM AccountsAreBalanced == DeskSpec /\ [][AveragesAreExact]_vars => []AccountsBalance
<1>1. DeskInit => ResultsFit
  BY DeskInitial
<1>2. DeskInv /\ ResultsFit /\ [DeskNext]_deskVars /\ [AveragesAreExact]_vars => ResultsFit'
  BY StepOfEach, BooksStep DEF DeskInv
<1>3. DeskInv /\ ResultsFit /\ DeskTypeOK => AccountsBalance
  BY BooksHold DEF DeskInv, AccountsBalance
<1>4. QED
  BY <1>1, <1>2, <1>3, DeskInvariant, DeskTyped, PTL DEF DeskSpec

\* execution/ and processors/: what an engine holds is what it reported, each price is of
\* its own side, paper fills have a book of their own, and no order is filled past its
\* quantity; the portfolio processor books every copy of a fill the bus hands it, two at
\* most, whatever write of the state fails, and portfolio:global is behind it only while
\* a handler is at work or after one that failed.  That a reconciliation which matches is
\* of equal positions holds as long as a position is too small for its tolerance of 1 %
\* to be a lot.
THEOREM HeldAsFilled == ASSUME ShortDays PROVE DeskSpec => []FillsAreHeld
<1>1. DeskInit => MatchedIsEqual
  BY DeskInitial
<1>2. DeskInv /\ MatchedIsEqual /\ [DeskNext]_deskVars => MatchedIsEqual'
  BY StepOfEach, MatchedStep DEF DeskInv
<1>3. DeskInv /\ MatchedIsEqual => FillsAreHeld
  BY EngineHolds, OrderHolds DEF DeskInv, FillsAreHeld
<1>4. QED
  BY <1>1, <1>2, <1>3, DeskInvariant, PTL DEF DeskSpec

\* executors/, vnpy_bridge/ and core/exchange_validator.py: an order is split into pieces
\* within the limits and sent by the best route, a request is sent once, every call is on
\* record, and what is validated keeps to the rates, near the limit of the position and
\* to what the exchange takes.
THEOREM SentOnce == DeskSpec => []OrdersAreSentOnce
<1>1. DeskInv => OrdersAreSentOnce
  BY RoutingHolds, BridgeHolds, ValidatorHolds DEF DeskInv, OrdersAreSentOnce
<1>2. QED
  BY <1>1, DeskInvariant, PTL
=============================================================================
