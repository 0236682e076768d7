------------------------- MODULE TradingSystem_proof -------------------------
(***************************************************************************)
(* Proofs about TradingSystem, for any symbols and thresholds, any levels  *)
(* the drawdown and the daily result reach, and any number of orders: at   *)
(* most one fill comes after trading was restricted or halted, and all     *)
(* symbols together make no more warm-up trades than the limit allows.     *)
(***************************************************************************)
EXTENDS TradingSystem, TLAPS

\* What the gates left for the order that is on its way.
OrderFits ==
  order # Idle =>
    /\ submitted < MaxOrders
    /\ ~ IsReliable(order) => warmed < WarmupMax

\* An order that the restriction overtook is the last: while it is under way no
\* fill was late, and without a restriction none ever was.
LateIsLast ==
  /\ late > 0 => level >= RESTRICT_TRADING /\ order = Idle
  /\ OneLateFill

IInv == TypeOK /\ OrderFits /\ LateIsLast

\* The names of the levels are numbers.
USE DEF NONE, REDUCE_SIZE, RESTRICT_TRADING, CLOSE_ALL_HALT
-----------------------------------------------------------------------------
\* UpTo and Higher stay between their arguments.
LEMMA UpToRange ==
  ASSUME NEW bound \in Nat, NEW n \in 0 .. bound
  PROVE  UpTo(bound, n + 1) \in 0 .. bound
BY DEF UpTo

\* The higher of two levels is a level.
LEMMA HigherRange ==
  ASSUME NEW a \in 0 .. 3, NEW b \in 0 .. 3
  PROVE  Higher(a, b) \in 0 .. 3
BY DEF Higher

\* Whatever the metrics and results, evaluate() asks for one of the four levels.
LEMMA RequiredLevelRange ==
  ASSUME TypeOK
  PROVE  RequiredLevel \in 0 .. 3
<1> DEFINE failing == IF failures >= MaxFailures \/ LowFillRate
                      THEN RESTRICT_TRADING ELSE NONE
           losing == IF drawdown = 3 THEN CLOSE_ALL_HALT ELSE Higher(failing, drawdown)
           today == IF daily \in {-2, 2} THEN CLOSE_ALL_HALT
                    ELSE IF daily \in {-1, 1} THEN Higher(losing, RESTRICT_TRADING)
                    ELSE losing
<1>1. drawdown \in 0 .. 3
  BY ConstantsAssumption DEF TypeOK
<1>2. failing \in 0 .. 3
  OBVIOUS
<1>3. losing \in 0 .. 3
  BY <1>1, <1>2, HigherRange
<1>4. today \in 0 .. 3
  BY <1>3, HigherRange
<1>5. Higher(today, REDUCE_SIZE) \in 0 .. 3
  BY <1>4, HigherRange
<1>6. QED
  BY <1>4, <1>5 DEF RequiredLevel

\* A rejection counts as one submission.
LEMMA RejectionKeeps ==
  ASSUME TypeOK, submitted < MaxOrders, RecordRejection
  PROVE  /\ failures' \in 0 .. MaxFailures
         /\ submitted' \in 0 .. MaxOrders /\ filled' \in 0 .. submitted'
<1>1. failures' \in 0 .. MaxFailures
  BY ConstantsAssumption, UpToRange DEF RecordRejection, TypeOK
<1>2. submitted' \in 0 .. MaxOrders /\ filled' \in 0 .. submitted'
  BY ConstantsAssumption DEF RecordRejection, TypeOK
<1>3. QED
  BY <1>1, <1>2

\* Ticks and prices do not matter to the rest: what a tick does up to its gates
\* keeps the types of its data.
LEMMA TickKeeps ==
  ASSUME TypeOK, Tick
  PROVE  /\ ticks' \in 0 .. MinTicks
         /\ Mark => /\ fresh' \in BOOLEAN /\ drawdown' \in Drawdowns
                    /\ daily' \in Dailies /\ UNCHANGED control
<1>1. ticks' \in 0 .. MinTicks
  BY ConstantsAssumption, UpToRange DEF Tick, TypeOK
<1>2. ASSUME Mark
      PROVE  /\ fresh' \in BOOLEAN /\ drawdown' \in Drawdowns
             /\ daily' \in Dailies /\ UNCHANGED control
  BY <1>2 DEF Mark, TypeOK
<1>3. QED
  BY <1>1, <1>2
-----------------------------------------------------------------------------
\* A tick that sends no order: nothing but the data and the metrics moves.
LEMMA QuietTick ==
  ASSUME IInv, NEW s,
         Skip \/ SkipStale \/ NoOrder \/ RejectByRisk(s) \/ RejectByExecutor(s)
  PROVE  IInv'
<1> USE DEF IInv
<1>1. order = Idle /\ Tick /\ UNCHANGED <<control, learner, book>>
  BY DEF Skip, SkipStale, NoOrder, RejectByRisk, RejectByExecutor, Mark, Tick, control
<1>2. /\ ticks' \in 0 .. MinTicks /\ fresh' \in BOOLEAN
      /\ drawdown' \in Drawdowns /\ daily' \in Dailies
  BY <1>1, TickKeeps
     DEF Skip, SkipStale, NoOrder, RejectByRisk, RejectByExecutor, TypeOK
<1>3. /\ failures' \in 0 .. MaxFailures
      /\ submitted' \in 0 .. MaxOrders /\ filled' \in 0 .. submitted'
  <2>1. CASE RejectByRisk(s) \/ RejectByExecutor(s)
    BY <2>1, RejectionKeeps DEF RejectByRisk, RejectByExecutor
  <2>2. CASE Skip \/ SkipStale \/ NoOrder
    BY <2>2 DEF Skip, SkipStale, NoOrder, metrics, TypeOK
  <2>3. QED
    BY <2>1, <2>2
<1>4. TypeOK'
  BY <1>1, <1>2, <1>3 DEF TypeOK, control, learner, book
<1>5. OrderFits' /\ LateIsLast'
  BY <1>1 DEF OrderFits, LateIsLast, OneLateFill, control, learner, book
<1>6. QED
  BY <1>4, <1>5

\* A tick that sends one: the gates left room for it, and trading is allowed.
LEMMA SendingTick ==
  ASSUME IInv, NEW s \in Symbols, SendOrder(s)
  PROVE  IInv'
<1> USE DEF IInv
<1>1. /\ Tick /\ Mark /\ MayTrade(s) /\ submitted < MaxOrders
      /\ order' = s
      /\ UNCHANGED <<metrics, learner, open, late>>
  BY DEF SendOrder, Mark
<1>2. TypeOK'
  BY <1>1, TickKeeps DEF TypeOK, control, metrics, learner
<1>3. OrderFits'
  BY <1>1 DEF OrderFits, MayTrade, IsReliable, metrics, learner
<1>4. late = 0
  BY <1>1, ConstantsAssumption DEF LateIsLast, MayTrade, TypeOK
<1>5. LateIsLast'
  BY <1>1, <1>4 DEF LateIsLast, OneLateFill
<1>6. QED
  BY <1>2, <1>3, <1>5

\* The fill of an order, if it is late, is the first late one; the learner and
\* the warm-up count it once.
LEMMA FilledKeeps ==
  ASSUME IInv, Filled
  PROVE  IInv'
<1> USE ConstantsAssumption DEF IInv
<1>1. /\ order # Idle /\ order' = Idle /\ failures' = 0
      /\ UNCHANGED <<control, ticks, fresh>>
  BY DEF Filled
<1>2. CASE mode = "TESTNET"
  <2>1. Book /\ Learn(order) /\ order \in Symbols
    BY <1>1, <1>2 DEF Filled, TypeOK
  <2>2. learned' \in [Symbols -> 0 .. Reliable]
    <3>1. learned[order] \in 0 .. Reliable
      BY <2>1 DEF TypeOK
    <3>2. UpTo(Reliable, learned[order] + 1) \in 0 .. Reliable
      BY <3>1, UpToRange
    <3>3. QED
      BY <2>1, <3>2 DEF Learn, TypeOK
  <2>3. warmed' \in 0 .. WarmupMax /\ warming' \in BOOLEAN
    BY <1>1, <2>1 DEF Learn, OrderFits, TypeOK
  <2>4. submitted' \in 0 .. MaxOrders /\ filled' \in 0 .. submitted'
    BY <1>1, <2>1 DEF Learn, OrderFits, TypeOK
  <2>5. late = 0
    BY <1>1 DEF LateIsLast, TypeOK
  <2>6. late' \in {0, 1} /\ (late' > 0 => level' >= RESTRICT_TRADING)
    BY <1>1, <2>1, <2>5 DEF Book, control
  <2>7. TypeOK'
    <3>1. {running', connected', killed', cooling', fresh', warming', open'} \subseteq BOOLEAN
      BY <1>1, <2>1, <2>3 DEF Book, TypeOK, control
    <3>2. /\ mode' \in Modes /\ level' \in 0 .. 3 /\ ticks' \in 0 .. MinTicks
          /\ drawdown' \in Drawdowns /\ daily' \in Dailies /\ failures' \in 0 .. MaxFailures
      BY <1>1, <2>1 DEF Book, TypeOK, control
    <3>3. order' \in Symbols \cup {Idle} /\ late' \in Nat
      BY <1>1, <2>6
    <3>4. QED
      BY <2>2, <2>3, <2>4, <3>1, <3>2, <3>3 DEF TypeOK
  <2>8. QED
    BY <1>1, <2>6, <2>7 DEF OrderFits, LateIsLast, OneLateFill
<1>3. CASE mode # "TESTNET"
  <2>1. UNCHANGED <<open, late, daily, drawdown, submitted, filled, learner>>
    BY <1>3 DEF Filled
  <2>2. TypeOK'
    BY <1>1, <2>1 DEF TypeOK, control, learner
  <2>3. QED
    BY <1>1, <2>1, <2>2 DEF OrderFits, LateIsLast, OneLateFill, control
<1>4. QED
  BY <1>2, <1>3

\* An order that was not filled leaves the book alone.
LEMMA NotFilledKeeps ==
  ASSUME IInv, Pending \/ Refused
  PROVE  IInv'
<1> USE ConstantsAssumption DEF IInv
<1>1. /\ order # Idle /\ order' = Idle
      /\ UNCHANGED <<control, data, learner, open, late>>
  BY DEF Pending, Refused
<1>2. /\ failures' \in 0 .. MaxFailures
      /\ submitted' \in 0 .. MaxOrders /\ filled' \in 0 .. submitted'
  <2>1. CASE Pending
    BY <2>1 DEF Pending, TypeOK
  <2>2. CASE Refused
    BY <2>2, <1>1, RejectionKeeps DEF Refused, OrderFits
  <2>3. QED
    BY <2>1, <2>2
<1>3. TypeOK'
  BY <1>1, <1>2 DEF TypeOK, control, data, learner
<1>4. QED
  BY <1>1, <1>3 DEF OrderFits, LateIsLast, OneLateFill, control

\* Evaluations, time and stop() may restrict trading, never allow it again, and
\* leave the book alone.
LEMMA ControlKeeps ==
  ASSUME IInv, Evaluate \/ CoolDown \/ GoStale \/ Stop \/ Disconnect
  PROVE  IInv'
<1> USE DEF IInv
<1>1. UNCHANGED <<mode, metrics, learner, book, ticks, drawdown, daily>>
  BY DEF Evaluate, CoolDown, GoStale, Stop, Disconnect, control, data, TypeOK
<1>2. {running', connected', killed', cooling', fresh'} \subseteq BOOLEAN
  BY DEF Evaluate, CoolDown, GoStale, Stop, Disconnect, control, data, TypeOK
<1>3. level' \in 0 .. 3 /\ level' >= level
  <2>1. Evaluate \/ level' = level
    BY DEF CoolDown, GoStale, Stop, Disconnect, control
  <2>2. level \in 0 .. 3 /\ RequiredLevel \in 0 .. 3
    BY RequiredLevelRange DEF TypeOK
  <2>3. Escalated \in 0 .. 3 /\ Escalated >= level
    BY <2>2 DEF Escalated
  <2>4. QED
    BY <2>1, <2>2, <2>3 DEF Evaluate
<1>4. TypeOK'
  BY <1>1, <1>2, <1>3 DEF TypeOK, metrics, learner, book
<1>5. OrderFits'
  BY <1>1 DEF OrderFits, IsReliable, metrics, learner, book
<1>6. LateIsLast'
  BY <1>1, <1>3 DEF LateIsLast, OneLateFill, book, TypeOK
<1>7. QED
  BY <1>4, <1>5, <1>6

\* IInv is an invariant.
THEOREM Invariance == Spec => []IInv
<1>1. Init => IInv
  <2> SUFFICES ASSUME Init PROVE IInv
    OBVIOUS
  <2>1. /\ ticks = 0 /\ failures = 0 /\ submitted = 0 /\ filled = 0
        /\ learned = [s \in Symbols |-> 0] /\ warmed = 0 /\ level = 0
    BY DEF Init
  <2>2. /\ ticks \in 0 .. MinTicks /\ failures \in 0 .. MaxFailures
        /\ submitted \in 0 .. MaxOrders /\ filled \in 0 .. submitted
        /\ learned \in [Symbols -> 0 .. Reliable] /\ warmed \in 0 .. WarmupMax
        /\ level \in 0 .. 3
    BY <2>1, ConstantsAssumption
  <2>3. TypeOK
    <3>1. {running, connected, killed, cooling, fresh, warming, open} \subseteq BOOLEAN
      BY DEF Init
    <3>2. mode \in Modes /\ drawdown \in Drawdowns /\ daily \in Dailies
      BY ConstantsAssumption DEF Init
    <3>3. order \in Symbols \cup {Idle} /\ late \in Nat
      BY DEF Init
    <3>4. QED
      BY <2>2, <3>1, <3>2, <3>3 DEF TypeOK
  <2>4. OrderFits /\ LateIsLast
    BY DEF Init, OrderFits, LateIsLast, OneLateFill
  <2>5. QED
    BY <2>3, <2>4 DEF IInv
<1>2. IInv /\ [Next]_vars => IInv'
  <2> SUFFICES ASSUME IInv, [Next]_vars PROVE IInv'
    OBVIOUS
  <2>1. CASE ProcessTick
    <3>1. CASE \E s \in Symbols : RejectByRisk(s) \/ SendOrder(s) \/ RejectByExecutor(s)
      BY <3>1, QuietTick, SendingTick
    <3>2. CASE Skip \/ SkipStale \/ NoOrder
      BY <3>2, QuietTick
    <3>3. QED
      BY <2>1, <3>1, <3>2 DEF ProcessTick
  <2>2. CASE Result
    BY <2>2, FilledKeeps, NotFilledKeeps DEF Result
  <2>3. CASE Evaluate \/ CoolDown \/ GoStale \/ Stop \/ Disconnect
    BY <2>3, ControlKeeps
  <2>4. CASE UNCHANGED vars
    BY <2>4 DEF vars, control, data, metrics, learner, book, IInv, TypeOK,
       OrderFits, IsReliable, LateIsLast, OneLateFill
  <2>5. QED
    BY <2>1, <2>2, <2>3, <2>4 DEF Next
<1>3. QED
  BY <1>1, <1>2, PTL DEF Spec

\* Every variable keeps its type; in particular the warm-up trades of all symbols
\* never exceed their limit and no more orders are filled than were submitted.
THEOREM TypeCorrect == Spec => []TypeOK
<1>1. IInv => TypeOK
  BY DEF IInv
<1>2. QED
  BY <1>1, Invariance, PTL

\* Once trading is restricted or halted the portfolio takes one more fill at
\* most.
THEOREM LateFillIsOne == Spec => []OneLateFill
<1>1. IInv => OneLateFill
  BY DEF IInv, LateIsLast
<1>2. QED
  BY <1>1, Invariance, PTL
=============================================================================
