----------------------- MODULE TestnetExecution_proof -----------------------
(***************************************************************************)
(* Proofs about TestnetExecution, for any orders, quantities, numbers of   *)
(* polls and connections: what the engine reports was executed, and every  *)
(* call ends in one event that agrees with its result.                     *)
(*                                                                         *)
(* The position is a sum over the orders: IInv leaves it out (TypeCore is  *)
(* TypeOK without position and account), and PositionInv, below, is about  *)
(* nothing else.                                                           *)
(***************************************************************************)
EXTENDS TestnetExecution, FiniteNumbers, TLAPS

Held == {"absent", "open", "refused", "filled", "canceled", "expired"}
Calls == [stage : Stages, attempt : 0 .. Polls - 1]
Results == [status : {"none", "FILLED", "REJECTED"}, quantity : 0 .. Lots]

\* An open order has lots left to execute.
TypeCore ==
  /\ online \in Online /\ {connected, synced} \subseteq BOOLEAN
  /\ session \in {"none", "open", "closing"} /\ links \in 0 .. MaxLinks
  /\ sync \in {"idle", "fetch"}
  /\ call \in [Orders -> Calls]
  /\ result \in [Orders -> Results]
  /\ emitted \in [Orders -> [fill : Nat, reject : Nat]] /\ bare \in SUBSET Orders
  /\ request \in [Orders -> {"none", "sent", "gone"}]
  /\ held \in [Orders -> Held] /\ executed \in [Orders -> 0 .. Lots]
  /\ \A o \in Orders : held[o] \in {"absent", "open"} => executed[o] < Lots

\* The exchange has nothing of an order before its request is gone, which is
\* made by a call.
Requests ==
  \A o \in Orders :
    /\ At(o, "idle") => request[o] = "none"
    /\ request[o] # "gone" => held[o] = "absent"

\* A call that has not returned has no result, and so no event.
OpenCalls ==
  \A o \in Orders : ~ At(o, "done") => result[o] = NotYet

\* With sessions to be had, a connected engine has one: fills are not made up.
SessionHeld == online /\ connected => session = "open"
NothingMadeUp == online => \A o \in Orders : ~ At(o, "simulate")

IInv ==
  /\ TypeCore /\ Requests /\ OpenCalls /\ OneVerdict /\ NeverAhead
  /\ SessionHeld /\ NothingMadeUp
-----------------------------------------------------------------------------
\* What Book does to a call that has not returned, if the quantity was executed,
\* made up, or not in the answer.
LEMMA BookKeeps ==
  ASSUME IInv, NEW o \in Orders, NEW quantity \in 0 .. Lots, ~ At(o, "done"),
         bare' \in {bare, bare \cup {o}},
         online /\ o \notin bare' => quantity <= executed[o],
         Book(o, quantity), UNCHANGED <<engine, account, sync, synced, exchange>>
  PROVE  IInv'
<1> USE ConstantsAssumption DEF IInv, engine, exchange, At
<1>1. /\ call' = [call EXCEPT ![o].stage = "done"]
      /\ result' = [result EXCEPT ![o] = [status |-> "FILLED", quantity |-> quantity]]
      /\ emitted' = [emitted EXCEPT ![o].fill = @ + 1]
  BY DEF Book, Return, Goto
<1>2. TypeCore'
  <2>1. call' \in [Orders -> Calls]
    BY <1>1 DEF TypeCore, Calls, Stages
  <2>2. result' \in [Orders -> Results]
    BY <1>1 DEF TypeCore, Results
  <2>3. emitted' \in [Orders -> [fill : Nat, reject : Nat]]
    BY <1>1 DEF TypeCore
  <2>4. QED
    BY <2>1, <2>2, <2>3 DEF TypeCore
<1>3. OpenCalls' /\ Requests'
  BY <1>1 DEF OpenCalls, Requests, TypeCore, Calls
<1>4. OneVerdict'
  BY <1>1 DEF OneVerdict, OpenCalls, NotYet, TypeCore
<1>5. NeverAhead'
  BY <1>1 DEF NeverAhead, TypeCore
<1>6. SessionHeld' /\ NothingMadeUp'
  BY <1>1 DEF SessionHeld, NothingMadeUp, TypeCore, Calls
<1>7. QED
  BY <1>2, <1>3, <1>4, <1>5, <1>6

\* Nor does a rejection of one do harm.
LEMMA RejectKeeps ==
  ASSUME IInv, NEW o \in Orders, ~ At(o, "done"),
         Reject(o), UNCHANGED <<engine, account, sync, synced, bare, exchange>>
  PROVE  IInv'
<1> USE ConstantsAssumption DEF IInv, engine, exchange, At
<1>1. /\ call' = [call EXCEPT ![o].stage = "done"]
      /\ result' = [result EXCEPT ![o] = [status |-> "REJECTED", quantity |-> 0]]
      /\ emitted' = [emitted EXCEPT ![o].reject = @ + 1]
  BY DEF Reject, Return, Goto
<1>2. TypeCore'
  <2>1. call' \in [Orders -> Calls]
    <3>1. call \in [Orders -> Calls]
      BY DEF TypeCore
    <3>2. [call[o] EXCEPT !.stage = "done"] \in Calls
      BY <3>1 DEF Calls, Stages
    <3>3. QED
      BY <1>1, <3>1, <3>2, SMTT(30)
  <2>2. result' \in [Orders -> Results]
    BY <1>1 DEF TypeCore, Results
  <2>3. emitted' \in [Orders -> [fill : Nat, reject : Nat]]
    BY <1>1 DEF TypeCore
  <2>4. QED
    BY <2>1, <2>2, <2>3 DEF TypeCore
<1>3. OpenCalls' /\ Requests'
  BY <1>1 DEF OpenCalls, Requests, TypeCore, Calls
<1>4. OneVerdict'
  BY <1>1 DEF OneVerdict, OpenCalls, NotYet, TypeCore
<1>5. NeverAhead'
  BY <1>1 DEF NeverAhead, TypeCore
<1>6. SessionHeld' /\ NothingMadeUp'
  BY <1>1 DEF SessionHeld, NothingMadeUp, TypeCore, Calls
<1>7. QED
  BY <1>2, <1>3, <1>4, <1>5, <1>6

\* A call that has not returned may change its stage, and its attempt, as long
\* as it does not come to make up a fill that could be had.
LEMMA MoveKeeps ==
  ASSUME IInv, NEW o \in Orders, ~ At(o, "done"),
         NEW stage \in Stages \ {"done"}, NEW attempt \in 0 .. Polls - 1,
         online => stage # "simulate",
         call' = [call EXCEPT ![o] = [stage |-> stage, attempt |-> attempt]],
         stage # "idle", request' \in [Orders -> {"none", "sent", "gone"}],
         \A p \in Orders : request'[p] = request[p] \/ (p = o /\ request[o] # "gone"),
         UNCHANGED <<engine, sync, synced, result, emitted, bare, held, executed>>
  PROVE  IInv'
<1> USE DEF IInv, engine, At
<1>1. TypeCore'
  BY DEF TypeCore, Calls
<1>2. OpenCalls'
  BY DEF OpenCalls, TypeCore, Calls
<1>3. OneVerdict' /\ NeverAhead' /\ SessionHeld'
  BY DEF OneVerdict, NeverAhead, SessionHeld
<1>4. NothingMadeUp'
  BY DEF NothingMadeUp, TypeCore, Calls
<1>5. Requests'
  BY DEF Requests, TypeCore, Calls
<1>6. QED
  BY <1>1, <1>2, <1>3, <1>4, <1>5

\* A poll that saw nothing asks again or gives up.
LEMMA NotFilledKeeps ==
  ASSUME IInv, NEW o \in Orders, At(o, "poll"), NotFilled(o),
         UNCHANGED <<engine, account, sync, synced, bare, exchange>>
  PROVE  IInv'
<1> USE ConstantsAssumption
<1>1. call[o] \in Calls
  BY DEF IInv, TypeCore
<1>2. CASE call[o].attempt < Polls - 1
  <2>1. call' = [call EXCEPT ![o] = [stage |-> "poll", attempt |-> call[o].attempt + 1]]
    BY <1>1, <1>2 DEF NotFilled, At, Calls, IInv, TypeCore
  <2>2. call[o].attempt + 1 \in 0 .. Polls - 1
    BY <1>1, <1>2 DEF Calls
  <2>3. UNCHANGED <<result, emitted, bare, request, held, executed>>
    BY <1>2 DEF NotFilled, exchange
  <2>4. request' \in [Orders -> {"none", "sent", "gone"}]
    BY <2>3 DEF IInv, TypeCore
  <2>5. QED
    BY <2>1, <2>2, <2>3, <2>4, MoveKeeps DEF Stages, At
<1>3. CASE ~ call[o].attempt < Polls - 1
  <2>1. Book(o, 0)
    BY <1>3 DEF NotFilled
  <2>2. 0 <= executed[o] /\ 0 \in 0 .. Lots
    BY DEF IInv, TypeCore
  <2>3. QED
    BY <2>1, <2>2, BookKeeps DEF At
<1>4. QED
  BY <1>2, <1>3

\* The exchange may take, execute and end orders, and get_position() and the
\* connection may come and go: the calls do not change.
LEMMA OutsideKeeps ==
  ASSUME IInv, TypeCore', Requests', SessionHeld', online' = online,
         \A o \in Orders : executed'[o] >= executed[o], UNCHANGED orders
  PROVE  IInv'
<1> USE DEF IInv, orders, At
<1>1. OpenCalls' /\ OneVerdict' /\ NothingMadeUp'
  BY DEF OpenCalls, OneVerdict, NothingMadeUp
<1>2. NeverAhead'
  BY DEF NeverAhead, TypeCore, Results
<1>3. QED
  BY <1>1, <1>2
-----------------------------------------------------------------------------
\* IInv is an invariant: per order, nothing before the return, one event after
\* it, and no more than the exchange executed.
THEOREM Invariance == Spec => []IInv
<1> USE ConstantsAssumption
<1>1. Init => IInv
  <2> SUFFICES ASSUME Init PROVE IInv
    OBVIOUS
  <2>1. call \in [Orders -> Calls] /\ result \in [Orders -> Results]
    BY DEF Init, Calls, Results, Stages, NotYet
  <2>2. TypeCore /\ Requests
    <3>1. executed \in [Orders -> 0 .. Lots] /\ held \in [Orders -> Held]
      BY DEF Init, Held
    <3>2. \A o \in Orders : executed[o] < Lots
      BY DEF Init
    <3>3. /\ emitted \in [Orders -> [fill : Nat, reject : Nat]]
          /\ request \in [Orders -> {"none", "sent", "gone"}]
          /\ bare \in SUBSET Orders
      BY DEF Init
    <3>4. /\ online \in Online /\ {connected, synced} \subseteq BOOLEAN
          /\ session = "none" /\ sync = "idle"
      BY DEF Init
    <3>n. links \in 0 .. MaxLinks
      <4>1. links = 0 /\ MaxLinks \in Nat
        BY DEF Init
      <4>2. QED
        BY <4>1
    <3>5. Requests
      BY DEF Init, Requests
    <3>6. QED
      BY <2>1, <3>1, <3>2, <3>3, <3>4, <3>n, <3>5 DEF TypeCore
  <2>3. OpenCalls /\ OneVerdict /\ NeverAhead
    BY DEF Init, OpenCalls, OneVerdict, NeverAhead, NotYet
  <2>4. SessionHeld /\ NothingMadeUp
    BY DEF Init, SessionHeld, NothingMadeUp, At
  <2>5. QED
    BY <2>2, <2>3, <2>4 DEF IInv
<1>2. IInv /\ [Next]_vars => IInv'
  <2> SUFFICES ASSUME IInv, [Next]_vars PROVE IInv'
    OBVIOUS
  <2>t. TypeCore
    BY DEF IInv
  <2>1. CASE Connect \/ Connected \/ Disconnect \/ Disconnected
    <3>u. UNCHANGED <<online, sync, synced, orders, exchange>>
      BY <2>1 DEF Connect, Connected, Disconnect, Disconnected, books
    <3>1. TypeCore' /\ online' = online
      <4>1. links' \in 0 .. MaxLinks
        BY <2>1, <2>t DEF Connect, Connected, Disconnect, Disconnected, TypeCore
      <4>2. connected' \in BOOLEAN /\ session' \in {"none", "open", "closing"}
        BY <2>1, <2>t DEF Connect, Connected, Disconnect, Disconnected, TypeCore
      <4>3. QED
        BY <3>u, <4>1, <4>2, <2>t DEF TypeCore, orders, exchange
    <3>2. SessionHeld'
      BY <2>1, <2>t DEF Connect, Connected, Disconnect, Disconnected, IInv,
         SessionHeld, TypeCore
    <3>3. UNCHANGED <<orders, executed>> /\ Requests'
      BY <3>u DEF exchange, orders, IInv, Requests, At
    <3>4. \A o \in Orders : executed'[o] >= executed[o]
      BY <3>3, <2>t DEF TypeCore
    <3>5. QED
      BY <3>1, <3>2, <3>3, <3>4, OutsideKeeps
  <2>2. CASE GetPosition \/ GotPosition
    <3>1. TypeCore' /\ online' = online
      BY <2>2, <2>t DEF GetPosition, GotPosition, TypeCore, engine, orders, exchange
    <3>2. SessionHeld'
      BY <2>2 DEF GetPosition, GotPosition, IInv, SessionHeld, engine
    <3>3. UNCHANGED <<orders, executed>> /\ Requests'
      BY <2>2 DEF GetPosition, GotPosition, exchange, orders, IInv, Requests, At
    <3>4. \A o \in Orders : executed'[o] >= executed[o]
      BY <3>3, <2>t DEF TypeCore
    <3>5. QED
      BY <3>1, <3>2, <3>3, <3>4, OutsideKeeps
  <2>3. ASSUME NEW o \in Orders, Arrive(o) \/ Lose(o) \/ Execute(o) \/ End(o)
        PROVE  IInv'
    <3>1. UNCHANGED <<engine, orders>>
      BY <2>3 DEF Arrive, Lose, Execute, End
    <3>2. /\ online' = online /\ SessionHeld'
          /\ UNCHANGED <<connected, session, links, sync, synced, call, result, emitted, bare>>
      BY <2>3, <3>1 DEF IInv, SessionHeld, engine, orders, books, Arrive, Lose, Execute, End
    <3>3. TypeCore'
      <4>1. CASE Arrive(o)
        <5>1. PICK h \in {"open", "refused"} :
                held' = [held EXCEPT ![o] = h] /\ UNCHANGED executed
          BY <4>1 DEF Arrive
        <5>2. executed[o] < Lots
          BY <4>1, <2>t DEF TypeCore, Arrive, IInv, Requests
        <5>3. request' \in [Orders -> {"none", "sent", "gone"}]
          BY <4>1, <2>t DEF Arrive, TypeCore
        <5>4. held' \in [Orders -> Held]
          BY <5>1, <2>t DEF TypeCore, Held
        <5>5. QED
          BY <3>2, <5>1, <5>2, <5>3, <5>4, <2>t DEF TypeCore
      <4>2. CASE Lose(o)
        BY <4>2, <3>2, <2>t DEF Lose, TypeCore
      <4>3. CASE Execute(o)
        <5>1. executed[o] < Lots /\ executed[o] \in 0 .. Lots
          BY <4>3, <2>t DEF Execute, TypeCore
        <5>2. executed' \in [Orders -> 0 .. Lots]
          BY <4>3, <5>1, <2>t DEF Execute, TypeCore
        <5>3. held' \in [Orders -> Held]
          BY <4>3, <2>t DEF Execute, TypeCore, Held
        <5>4. \A p \in Orders : held'[p] \in {"absent", "open"} => executed'[p] < Lots
          BY <4>3, <5>1, <5>2, <2>t DEF Execute, TypeCore
        <5>5. QED
          BY <4>3, <3>2, <5>2, <5>3, <5>4, <2>t DEF Execute, TypeCore
      <4>4. CASE End(o)
        BY <4>4, <3>2, <2>t DEF End, TypeCore, Held
      <4>5. QED
        BY <2>3, <4>1, <4>2, <4>3, <4>4
    <3>4. \A p \in Orders : executed'[p] >= executed[p]
      <4>1. executed' = executed \/ executed' = [executed EXCEPT ![o] = @ + 1]
        BY <2>3 DEF Arrive, Lose, Execute, End
      <4>2. QED
        BY <4>1, <2>t DEF TypeCore
    <3>5. Requests'
      BY <2>3, <3>2, <2>t DEF Arrive, Lose, Execute, End, IInv, Requests, TypeCore, At
    <3>6. QED
      BY <3>1, <3>2, <3>3, <3>4, <3>5, OutsideKeeps
  <2>4. ASSUME NEW o \in Orders, NotConnected(o) \/ PostError(o) PROVE IInv'
    BY <2>4, RejectKeeps DEF NotConnected, PostError, At
  <2>5. ASSUME NEW o \in Orders, Submit(o) PROVE IInv'
    <3>1. PICK stage \in {"post", "simulate"} :
            /\ call' = [call EXCEPT ![o].stage = stage]
            /\ stage = "simulate" => session # "open"
      BY <2>5 DEF Submit, Goto
    <3>2. call' = [call EXCEPT ![o] = [stage |-> stage, attempt |-> call[o].attempt]]
      <4>1. call[o] \in Calls
        BY <2>t DEF TypeCore
      <4>2. [call[o] EXCEPT !.stage = stage] = [stage |-> stage, attempt |-> call[o].attempt]
        BY <4>1 DEF Calls
      <4>3. QED
        BY <3>1, <4>2
    <3>3. call[o].attempt \in 0 .. Polls - 1
      BY <2>t DEF TypeCore, Calls
    <3>4. online => stage # "simulate"
      BY <2>5, <3>1 DEF Submit, IInv, SessionHeld
    <3>5. request' \in [Orders -> {"none", "sent", "gone"}]
      BY <2>5, <2>t DEF Submit, TypeCore
    <3>6. /\ ~ At(o, "done")
          /\ UNCHANGED <<engine, sync, synced, result, emitted, bare, held, executed>>
      BY <2>5 DEF Submit, At, books
    <3>r. \A p \in Orders : request'[p] = request[p] \/ (p = o /\ request[o] # "gone")
      BY <2>5, <2>t DEF Submit, IInv, Requests, TypeCore
    <3>7. QED
      BY <3>2, <3>3, <3>4, <3>5, <3>6, <3>r, MoveKeeps DEF Stages
  <2>6. ASSUME NEW o \in Orders, SimulateOrder(o) PROVE IInv'
    <3>1. ~ online
      BY <2>6 DEF SimulateOrder, IInv, NothingMadeUp
    <3>2. Lots \in 0 .. Lots
      OBVIOUS
    <3>3. QED
      BY <2>6, <3>1, <3>2, BookKeeps DEF SimulateOrder, At
  <2>7. ASSUME NEW o \in Orders, PostReply(o) PROVE IInv'
    <3>1. /\ ~ At(o, "done")
          /\ UNCHANGED <<engine, account, sync, synced, exchange>>
      BY <2>7 DEF PostReply, At
    <3>2. CASE Goto(o, "poll") /\ UNCHANGED <<position, result, emitted, bare>>
      <4>1. call' = [call EXCEPT ![o] = [stage |-> "poll", attempt |-> call[o].attempt]]
        <5>1. call[o] \in Calls
          BY <2>t DEF TypeCore
        <5>2. [call[o] EXCEPT !.stage = "poll"] = [stage |-> "poll", attempt |-> call[o].attempt]
          BY <5>1 DEF Calls
        <5>3. QED
          BY <3>2, <5>2 DEF Goto
      <4>2. call[o].attempt \in 0 .. Polls - 1
        BY <2>t DEF TypeCore, Calls
      <4>3. UNCHANGED <<engine, sync, synced, result, emitted, bare, request, held, executed>>
        BY <3>1, <3>2 DEF exchange
      <4>4. request' \in [Orders -> {"none", "sent", "gone"}]
        BY <4>3, <2>t DEF TypeCore
      <4>5. QED
        <5>1. "poll" \in Stages \ {"done"} /\ (online => "poll" # "simulate")
          BY DEF Stages
        <5>2. QED
          BY <3>1, <4>1, <4>2, <4>3, <4>4, <5>1, MoveKeeps
    <3>3. CASE (\E quantity \in 0 .. executed[o] : Book(o, quantity)) /\ UNCHANGED bare
      <4>1. PICK quantity \in 0 .. executed[o] : Book(o, quantity)
        BY <3>3
      <4>2. quantity \in 0 .. Lots /\ quantity <= executed[o]
        BY <4>1, <2>t DEF TypeCore
      <4>3. QED
        BY <3>1, <3>3, <4>1, <4>2, BookKeeps
    <3>4. CASE Book(o, Lots) /\ bare' = bare \cup {o}
      <4>1. Lots \in 0 .. Lots
        OBVIOUS
      <4>2. QED
        BY <3>1, <3>4, <4>1, BookKeeps
    <3>5. QED
      BY <2>7, <3>2, <3>3, <3>4 DEF PostReply
  <2>8. ASSUME NEW o \in Orders, PollForFill(o) PROVE IInv'
    <3>1. ~ At(o, "done") /\ UNCHANGED <<engine, account, sync, synced, bare, exchange>>
      BY <2>8 DEF PollForFill, At
    <3>2. /\ executed[o] \in 0 .. Lots /\ executed[o] <= executed[o]
          /\ 0 \in 0 .. Lots /\ 0 <= executed[o]
      BY <2>t DEF TypeCore
    <3>3. CASE Book(o, executed[o])
      BY <3>1, <3>2, <3>3, BookKeeps
    <3>4. CASE Book(o, 0)
      BY <3>1, <3>2, <3>4, BookKeeps
    <3>5. CASE NotFilled(o)
      BY <2>8, <3>1, <3>5, NotFilledKeeps DEF PollForFill
    <3>6. QED
      BY <2>8, <3>3, <3>4, <3>5 DEF PollForFill
  <2>9. CASE UNCHANGED vars
    <3>u. UNCHANGED <<engine, sync, synced, orders, exchange>>
      BY <2>9 DEF vars, books
    <3>1. TypeCore' /\ SessionHeld' /\ Requests' /\ online' = online
          /\ UNCHANGED <<orders, executed>>
      BY <3>u, <2>t DEF engine, orders, exchange, IInv, TypeCore, SessionHeld, Requests, At
    <3>2. \A o \in Orders : executed'[o] >= executed[o]
      BY <3>1, <2>t DEF TypeCore
    <3>3. QED
      BY <3>1, <3>2, OutsideKeeps
  <2>10. QED
    BY <2>1, <2>2, <2>3, <2>4, <2>5, <2>6, <2>7, <2>8, <2>9 DEF Next, Step
<1>3. QED
  BY <1>1, <1>2, PTL DEF Spec

\* With a session the engine never reports more than the exchange executed, but for
\* orders it booked from an answer that did not say what was executed.
THEOREM ReportIsExecuted == Spec => []NeverAhead
<1>1. IInv => NeverAhead
  BY DEF IInv
<1>2. QED
  BY <1>1, Invariance, PTL

\* A call has one event, that of its result, and none before it returns.
THEOREM VerdictIsOne == Spec => []OneVerdict
<1>1. IInv => OneVerdict
  BY DEF IInv
<1>2. QED
  BY <1>1, Invariance, PTL
-----------------------------------------------------------------------------
(* The position and the account are sums over the orders.  Of(side, q) is  *)
(* what the orders of one side make of the quantities q.                   *)

Reported == [o \in Orders |-> result[o].quantity]
Of(side, quantity) == Signed([o \in Orders |-> IF Side[o] = side THEN quantity[o] ELSE 0])

\* A position taken over from the account was executed, one side or the other.
AccountWasExecuted ==
  \A value \in account : Of(-1, executed) <= value /\ value <= Of(1, executed)

PositionInv ==
  /\ position \in Int /\ account \in SUBSET Int
  /\ PositionIsReported /\ AccountWasExecuted

\* The sum of the quantities moves with each of them, towards its side.
LEMMA SignedMoves ==
  ASSUME NEW q \in [Orders -> Int], NEW r \in [Orders -> Int], NEW o \in Orders,
         \A p \in Orders : p # o => r[p] = q[p]
  PROVE  /\ Signed(q) \in Int /\ Signed(r) \in Int
         /\ Signed(r) = Signed(q) + Side[o] * (r[o] - q[o])
<1> DEFINE f == [p \in Orders |-> Side[p] * q[p]]
           g == [p \in Orders |-> Side[p] * r[p]]
<1> USE ConstantsAssumption
<1>1. \A p \in Orders : f[p] \in Int /\ g[p] \in Int /\ (p # o => g[p] = f[p])
  OBVIOUS
<1>2. Signed(q) = SumFunctionOnSet(f, Orders) /\ Signed(r) = SumFunctionOnSet(g, Orders)
  BY DEF Signed, SumFunction
<1>3. g[o] - f[o] = Side[o] * (r[o] - q[o])
  <2>1. Side[o] \in {1, -1} /\ r[o] \in Int /\ q[o] \in Int
    OBVIOUS
  <2>2. g[o] = Side[o] * r[o] /\ f[o] = Side[o] * q[o]
    OBVIOUS
  <2>3. CASE Side[o] = 1
    BY <2>1, <2>2, <2>3
  <2>4. CASE Side[o] = -1
    BY <2>1, <2>2, <2>4
  <2>5. QED
    BY <2>1, <2>3, <2>4
<1>4. /\ SumFunctionOnSet(f, Orders) \in Int /\ SumFunctionOnSet(g, Orders) \in Int
      /\ SumFunctionOnSet(g, Orders) = SumFunctionOnSet(f, Orders) + g[o] - f[o]
  <2> HIDE DEF f, g
  <2>1. QED
    BY <1>1, SumType, SumChanges
<1>5. f[o] \in Int /\ g[o] \in Int
  BY <1>1
<1>6. QED
  <2> HIDE DEF f, g
  <2>1. SumFunctionOnSet(g, Orders) = SumFunctionOnSet(f, Orders) + (g[o] - f[o])
    BY <1>4, <1>5
  <2>2. QED
    BY <1>2, <1>3, <1>4, <2>1

\* What buyers have can only grow with the quantities, what sellers have only fall, and
\* both together are the sum.
LEMMA SidesGrow ==
  ASSUME NEW q \in [Orders -> Nat], NEW r \in [Orders -> Nat],
         \A p \in Orders : q[p] <= r[p]
  PROVE  /\ Of(1, q) \in Int /\ Of(-1, q) \in Int /\ Signed(q) \in Int
         /\ 0 <= Of(1, q) /\ Of(-1, q) <= 0 /\ Signed(q) = Of(1, q) + Of(-1, q)
         /\ Of(1, q) <= Of(1, r) /\ Of(-1, r) <= Of(-1, q)
<1> DEFINE Part(side, t) == [p \in Orders |-> Side[p] * (IF Side[p] = side THEN t[p] ELSE 0)]
           all == [p \in Orders |-> Side[p] * q[p]]
           none == [p \in Orders |-> 0]
<1> USE ConstantsAssumption
<1>1. /\ Signed(q) = SumFunctionOnSet(all, Orders)
      /\ \A side \in {1, -1}, t \in {q, r} :
           Of(side, t) = SumFunctionOnSet(Part(side, t), Orders)
  <2>1. Signed(q) = SumFunctionOnSet(all, Orders)
    BY DEF Signed, SumFunction
  <2>2. ASSUME NEW side \in {1, -1}, NEW t \in {q, r}
        PROVE  Of(side, t) = SumFunctionOnSet(Part(side, t), Orders)
    <3>1. \A p \in Orders : [o \in Orders |-> IF Side[o] = side THEN t[o] ELSE 0][p]
                              = IF Side[p] = side THEN t[p] ELSE 0
      OBVIOUS
    <3>2. [p \in Orders |-> Side[p] * [o \in Orders |-> IF Side[o] = side THEN t[o] ELSE 0][p]]
            = Part(side, t)
      BY <3>1
    <3>3. DOMAIN Part(side, t) = Orders
      OBVIOUS
    <3>4. QED
      <4> HIDE DEF Part
      <4>1. QED
        BY <3>2, <3>3 DEF Of, Signed, SumFunction
  <2>3. QED
    BY <2>1, <2>2
<1>2. \A p \in Orders : Side[p] \in {1, -1} /\ q[p] \in Nat /\ r[p] \in Nat /\ q[p] <= r[p]
  OBVIOUS
<1>3. \A p \in Orders :
        /\ Part(1, q)[p] \in Int /\ Part(-1, q)[p] \in Int
        /\ Part(1, r)[p] \in Int /\ Part(-1, r)[p] \in Int
        /\ all[p] = Part(1, q)[p] + Part(-1, q)[p]
        /\ none[p] = 0 /\ none[p] <= Part(1, q)[p] /\ Part(-1, q)[p] <= none[p]
        /\ Part(1, q)[p] <= Part(1, r)[p] /\ Part(-1, r)[p] <= Part(-1, q)[p]
  <2>1. SUFFICES ASSUME NEW p \in Orders
                 PROVE  /\ Part(1, q)[p] \in Int /\ Part(-1, q)[p] \in Int
                        /\ Part(1, r)[p] \in Int /\ Part(-1, r)[p] \in Int
                        /\ all[p] = Part(1, q)[p] + Part(-1, q)[p]
                        /\ none[p] = 0 /\ none[p] <= Part(1, q)[p] /\ Part(-1, q)[p] <= none[p]
                        /\ Part(1, q)[p] <= Part(1, r)[p] /\ Part(-1, r)[p] <= Part(-1, q)[p]
    OBVIOUS
  <2>2. CASE Side[p] = 1
    BY <1>2, <2>2
  <2>3. CASE Side[p] = -1
    BY <1>2, <2>3
  <2>4. QED
    BY <1>2, <2>2, <2>3
<1> DEFINE S(f) == SumFunctionOnSet(f, Orders)
<1>4. /\ S(Part(1, q)) \in Int /\ S(Part(-1, q)) \in Int
      /\ S(all) = S(Part(1, q)) + S(Part(-1, q))
  <2> HIDE DEF Part, all
  <2>1. QED
    BY <1>3, SumType, SumAdds
<1>5. /\ S(none) = 0 /\ S(none) <= S(Part(1, q)) /\ S(Part(-1, q)) <= S(none)
      /\ S(Part(1, q)) <= S(Part(1, r)) /\ S(Part(-1, r)) <= S(Part(-1, q))
  <2> HIDE DEF Part, none
  <2>1. \A p \in Orders : none[p] \in Int
    BY <1>3
  <2>2. QED
    BY <1>3, <2>1, SumMonotone, SumOfZeros
<1>6. QED
  <2> HIDE DEF Part, all, none
  <2>1. QED
    BY <1>1, <1>4, <1>5

\* One more report moves its own side only.
LEMMA SideMoves ==
  ASSUME NEW q \in [Orders -> Nat], NEW r \in [Orders -> Nat], NEW o \in Orders,
         \A p \in Orders : p # o => r[p] = q[p], NEW side \in {1, -1}
  PROVE  /\ Of(side, q) \in Int /\ Of(side, r) \in Int
         /\ Of(side, r) = Of(side, q) + (IF Side[o] = side THEN side * (r[o] - q[o]) ELSE 0)
<1> DEFINE Only(t) == [p \in Orders |-> IF Side[p] = side THEN t[p] ELSE 0]
<1>1. /\ Only(q) \in [Orders -> Int] /\ Only(r) \in [Orders -> Int]
      /\ \A p \in Orders : p # o => Only(r)[p] = Only(q)[p]
      /\ Only(r)[o] - Only(q)[o] = IF Side[o] = side THEN r[o] - q[o] ELSE 0
  OBVIOUS
<1>2. Of(side, q) = Signed(Only(q)) /\ Of(side, r) = Signed(Only(r))
  BY DEF Of
<1>3. /\ Signed(Only(q)) \in Int /\ Signed(Only(r)) \in Int
      /\ Signed(Only(r)) = Signed(Only(q)) + Side[o] * (Only(r)[o] - Only(q)[o])
  <2> HIDE DEF Only
  <2>1. QED
    BY <1>1, SignedMoves
<1>4. Side[o] * (Only(r)[o] - Only(q)[o]) = IF Side[o] = side THEN side * (r[o] - q[o]) ELSE 0
  <2>1. Side[o] * 0 = 0
    BY ConstantsAssumption
  <2>2. QED
    BY <1>1, <2>1
<1>5. QED
  BY <1>2, <1>3, <1>4
-----------------------------------------------------------------------------
\* What is reported and executed are numbers of lots, before a step and after it.
LEMMA QuantitiesTyped ==
  /\ TypeCore => Reported \in [Orders -> Nat] /\ executed \in [Orders -> Nat]
  /\ TypeCore' => Reported' \in [Orders -> Nat] /\ executed' \in [Orders -> Nat]
BY ConstantsAssumption DEF TypeCore, Results, Reported

\* What a call books is added to the position and to its report.
LEMMA BookMovesPosition ==
  ASSUME IInv, TypeCore', PositionInv, NEW o \in Orders, NEW quantity \in 0 .. Lots,
         ~ At(o, "done"), Book(o, quantity), UNCHANGED <<account, synced, executed>>
  PROVE  PositionInv'
<1> USE ConstantsAssumption
<1>1. /\ position' = position + Side[o] * quantity
      /\ result' = [result EXCEPT ![o] = [status |-> "FILLED", quantity |-> quantity]]
  BY DEF Book, Return, Goto
<1>2. Reported \in [Orders -> Nat] /\ Reported' \in [Orders -> Nat] /\ executed \in [Orders -> Nat]
  BY QuantitiesTyped DEF IInv
<1>3. /\ Reported[o] = 0 /\ Reported'[o] = quantity
      /\ \A p \in Orders : p # o => Reported'[p] = Reported[p]
  BY <1>1 DEF IInv, OpenCalls, NotYet, TypeCore, Reported
<1>4. /\ Signed(Reported) \in Int /\ Signed(Reported') \in Int
      /\ Signed(Reported') = Signed(Reported) + Side[o] * (Reported'[o] - Reported[o])
  <2>1. Reported \in [Orders -> Int] /\ Reported' \in [Orders -> Int]
    BY <1>2
  <2>2. QED
    BY <1>3, <2>1, SignedMoves
<1>5. \A side \in {1, -1} :
        /\ Of(side, Reported) \in Int
        /\ Of(side, Reported') = Of(side, Reported)
             + (IF Side[o] = side THEN side * (Reported'[o] - Reported[o]) ELSE 0)
  BY <1>2, <1>3, SideMoves
<1>6. quantity - 0 = quantity /\ quantity \in Nat /\ Side[o] \in {1, -1}
  OBVIOUS
<1>7. /\ Signed(Reported') = Signed(Reported) + Side[o] * quantity
      /\ Side[o] = 1 => Side[o] * quantity = quantity /\ Of(1, Reported') = Of(1, Reported) + quantity
                        /\ Of(-1, Reported') = Of(-1, Reported)
      /\ Side[o] = -1 => Side[o] * quantity = - quantity /\ Of(1, Reported') = Of(1, Reported)
                         /\ Of(-1, Reported') = Of(-1, Reported) - quantity
  <2>1. 1 \in {1, -1} /\ -1 \in {1, -1} /\ 1 # -1
    OBVIOUS
  <2>2. Side[o] = 1 => Of(1, Reported') = Of(1, Reported) + 1 * quantity
                       /\ Of(-1, Reported') = Of(-1, Reported) + 0
    BY <1>3, <1>5, <1>6, <2>1
  <2>3. Side[o] = -1 => Of(1, Reported') = Of(1, Reported) + 0
                        /\ Of(-1, Reported') = Of(-1, Reported) + (-1) * quantity
    BY <1>3, <1>5, <1>6, <2>1
  <2>4. Signed(Reported') = Signed(Reported) + Side[o] * quantity
    BY <1>3, <1>4, <1>6
  <2>5. Of(1, Reported) \in Int /\ Of(-1, Reported) \in Int
    BY <1>5
  <2>6. QED
    BY <1>6, <2>2, <2>3, <2>4, <2>5
<1>8. Of(1, executed) \in Int /\ Of(-1, executed) \in Int
  BY <1>2, SidesGrow
<1>9. /\ ~ synced => position = Signed(Reported)
      /\ position <= Of(1, executed) + Of(1, Reported)
      /\ position >= Of(-1, executed) + Of(-1, Reported)
      /\ position \in Int /\ account \in SUBSET Int
  BY DEF PositionInv, PositionIsReported, Of, Reported
<1>10. Of(1, Reported) \in Int /\ Of(-1, Reported) \in Int
  BY <1>5
<1>11. /\ ~ synced => position' = Signed(Reported')
       /\ position' <= Of(1, executed) + Of(1, Reported')
       /\ position' >= Of(-1, executed) + Of(-1, Reported')
       /\ position' \in Int
  BY <1>1, <1>4, <1>6, <1>7, <1>8, <1>9, <1>10
<1>12. (Of(1, executed))' = Of(1, executed) /\ (Of(-1, executed))' = Of(-1, executed)
       /\ (Of(1, Reported))' = Of(1, Reported') /\ (Of(-1, Reported))' = Of(-1, Reported')
       /\ (Signed(Reported))' = Signed(Reported')
  BY DEF Of, Signed
<1>13. PositionIsReported'
  BY <1>11, <1>12 DEF PositionIsReported, Of, Reported
<1>14. AccountWasExecuted'
  BY <1>12 DEF PositionInv, AccountWasExecuted
<1>15. QED
  BY <1>9, <1>11, <1>13, <1>14 DEF PositionInv

\* While nothing is booked, executions and the account move between the same bounds.
LEMMA OutsideMovesPosition ==
  ASSUME IInv, TypeCore', PositionInv, Reported' = Reported,
         \A o \in Orders : executed'[o] >= executed[o],
         account' = account \/ account' = {Exposure} \/ account' = {},
         account' = account \/ executed' = executed,
         \/ position' = position /\ synced' = synced
         \/ position' \in account' /\ synced' = TRUE
  PROVE  PositionInv'
<1>1. Reported \in [Orders -> Nat] /\ executed \in [Orders -> Nat] /\ executed' \in [Orders -> Nat]
  BY QuantitiesTyped DEF IInv
<1>2. /\ ~ synced => position = Signed(Reported)
      /\ position <= Of(1, executed) + Of(1, Reported)
      /\ position >= Of(-1, executed) + Of(-1, Reported)
      /\ position \in Int /\ account \in SUBSET Int
  BY DEF PositionInv, PositionIsReported, Of, Reported
<1>3. /\ Of(1, executed) \in Int /\ Of(-1, executed) \in Int /\ Exposure \in Int
      /\ Of(-1, executed) <= 0 /\ 0 <= Of(1, executed)
      /\ Exposure = Of(1, executed) + Of(-1, executed)
      /\ Of(1, executed) <= Of(1, executed') /\ Of(-1, executed') <= Of(-1, executed)
  <2>1. \A p \in Orders : executed[p] <= executed'[p]
    BY <1>1
  <2>2. QED
    BY <1>1, <2>1, SidesGrow DEF Exposure
<1>4. Of(1, executed') \in Int /\ Of(-1, executed') \in Int
      /\ Of(1, Reported) \in Int /\ Of(-1, Reported) \in Int
      /\ Of(-1, Reported) <= 0 /\ 0 <= Of(1, Reported)
  <2>1. \A p \in Orders : Reported[p] <= Reported[p] /\ executed'[p] <= executed'[p]
    BY <1>1
  <2>2. QED
    BY <1>1, <2>1, SidesGrow
<1>5. /\ account' \in SUBSET Int
      /\ \A value \in account' : Of(-1, executed') <= value /\ value <= Of(1, executed')
  <2>1. CASE account' = account
    BY <1>2, <1>3, <1>4, <2>1 DEF PositionInv, AccountWasExecuted
  <2>2. CASE account' = {Exposure} /\ executed' = executed
    BY <1>3, <2>2
  <2>3. CASE account' = {}
    BY <2>3
  <2>4. QED
    BY <2>1, <2>2, <2>3
<1>6. /\ ~ synced' => position' = Signed(Reported)
      /\ position' <= Of(1, executed') + Of(1, Reported)
      /\ position' >= Of(-1, executed') + Of(-1, Reported)
      /\ position' \in Int
  <2>1. CASE position' = position /\ synced' = synced
    BY <1>2, <1>3, <1>4, <2>1
  <2>2. CASE position' \in account' /\ synced' = TRUE
    <3>1. position' \in Int /\ Of(-1, executed') <= position' /\ position' <= Of(1, executed')
      BY <1>5, <2>2
    <3>2. QED
      BY <1>4, <2>2, <3>1
  <2>3. QED
    BY <2>1, <2>2
<1>7. (Of(1, executed))' = Of(1, executed') /\ (Of(-1, executed))' = Of(-1, executed')
      /\ (Of(1, Reported))' = Of(1, Reported') /\ (Of(-1, Reported))' = Of(-1, Reported')
      /\ (Signed(Reported))' = Signed(Reported')
  BY DEF Of, Signed
<1>8. PositionIsReported'
  BY <1>6, <1>7 DEF PositionIsReported, Of, Reported
<1>9. AccountWasExecuted'
  BY <1>5, <1>7 DEF AccountWasExecuted
<1>10. QED
  BY <1>5, <1>6, <1>8, <1>9 DEF PositionInv

LEMMA PositionInit == Init => PositionInv
<1> SUFFICES ASSUME Init PROVE PositionInv
  OBVIOUS
<1>1. Reported = [o \in Orders |-> 0] /\ executed = [o \in Orders |-> 0]
  BY DEF Init, Reported, NotYet
<1> DEFINE zero == [o \in Orders |-> 0]
<1>2. Signed(zero) = 0 /\ Of(1, zero) = 0 /\ Of(-1, zero) = 0
  <2>1. [o \in Orders |-> Side[o] * zero[o]] = zero
    BY ConstantsAssumption
  <2>2. \A side \in {1, -1} : [o \in Orders |-> IF Side[o] = side THEN zero[o] ELSE 0] = zero
    OBVIOUS
  <2>3. SumFunctionOnSet(zero, Orders) = 0 /\ DOMAIN zero = Orders
    <3>1. \A o \in Orders : zero[o] = 0
      OBVIOUS
    <3>2. SumFunctionOnSet(zero, Orders) = 0
      <4> HIDE DEF zero
      <4>1. QED
        BY <3>1, ConstantsAssumption, SumOfZeros
    <3>3. QED
      BY <3>2
  <2>4. Signed(zero) = 0
    <3>1. Signed(zero) = SumFunction([o \in Orders |-> Side[o] * zero[o]])
      BY DEF Signed
    <3>2. Signed(zero) = SumFunction(zero)
      BY <2>1, <3>1
    <3>3. QED
      <4> HIDE DEF zero
      <4>1. QED
        BY <2>3, <3>2 DEF SumFunction
  <2>5. \A side \in {1, -1} : Of(side, zero) = Signed(zero)
    <3> HIDE DEF zero
    <3>1. QED
      BY <2>2 DEF Of
  <2>6. QED
    BY <2>4, <2>5
<1>3. position = 0 /\ account = {}
  BY DEF Init
<1>4. PositionIsReported
  <2> HIDE DEF zero
  <2>1. Reported = zero /\ executed = zero
    BY <1>1 DEF zero
  <2>2. /\ position = Signed(Reported)
        /\ position <= Of(1, executed) + Of(1, Reported)
        /\ position >= Of(-1, executed) + Of(-1, Reported)
    BY <1>2, <1>3, <2>1
  <2>3. QED
    BY <2>2 DEF PositionIsReported, Of, Reported
<1>5. QED
  BY <1>3, <1>4 DEF PositionInv, AccountWasExecuted

LEMMA PositionStep == IInv /\ IInv' /\ PositionInv /\ [Next]_vars => PositionInv'
<1> SUFFICES ASSUME IInv, IInv', PositionInv, [Next]_vars PROVE PositionInv'
  OBVIOUS
<1>t. TypeCore /\ TypeCore'
  BY DEF IInv
<1>e. UNCHANGED executed => \A o \in Orders : executed'[o] >= executed[o]
  BY <1>t DEF TypeCore
<1>1. CASE Connect \/ Connected \/ Disconnect \/ Disconnected
  <2>1. /\ UNCHANGED <<position, synced, result, executed>>
        /\ account' = account \/ account' = {Exposure}
    BY <1>1 DEF Connect, Connected, Disconnect, Disconnected, books, orders, exchange
  <2>2. Reported' = Reported
    BY <2>1 DEF Reported
  <2>3. QED
    BY <1>t, <1>e, <2>1, <2>2, OutsideMovesPosition
<1>2. CASE GetPosition
  <2>1. UNCHANGED <<position, account, synced, result, executed>>
    BY <1>2 DEF GetPosition, orders, exchange
  <2>2. Reported' = Reported
    BY <2>1 DEF Reported
  <2>3. QED
    BY <1>t, <1>e, <2>1, <2>2, OutsideMovesPosition
<1>3. CASE GotPosition
  <2>1. /\ UNCHANGED <<result, executed>>
        /\ account' = account \/ account' = {Exposure}
    BY <1>3 DEF GotPosition, orders, exchange
  <2>2. \/ position' = position /\ synced' = synced
        \/ position' \in account' /\ synced' = TRUE
    BY <1>3, <1>t DEF GotPosition, TypeCore
  <2>3. Reported' = Reported
    BY <2>1 DEF Reported
  <2>4. QED
    BY <1>t, <1>e, <2>1, <2>2, <2>3, OutsideMovesPosition
<1>4. ASSUME NEW o \in Orders, Arrive(o) \/ Lose(o) \/ Execute(o) \/ End(o) PROVE PositionInv'
  <2>1. UNCHANGED <<position, account, synced, result>>
    BY <1>4 DEF Arrive, Lose, Execute, End, books, orders
  <2>2. \A p \in Orders : executed'[p] >= executed[p]
    <3>1. executed' = executed \/ executed' = [executed EXCEPT ![o] = @ + 1]
      BY <1>4 DEF Arrive, Lose, Execute, End
    <3>2. QED
      BY <1>t, <3>1 DEF TypeCore
  <2>3. Reported' = Reported
    BY <2>1 DEF Reported
  <2>4. QED
    BY <1>t, <2>1, <2>2, <2>3, OutsideMovesPosition
<1>5. ASSUME NEW o \in Orders, NotConnected(o) \/ PostError(o) PROVE PositionInv'
  <2>1. /\ UNCHANGED <<position, account, synced, executed>> /\ ~ At(o, "done")
        /\ result' = [result EXCEPT ![o] = [status |-> "REJECTED", quantity |-> 0]]
    BY <1>5 DEF NotConnected, PostError, Reject, Return, At, exchange
  <2>2. Reported' = Reported
    BY <1>t, <2>1 DEF Reported, IInv, OpenCalls, NotYet, TypeCore
  <2>3. QED
    BY <1>t, <1>e, <2>1, <2>2, OutsideMovesPosition
<1>6. ASSUME NEW o \in Orders, Submit(o) PROVE PositionInv'
  <2>1. UNCHANGED <<position, account, synced, result, executed>>
    BY <1>6 DEF Submit, books
  <2>2. Reported' = Reported
    BY <2>1 DEF Reported
  <2>3. QED
    BY <1>t, <1>e, <2>1, <2>2, OutsideMovesPosition
<1>7. ASSUME NEW o \in Orders, Step(o) PROVE PositionInv'
  <2>1. CASE PostError(o)
    BY <1>5, <2>1
  <2>2. /\ ~ At(o, "done") \/ PostError(o)
        /\ UNCHANGED <<account, synced, executed>>
    BY <1>7 DEF Step, SimulateOrder, PostError, PostReply, PollForFill, At, exchange
  <2>3. ASSUME NEW quantity \in 0 .. Lots, Book(o, quantity), ~ At(o, "done") PROVE PositionInv'
    BY <1>t, <2>2, <2>3, BookMovesPosition
  <2>4. CASE UNCHANGED <<position, result>>
    <3>1. Reported' = Reported
      BY <2>4 DEF Reported
    <3>2. QED
      BY <1>t, <1>e, <2>2, <2>4, <3>1, OutsideMovesPosition
  <2>5. \/ PostError(o) \/ UNCHANGED <<position, result>>
        \/ ~ At(o, "done") /\ \E quantity \in 0 .. Lots : Book(o, quantity)
    <3>1. executed[o] \in 0 .. Lots /\ 0 \in 0 .. Lots /\ Lots \in 0 .. Lots
      BY <1>t, ConstantsAssumption DEF TypeCore
    <3>2. CASE SimulateOrder(o)
      BY <3>1, <3>2 DEF SimulateOrder, At
    <3>3. CASE PostReply(o)
      <4>1. \A quantity \in 0 .. executed[o] : quantity \in 0 .. Lots
        BY <3>1
      <4>2. QED
        BY <3>1, <3>3, <4>1 DEF PostReply, At
    <3>4. CASE PollForFill(o)
      BY <3>1, <3>4 DEF PollForFill, NotFilled, At
    <3>5. QED
      BY <1>7, <3>2, <3>3, <3>4 DEF Step
  <2>6. QED
    BY <2>1, <2>3, <2>4, <2>5
<1>8. CASE UNCHANGED vars
  <2>1. UNCHANGED <<position, account, synced, result, executed>>
    BY <1>8 DEF vars, books, orders, exchange
  <2>2. Reported' = Reported
    BY <2>1 DEF Reported
  <2>3. QED
    BY <1>t, <1>e, <2>1, <2>2, OutsideMovesPosition
<1>9. QED
  BY <1>1, <1>2, <1>3, <1>4, <1>5, <1>6, <1>7, <1>8 DEF Next

\* PositionInv is an invariant, whatever calls, polls and get_position() interleave.
THEOREM PositionInvariance == Spec => []PositionInv
<1>1. Init => PositionInv
  BY PositionInit
<1>2. IInv /\ IInv' /\ PositionInv /\ [Next]_vars => PositionInv'
  BY PositionStep
<1>3. QED
  BY <1>1, <1>2, Invariance, PTL DEF Spec

\* Until get_position() overwrites it, the position is the sum of what submit_order
\* reported; afterwards no order is in it more than twice, whatever the exchange
\* answers and however calls, polls and get_position() interleave.
THEOREM PositionAddsUp == Spec => []PositionIsReported
<1>1. PositionInv => PositionIsReported
  BY DEF PositionInv
<1>2. QED
  BY <1>1, PositionInvariance, PTL

\* The position and the account stay integers, and all else what it is declared.
THEOREM TypeCorrect == Spec => []TypeOK
<1>1. IInv /\ PositionInv => TypeOK
  BY DEF IInv, PositionInv, TypeCore, TypeOK, Calls, Results, Held
<1>2. QED
  BY <1>1, Invariance, PositionInvariance, PTL
=============================================================================
