-------------------------- MODULE TestnetExecution --------------------------
(***************************************************************************)
(* The TestnetExecutionEngine of execution/testnet_engine.py: orders that  *)
(* are posted to the exchange and, limit orders, polled for their fill,    *)
(* while connect(), disconnect() and get_position() run between the awaits.*)
(*                                                                         *)
(* One symbol, orders of Lots lots; prices, fees and the entry price are   *)
(* left out.  External: the exchange accepts, refuses, executes, cancels   *)
(* or lets expire what reaches it; a call that fails may have reached it,  *)
(* or reach it later.  An answer may lack the order's id or the executed   *)
(* quantity.  Without aiohttp there is no session, and without a session   *)
(* the engine makes its fills up.                                          *)
(***************************************************************************)
EXTENDS Integers, FiniteSets, Functions

CONSTANTS
  Orders,    \* order requests
  Side,      \* Side[o]: 1 to buy, -1 to sell
  Kind,      \* Kind[o]: "limit" or "market"
  Lots,      \* quantity of an order
  Polls,     \* max_attempts of _poll_for_fill
  Online,    \* whether sessions can be had: what deployments there are
  MaxLinks   \* bound on the calls of connect()

ASSUME ConstantsAssumption ==
  /\ IsFiniteSet(Orders) /\ Side \in [Orders -> {1, -1}] /\ Kind \in [Orders -> {"limit", "market"}]
  /\ Lots \in Nat \ {0} /\ Polls \in Nat \ {0}
  /\ Online \subseteq BOOLEAN /\ MaxLinks \in Nat

VARIABLES
  online,      \* whether connect() gets a session
  connected,   \* _connected
  session,     \* _session: "none", "open", or "closing" in disconnect()
  links,       \* calls of connect()
  position,    \* quantity of _positions
  account,     \* the position in _account_cache: a set of at most one
  sync,        \* get_position(): "idle" or "fetch"
  synced,      \* history: get_position() has set the position
  call,        \* call[o]: stage and attempt of submit_order
  result,      \* result[o]: status and filled_quantity that were returned
  emitted,     \* emitted[o]: fill and reject events so far
  bare,        \* history: orders booked from an answer without a quantity
  request,     \* request[o]: "none", "sent", "gone": the POST on its way
  held,        \* held[o]: the exchange's status of the order
  executed     \* executed[o]: lots executed by the exchange

engine == <<online, connected, session, links>>
books == <<position, account, sync, synced>>
orders == <<call, result, emitted, bare>>
exchange == <<request, held, executed>>
vars == <<engine, books, orders, exchange>>

NotYet == [status |-> "none", quantity |-> 0]
Stages == {"idle", "post", "poll", "simulate", "done"}

Init ==
  /\ online \in Online /\ connected = FALSE /\ session = "none" /\ links = 0
  /\ position = 0 /\ account = {} /\ sync = "idle" /\ synced = FALSE
  /\ call = [o \in Orders |-> [stage |-> "idle", attempt |-> 0]]
  /\ result = [o \in Orders |-> NotYet]
  /\ emitted = [o \in Orders |-> [fill |-> 0, reject |-> 0]] /\ bare = {}
  /\ request = [o \in Orders |-> "none"]
  /\ held = [o \in Orders |-> "absent"] /\ executed = [o \in Orders |-> 0]

At(o, stage) == call[o].stage = stage
Signed(quantity) == SumFunction([o \in Orders |-> Side[o] * quantity[o]])
Exposure == Signed(executed)

-----------------------------------------------------------------------------
(* connect() and disconnect(), which the application never overlaps: start()
   awaits the one, and stop() calls the other later. *)

\* The session comes first, _connected after the account was asked for.
Connect ==
  /\ ~ connected /\ session = "none" /\ links < MaxLinks
  /\ links' = links + 1
  /\ IF online THEN session' = "open" /\ UNCHANGED connected
     ELSE connected' = TRUE /\ UNCHANGED session
  /\ UNCHANGED <<online, books, orders, exchange>>

\* A failed request for the account does not matter.
Connected ==
  /\ ~ connected /\ session = "open"
  /\ connected' = TRUE
  /\ account' \in {account, {Exposure}}
  /\ UNCHANGED <<online, session, links, position, sync, synced, orders, exchange>>

\* _connected is cleared, the session is closed, and then forgotten.
Disconnect ==
  /\ connected
  /\ connected' = FALSE
  /\ session' = IF session = "open" THEN "closing" ELSE "none"
  /\ UNCHANGED <<online, links, books, orders, exchange>>

Disconnected ==
  /\ session = "closing" /\ session' = "none"
  /\ UNCHANGED <<online, connected, links, books, orders, exchange>>

-----------------------------------------------------------------------------
(* submit_order(). *)

Goto(o, stage) == call' = [call EXCEPT ![o].stage = stage]
Return(o, status, quantity) ==
  /\ Goto(o, "done")
  /\ result' = [result EXCEPT ![o] = [status |-> status, quantity |-> quantity]]

Reject(o) ==
  /\ Return(o, "REJECTED", 0)
  /\ emitted' = [emitted EXCEPT ![o].reject = @ + 1]
  /\ UNCHANGED position

\* Mutant: a fill of nothing is rejected after it was emitted.
BookOrReject(o, quantity) ==
  /\ position' = position + Side[o] * quantity
  /\ Return(o, IF quantity = 0 THEN "REJECTED" ELSE "FILLED", quantity)
  /\ emitted' = [emitted EXCEPT ![o].fill = @ + 1]

\* The result is FILLED whatever the quantity.
Book(o, quantity) ==
  /\ position' = position + Side[o] * quantity
  /\ Return(o, "FILLED", quantity)
  /\ emitted' = [emitted EXCEPT ![o].fill = @ + 1]

NotConnected(o) ==
  /\ At(o, "idle") /\ ~ connected
  /\ Reject(o)
  /\ UNCHANGED <<engine, account, sync, synced, bare, exchange>>

Submit(o) ==
  /\ At(o, "idle") /\ connected
  /\ IF session = "open"
     THEN Goto(o, "post") /\ request' = [request EXCEPT ![o] = "sent"]
     ELSE Goto(o, "simulate") /\ UNCHANGED request
  /\ UNCHANGED <<engine, books, result, emitted, bare, held, executed>>

\* Mutant: the position is forgotten.
SimulateUnbooked(o) ==
  /\ At(o, "simulate")
  /\ Return(o, "FILLED", Lots)
  /\ emitted' = [emitted EXCEPT ![o].fill = @ + 1]
  /\ UNCHANGED <<engine, books, bare, exchange>>

\* After a sleep the whole order is filled at a made-up price.
SimulateOrder(o) ==
  /\ At(o, "simulate")
  /\ Book(o, Lots)
  /\ UNCHANGED <<engine, account, sync, synced, bare, exchange>>

\* The exchange answered with an error, or no answer came.
PostError(o) ==
  /\ At(o, "post")
  /\ Reject(o)
  /\ UNCHANGED <<engine, account, sync, synced, bare, exchange>>

\* A limit order is polled when the answer has its id.  Otherwise the answer's
\* quantity counts, what was executed by then, or all of the order if the answer
\* does not say.
PostReply(o) ==
  /\ At(o, "post") /\ held[o] \notin {"absent", "refused"}
  /\ session = "open"
  /\ \/ /\ Kind[o] = "limit" /\ Goto(o, "poll")
        /\ UNCHANGED <<position, result, emitted, bare>>
     \/ (\E quantity \in 0 .. executed[o] : Book(o, quantity)) /\ UNCHANGED bare
     \/ Book(o, Lots) /\ bare' = bare \cup {o}
  /\ UNCHANGED <<engine, account, sync, synced, exchange>>

\* Mutants: the attempts are not counted; one attempt too many.
TryAgain(o) == UNCHANGED <<call, result, emitted, position>>
TryOnceMore(o) ==
  IF call[o].attempt < Polls
  THEN /\ call' = [call EXCEPT ![o].attempt = @ + 1]
       /\ UNCHANGED <<result, emitted, position>>
  ELSE Book(o, 0)

\* Nothing seen: sleep and ask again, or give up with nothing.
NotFilled(o) ==
  IF call[o].attempt < Polls - 1
  THEN /\ call' = [call EXCEPT ![o].attempt = @ + 1]
       /\ UNCHANGED <<result, emitted, position>>
  ELSE Book(o, 0)

\* Mutant: a partly filled order counts as filled.
PollOptimist(o) ==
  /\ At(o, "poll")
  /\ \/ /\ session = "open" /\ held[o] \in {"open", "filled"} /\ executed[o] > 0
        /\ Book(o, Lots)
     \/ session = "open" /\ held[o] = "canceled" /\ Book(o, 0)
     \/ NotFilled(o)
  /\ UNCHANGED <<engine, account, sync, synced, bare, exchange>>

\* Only a partly or wholly filled order shows its quantity, 0 if the answer lacks
\* it; a cancelled one counts as nothing, an expired one is asked for again, as
\* after an error.
PollForFill(o) ==
  /\ At(o, "poll")
  /\ \/ /\ session = "open" /\ held[o] \in {"open", "filled"} /\ executed[o] > 0
        /\ \E quantity \in {0, executed[o]} : Book(o, quantity)
     \/ session = "open" /\ held[o] = "canceled" /\ Book(o, 0)
     \/ NotFilled(o)
  /\ UNCHANGED <<engine, account, sync, synced, bare, exchange>>

-----------------------------------------------------------------------------
(* get_position(): the fetch may fail, and then the cached account counts. *)

GetPosition ==
  /\ sync = "idle" /\ session # "none" /\ sync' = "fetch"
  /\ UNCHANGED <<engine, position, account, synced, orders, exchange>>

GotPosition ==
  /\ sync = "fetch" /\ sync' = "idle"
  /\ account' = account \/ (session = "open" /\ account' = {Exposure})
  /\ position' \in IF account' = {} THEN {position} ELSE account'
  /\ synced' = (synced \/ account' # {})
  /\ UNCHANGED <<engine, orders, exchange>>

-----------------------------------------------------------------------------
(* The exchange. *)

Arrive(o) ==
  /\ request[o] = "sent"
  /\ request' = [request EXCEPT ![o] = "gone"]
  /\ held' \in {[held EXCEPT ![o] = h] : h \in {"open", "refused"}}
  /\ UNCHANGED <<engine, books, orders, executed>>

Lose(o) ==
  /\ request[o] = "sent" /\ ~ At(o, "post")
  /\ request' = [request EXCEPT ![o] = "gone"]
  /\ UNCHANGED <<engine, books, orders, held, executed>>

Execute(o) ==
  /\ held[o] = "open"
  /\ executed' = [executed EXCEPT ![o] = @ + 1]
  /\ held' = [held EXCEPT ![o] = IF executed'[o] = Lots THEN "filled" ELSE "open"]
  /\ UNCHANGED <<engine, books, orders, request>>

End(o) ==
  /\ held[o] = "open"
  /\ held' \in {[held EXCEPT ![o] = h] : h \in {"canceled", "expired"}}
  /\ UNCHANGED <<engine, books, orders, request, executed>>

Step(o) == SimulateOrder(o) \/ PostError(o) \/ PostReply(o) \/ PollForFill(o)

Next ==
  \/ Connect \/ Connected \/ Disconnect \/ Disconnected
  \/ GetPosition \/ GotPosition
  \/ \E o \in Orders :
       \/ NotConnected(o) \/ Submit(o) \/ Step(o)
       \/ Arrive(o) \/ Lose(o) \/ Execute(o) \/ End(o)

Spec == Init /\ [][Next]_vars

\* Requests are answered or time out, and the event loop runs every call.
FairSpec == Spec /\ \A o \in Orders : WF_vars(Step(o))

-----------------------------------------------------------------------------
TypeOK ==
  /\ online \in Online /\ {connected, synced} \subseteq BOOLEAN
  /\ session \in {"none", "open", "closing"} /\ links \in 0 .. MaxLinks
  /\ position \in Int /\ account \in SUBSET Int
  /\ sync \in {"idle", "fetch"}
  /\ call \in [Orders -> [stage : Stages, attempt : 0 .. Polls - 1]]
  /\ result \in [Orders -> [status : {"none", "FILLED", "REJECTED"},
                            quantity : 0 .. Lots]]
  /\ emitted \in [Orders -> [fill : Nat, reject : Nat]] /\ bare \in SUBSET Orders
  /\ request \in [Orders -> {"none", "sent", "gone"}]
  /\ held \in [Orders -> {"absent", "open", "refused", "filled", "canceled", "expired"}]
  /\ executed \in [Orders -> 0 .. Lots]

\* The engine never reports more than the exchange executed, however the answers
\* and the executions interleave, unless it had no session and made the fill up, or
\* booked an answer that did not say what was executed.
NeverAhead ==
  \A o \in Orders : online /\ o \notin bare => result[o].quantity <= executed[o]

\* A call ends in one event that agrees with its result, whatever failed on the
\* way; before that there is none.
OneVerdict ==
  \A o \in Orders :
    emitted[o] = [fill   |-> IF result[o].status = "FILLED" THEN 1 ELSE 0,
                  reject |-> IF result[o].status = "REJECTED" THEN 1 ELSE 0]

\* Until get_position() overwrites it, the position is what was reported; afterwards it
\* may hold an order twice, as the account has it and as submit_order books it, but
\* never more often.
PositionIsReported ==
  LET Of(side, quantity) == Signed([o \in Orders |-> IF Side[o] = side THEN quantity[o] ELSE 0])
      reported == [o \in Orders |-> result[o].quantity]
  IN  /\ ~ synced => position = Signed(reported)
      /\ position <= Of(1, executed) + Of(1, reported)
      /\ position >= Of(-1, executed) + Of(-1, reported)

\* submit_order returns, whatever the exchange answers and whoever disconnects.
SubmitReturns == \A o \in Orders : ~ At(o, "idle") ~> At(o, "done")
=============================================================================
