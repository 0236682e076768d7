---------------------------- MODULE DurableTopic ----------------------------
(***************************************************************************)
(* What the event bus of core/bus.py promises a reader that knows nothing  *)
(* of its caches, its tasks or its retries: a table of events, each stored *)
(* once and for ever at an offset of its own, and a broadcast that carries *)
(* only stored events, each at most Retries times on its own channel and   *)
(* never more often on the system channel.                                 *)
(***************************************************************************)
EXTENDS Naturals

CONSTANTS
  Events,     \* event ids
  Retries     \* attempts at one broadcast (BusConfig.redis_publish_retries)

VARIABLES
  table,      \* table[e]: offset of e's row, 0 while it has none
  onChannel,  \* onChannel[e]: messages with e sent on its own channel
  onSystem    \* onSystem[e]: messages with e sent on the system channel

vars == <<table, onChannel, onSystem>>

Stored(e) == table[e] # 0

Init ==
  /\ table = [e \in Events |-> 0]
  /\ onChannel = [e \in Events |-> 0]
  /\ onSystem = [e \in Events |-> 0]

\* Offsets need not grow: a row with a smaller offset may appear later.
Store(e) ==
  /\ ~ Stored(e)
  /\ table'[e] \in Nat \ {0}
  /\ \A f \in Events : table[f] # table'[e]
  /\ table' = [table EXCEPT ![e] = table'[e]]
  /\ UNCHANGED <<onChannel, onSystem>>

Broadcast(e) ==
  /\ Stored(e)
  /\ onChannel[e] < Retries
  /\ onChannel' = [onChannel EXCEPT ![e] = @ + 1]
  /\ UNCHANGED <<table, onSystem>>

BroadcastSystem(e) ==
  /\ Stored(e)
  /\ onSystem[e] < onChannel[e]
  /\ onSystem' = [onSystem EXCEPT ![e] = @ + 1]
  /\ UNCHANGED <<table, onChannel>>

Next == \E e \in Events : Store(e) \/ Broadcast(e) \/ BroadcastSystem(e)

Spec == Init /\ [][Next]_vars
=============================================================================
