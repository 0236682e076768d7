------------------------------- MODULE PubSub -------------------------------
(***************************************************************************)
(* subscribe and _pubsub_listener of RedisEventBus (core/bus.py): the one  *)
(* Redis connection of a process and the listeners that share it.  Every   *)
(* subscription adds a handler to its channel and a listener; whichever    *)
(* listener reads a message awaits the handlers of its own channel.        *)
(*                                                                         *)
(* External, the redis client: a task that reads while another is waiting  *)
(* takes its turn or, if the client raises, gets a RuntimeError that ends  *)
(* its listener; a pattern channel:* matches messages on channel:type.     *)
(***************************************************************************)
EXTENDS Naturals, Sequences, FiniteSets

CONSTANTS
  Channels,       \* EventChannel
  Messages,       \* messages published on the channels of their types
  ChannelOf,      \* ChannelOf[m]: the channel of message m
  Raises,         \* whether a second concurrent read raises: what clients may do
  MaxSubscribes,  \* bound on the calls of subscribe
  None            \* no message

ASSUME ConstantsAssumption ==
  /\ ChannelOf \in [Messages -> Channels] /\ None \notin Messages
  /\ Raises \subseteq BOOLEAN /\ MaxSubscribes \in Nat

VARIABLES
  raises,     \* what the client does
  handlers,   \* handlers[c]: number of entries of _subscribers[c]
  listener,   \* the listeners, in the order of their start
  wire,       \* messages the connection holds
  sent,       \* messages published so far
  calls       \* history: calls[m][c], handlers of channel c called with m

vars == <<raises, handlers, listener, wire, sent, calls>>

Listeners == DOMAIN listener
Waiting == {l \in Listeners : listener[l].state = "wait"}
Taken(m) == m \in sent /\ \A i \in DOMAIN wire : wire[i] # m

Init ==
  /\ raises \in Raises
  /\ handlers = [c \in Channels |-> 0] /\ listener = <<>>
  /\ wire = <<>> /\ sent = {}
  /\ calls = [m \in Messages |-> [c \in Channels |-> 0]]

\* What becomes of a listener that turns to the connection: it waits, unless
\* another does already.
Turn == IF raises /\ Waiting # {} THEN "dead" ELSE "wait"

Subscribe(c) ==
  /\ Len(listener) < MaxSubscribes
  /\ handlers' = [handlers EXCEPT ![c] = @ + 1]
  /\ listener' = Append(listener,
       [channel |-> c, state |-> Turn, message |-> None, entry |-> 0])
  /\ UNCHANGED <<wire, sent, calls>>

\* Nothing keeps a message for a channel without subscription.
Publish(m) ==
  /\ m \notin sent
  /\ sent' = sent \cup {m}
  /\ wire' = IF handlers[ChannelOf[m]] > 0 THEN Append(wire, m) ELSE wire
  /\ UNCHANGED <<handlers, listener, calls>>

\* Mutant: the message stays for the other listeners.
ReadCopy(l) ==
  /\ listener[l].state = "wait" /\ wire # <<>>
  /\ wire' = IF Waiting = {l} THEN Tail(wire) ELSE wire
  /\ listener' = [listener EXCEPT ![l].state = "call", ![l].message = Head(wire)]
  /\ UNCHANGED <<handlers, sent, calls>>

\* The listener that waits takes the message, whatever its channel.
Read(l) ==
  /\ listener[l].state = "wait" /\ wire # <<>>
  /\ wire' = Tail(wire)
  /\ listener' = [listener EXCEPT ![l].state = "call", ![l].message = Head(wire)]
  /\ UNCHANGED <<handlers, sent, calls>>

\* It awaits one handler after the other; what they raise is logged.
CallHandler(l) ==
  /\ listener[l].state = "call"
  /\ listener[l].entry < handlers[listener[l].channel]
  /\ calls' = [calls EXCEPT ![listener[l].message][listener[l].channel] = @ + 1]
  /\ listener' = [listener EXCEPT ![l].entry = @ + 1]
  /\ UNCHANGED <<handlers, wire, sent>>

\* Mutant: what a handler raises ends the delivery and the listener.
ResumeNever(l) ==
  /\ listener[l].state = "call"
  /\ listener[l].entry = handlers[listener[l].channel]
  /\ listener' = [listener EXCEPT ![l].state = "dead"]
  /\ UNCHANGED <<handlers, wire, sent, calls>>

\* The list is exhausted: back to the connection.
Resume(l) ==
  /\ listener[l].state = "call"
  /\ listener[l].entry = handlers[listener[l].channel]
  /\ listener' = [listener EXCEPT ![l].state = Turn, ![l].message = None, ![l].entry = 0]
  /\ UNCHANGED <<handlers, wire, sent, calls>>

Deliver(l) == Read(l) \/ CallHandler(l) \/ Resume(l)

Next ==
  /\ \/ \E c \in Channels : Subscribe(c)
     \/ \E m \in Messages : Publish(m)
     \/ \E l \in Listeners : Deliver(l)
  /\ UNCHANGED raises

Spec == Init /\ [][Next]_vars

\* The event loop runs every listener.
FairSpec == Spec /\ \A l \in 1 .. MaxSubscribes : WF_vars(l \in Listeners /\ Deliver(l) /\ UNCHANGED raises)

-----------------------------------------------------------------------------
TypeOK ==
  /\ raises \in Raises
  /\ handlers \in [Channels -> 0 .. MaxSubscribes]
  /\ listener \in Seq([channel : Channels, state : {"wait", "call", "dead"},
                       message : Messages \cup {None}, entry : 0 .. MaxSubscribes])
  /\ wire \in Seq(Messages) /\ sent \in SUBSET Messages
  /\ calls \in [Messages -> [Channels -> 0 .. MaxSubscribes]]

\* The connection is never left without a listener, whatever the collisions.
SomeoneListens ==
  listener # <<>> => \E l \in Listeners : listener[l].state # "dead"

\* A message is delivered by one listener: no handler gets it twice, however
\* many listeners its channel has and whoever subscribes meanwhile.
OneDelivery ==
  \A m \in Messages : \A c \in Channels :
    /\ calls[m][c] <= handlers[c]
    /\ \A d \in Channels : calls[m][c] > 0 /\ calls[m][d] > 0 => c = d

\* A message the connection holds is read and its delivery comes to an end.
EveryMessageRead ==
  \A m \in Messages :
    (\E i \in DOMAIN wire : wire[i] = m) ~>
      Taken(m) /\ \A l \in Listeners : listener[l].message # m

\* "Subscribe to events on a channel": handlers get the events of their channel.
RoutedByChannel ==
  \A m \in Messages : \A c \in Channels : calls[m][c] > 0 => c = ChannelOf[m]
=============================================================================
