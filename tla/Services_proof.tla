---------------------------- MODULE Services_proof ----------------------------
(***************************************************************************)
(* The services around the trading core: what each keeps by itself, for    *)
(* any values of its constants, and together the invariants of MCServices. *)
(***************************************************************************)
EXTENDS MCServices, FiniteNumbers, SequenceTheorems

-----------------------------------------------------------------------------
(***************************************************************************)
(* The connection of PubSub.  A message is in one place at a time, on the  *)
(* wire once or with one listener, and a listener that delivers has called *)
(* as many of the handlers of its channel, and of no other, as its entry   *)
(* tells.                                                                  *)
(***************************************************************************)

ListenerRecord == [channel : Channels, state : {"wait", "call", "dead"},
                   message : Messages \cup {None}, entry : Nat]

Calling(l) == listener[l].state = "call"

\* TypeOK without its bounds, which follow from HandlersBound.
Shape ==
  /\ raises \in Raises
  /\ handlers \in [Channels -> Nat]
  /\ listener \in Seq(ListenerRecord)
  /\ wire \in Seq(Messages) /\ sent \in SUBSET Messages
  /\ calls \in [Messages -> [Channels -> Nat]]

\* Every entry of a channel has a listener.
HandlersBound ==
  /\ Len(listener) <= MaxSubscribes
  /\ \A c \in Channels : handlers[c] <= Len(listener)

\* What the connection holds was sent, and is held once.
OnTheWire ==
  /\ \A i \in 1 .. Len(wire) : wire[i] \in sent
  /\ \A i, j \in 1 .. Len(wire) : wire[i] = wire[j] => i = j

\* A listener holds a message exactly while it delivers it, and alone.
InHand ==
  /\ \A l \in Listeners :
       IF Calling(l)
       THEN /\ listener[l].message \in sent
            /\ \A i \in 1 .. Len(wire) : wire[i] # listener[l].message
            /\ listener[l].entry <= handlers[listener[l].channel]
       ELSE listener[l].message = None /\ listener[l].entry = 0
  /\ \A k, l \in Listeners :
       Calling(k) /\ Calling(l) /\ listener[k].message = listener[l].message => k = l

\* Nobody was called with a message that was not read, and with one in delivery only
\* the handlers before the listener's entry.
CallsSoFar ==
  /\ \A m \in Messages : \A c \in Channels :
       (m \notin sent \/ \E i \in 1 .. Len(wire) : wire[i] = m) => calls[m][c] = 0
  /\ \A l \in Listeners : \A c \in Channels :
       Calling(l) =>
         calls[listener[l].message][c] =
           IF c = listener[l].channel THEN listener[l].entry ELSE 0

BusInv == Shape /\ HandlersBound /\ OnTheWire /\ InHand /\ CallsSoFar /\ OneDelivery /\ SomeoneListens

-----------------------------------------------------------------------------
\* The invariant holds at the start.
LEMMA BusInitial == Init => BusInv
<1> SUFFICES ASSUME Init PROVE BusInv
  OBVIOUS
<1>1. Shape /\ HandlersBound
  BY ConstantsAssumption DEF Init, Shape, HandlersBound
<1>2. QED
  BY <1>1, ConstantsAssumption
  DEF Init, BusInv, OnTheWire, InHand, CallsSoFar, OneDelivery, SomeoneListens, Listeners

\* The listeners are records.
LEMMA ListenerShape ==
  ASSUME Shape
  PROVE  /\ Listeners = 1 .. Len(listener) /\ Len(listener) \in Nat
         /\ \A l \in Listeners : listener[l] \in ListenerRecord
BY DEF Shape, Listeners

\* A sequence keeps its type when an element is replaced.
LEMMA SequenceUpdate ==
  ASSUME NEW S, NEW q \in Seq(S), NEW i \in 1 .. Len(q), NEW e \in S
  PROVE  [q EXCEPT ![i] = e] \in Seq(S)
OBVIOUS

\* A new listener turns to the connection; the others go on.
LEMMA SubscribeInvariant ==
  ASSUME BusInv, NEW c \in Channels, Subscribe(c), UNCHANGED raises PROVE BusInv'
<1> DEFINE new == [channel |-> c, state |-> Turn, message |-> None, entry |-> 0]
<1>1. new \in ListenerRecord /\ new.state # "call"
  BY ConstantsAssumption DEF Turn, ListenerRecord
<1>2. /\ listener' = Append(listener, new)
      /\ listener' \in Seq(ListenerRecord) /\ Len(listener') = Len(listener) + 1
      /\ \A l \in 1 .. Len(listener) : listener'[l] = listener[l]
      /\ listener'[Len(listener) + 1] = new
      /\ Listeners = 1 .. Len(listener) /\ Listeners' = 1 .. Len(listener) + 1
  BY <1>1 DEF Subscribe, BusInv, Shape, Listeners
<1>3. /\ handlers' \in [Channels -> Nat] /\ UNCHANGED <<wire, sent, calls, raises>>
      /\ \A d \in Channels : handlers'[d] = IF d = c THEN handlers[d] + 1 ELSE handlers[d]
  BY DEF Subscribe, BusInv, Shape
<1>4. Shape'
  BY <1>2, <1>3 DEF Shape, BusInv
<1>5. HandlersBound'
  <2>1. Len(listener) < MaxSubscribes
    BY DEF Subscribe
  <2>2. Len(listener) \in Nat /\ MaxSubscribes \in Nat
    BY ListenerShape, ConstantsAssumption DEF BusInv
  <2>3. \A d \in Channels : handlers[d] <= Len(listener) /\ handlers[d] \in Nat
    BY DEF HandlersBound, BusInv, Shape
  <2>4. QED
    BY <1>2, <1>3, <2>1, <2>2, <2>3 DEF HandlersBound
<1>6. OnTheWire'
  BY <1>3 DEF OnTheWire, BusInv
<1>7. \A l \in Listeners' : IF l = Len(listener) + 1 THEN ~ Calling(l)' /\ listener'[l] = new
                            ELSE l \in Listeners /\ listener'[l] = listener[l]
                                 /\ (Calling(l)' <=> Calling(l))
  BY <1>1, <1>2 DEF Calling
<1>8. InHand'
  <2>1. \A l \in Listeners : listener[l].channel \in Channels /\ listener[l].entry \in Nat
    BY ListenerShape DEF BusInv, ListenerRecord
  <2>t. handlers \in [Channels -> Nat]
    BY DEF BusInv, Shape
  <2>2. \A d \in Channels : handlers[d] \in Nat /\ handlers[d] <= handlers'[d]
    <3> TAKE d \in Channels
    <3>1. handlers[d] \in Nat
      BY <2>t
    <3>2. handlers'[d] = handlers[d] \/ handlers'[d] = handlers[d] + 1
      BY <1>3
    <3>3. QED
      BY <3>1, <3>2
  <2>3. \A k, l \in Listeners' : Calling(k)' /\ Calling(l)' /\ listener'[k].message = listener'[l].message => k = l
    BY <1>7 DEF InHand, BusInv
  <2>4. ASSUME NEW l \in Listeners', Calling(l)'
        PROVE  /\ listener'[l].message \in sent'
               /\ \A i \in 1 .. Len(wire') : wire'[i] # listener'[l].message
               /\ listener'[l].entry <= handlers'[listener'[l].channel]
    <3>1. l \in Listeners /\ listener'[l] = listener[l] /\ Calling(l)
      BY <1>7, <2>4
    <3>2. /\ listener[l].message \in sent
          /\ \A i \in 1 .. Len(wire) : wire[i] # listener[l].message
          /\ listener[l].entry <= handlers[listener[l].channel]
      BY <3>1 DEF InHand, BusInv
    <3>3. handlers'[listener[l].channel] \in Nat
      BY <1>3, <2>1, <3>1
    <3>4. QED
      BY <1>3, <2>1, <2>2, <3>1, <3>2, <3>3
  <2>5. ASSUME NEW l \in Listeners', ~ Calling(l)'
        PROVE  listener'[l].message = None /\ listener'[l].entry = 0
    BY <1>7, <2>5 DEF InHand, BusInv
  <2>6. QED
    BY <2>3, <2>4, <2>5 DEF InHand
<1>9. CallsSoFar'
  BY <1>2, <1>3, <1>7 DEF CallsSoFar, BusInv
<1>10. OneDelivery'
  BY <1>3 DEF OneDelivery, BusInv, Shape
<1>11. SomeoneListens'
  <2>1. CASE Turn = "wait"
    BY <1>2, <2>1 DEF SomeoneListens
  <2>2. CASE Turn = "dead"
    <3>1. PICK l \in Listeners : listener[l].state = "wait"
      BY <2>2 DEF Turn, Waiting
    <3>2. QED
      BY <3>1, <1>2 DEF SomeoneListens
  <2>3. QED
    BY <2>1, <2>2 DEF Turn
<1>12. QED
  BY <1>4, <1>5, <1>6, <1>8, <1>9, <1>10, <1>11 DEF BusInv

\* What is published was on no wire and in no hand before.
LEMMA PublishInvariant ==
  ASSUME BusInv, NEW m \in Messages, Publish(m), UNCHANGED raises PROVE BusInv'
<1>1. /\ m \notin sent /\ sent' = sent \cup {m} /\ UNCHANGED <<handlers, listener, calls, raises>>
      /\ wire' = wire \/ wire' = Append(wire, m)
  BY DEF Publish
<1>2. \A i \in 1 .. Len(wire) : wire[i] \in sent /\ wire[i] # m
  BY <1>1 DEF BusInv, OnTheWire
<1>3. wire \in Seq(Messages)
  BY DEF BusInv, Shape
<1>4. /\ wire' \in Seq(Messages)
      /\ \A i \in 1 .. Len(wire') :
           (i \in 1 .. Len(wire) /\ wire'[i] = wire[i]) \/ (i = Len(wire) + 1 /\ wire'[i] = m)
  BY <1>1, <1>3
<1>5. Shape' /\ HandlersBound'
  BY <1>1, <1>4 DEF Shape, HandlersBound, BusInv
<1>6. OnTheWire'
  BY <1>1, <1>2, <1>4 DEF OnTheWire, BusInv
<1>7. InHand'
  BY <1>1, <1>2, <1>4 DEF InHand, BusInv, Calling, Listeners
<1>8. CallsSoFar'
  BY <1>1, <1>2, <1>4 DEF CallsSoFar, BusInv, Calling, Listeners
<1>9. OneDelivery' /\ SomeoneListens'
  BY <1>1 DEF OneDelivery, SomeoneListens, BusInv, Listeners
<1>10. QED
  BY <1>5, <1>6, <1>7, <1>8, <1>9 DEF BusInv

\* The listener that reads takes the head of the wire into its hand.
LEMMA ReadInvariant ==
  ASSUME BusInv, NEW r \in Listeners, Read(r), UNCHANGED raises PROVE BusInv'
<1> DEFINE m == Head(wire)
<1>1. /\ wire \in Seq(Messages) /\ wire # <<>> /\ wire' = Tail(wire)
      /\ listener[r].state = "wait"
      /\ listener' = [listener EXCEPT ![r].state = "call", ![r].message = m]
      /\ UNCHANGED <<handlers, sent, calls, raises>>
  BY DEF Read, BusInv, Shape
<1>2. /\ m = wire[1] /\ m \in Messages /\ Len(wire) \in Nat \ {0}
      /\ wire' \in Seq(Messages) /\ Len(wire') = Len(wire) - 1
      /\ \A i \in 1 .. Len(wire') : wire'[i] = wire[i + 1]
  BY <1>1
<1>3. /\ Listeners = 1 .. Len(listener) /\ Listeners' = Listeners
      /\ \A l \in Listeners : l # r => listener'[l] = listener[l]
      /\ listener'[r] = [listener[r] EXCEPT !.state = "call", !.message = m]
      /\ Len(listener') = Len(listener)
  BY <1>1, ListenerShape DEF Listeners, BusInv, Shape
<1>4. /\ listener'[r].state = "call" /\ listener'[r].message = m
      /\ listener'[r].channel = listener[r].channel /\ listener'[r].entry = listener[r].entry
      /\ listener'[r] \in ListenerRecord
  BY <1>2, <1>3, ListenerShape DEF ListenerRecord, BusInv
<1>5. m \in sent /\ \A i \in 1 .. Len(wire') : wire'[i] # m
  BY <1>2 DEF OnTheWire, BusInv
<1>6. ~ Calling(r) /\ Calling(r)' /\ listener[r].entry = 0 /\ listener[r].channel \in Channels
  BY <1>1, <1>4, ListenerShape DEF Calling, InHand, BusInv, ListenerRecord
<1>7. \A l \in Listeners : Calling(l) => listener[l].message # m
  BY <1>2 DEF InHand, BusInv
<1>8. Shape'
  <2>1. listener' \in Seq(ListenerRecord)
    <3>1. listener \in Seq(ListenerRecord) /\ r \in 1 .. Len(listener)
      BY <1>3 DEF BusInv, Shape
    <3>2. listener' = [listener EXCEPT ![r] = listener'[r]]
      BY <1>1, <3>1
    <3>3. [listener EXCEPT ![r] = listener'[r]] \in Seq(ListenerRecord)
      BY <3>1, <1>4, SequenceUpdate
    <3>4. QED
      BY <3>2, <3>3
  <2>2. QED
    BY <2>1, <1>1, <1>2 DEF Shape, BusInv
<1>9. HandlersBound'
  BY <1>1, <1>3 DEF HandlersBound, BusInv
<1>10. OnTheWire'
  BY <1>1, <1>2 DEF OnTheWire, BusInv
<1>11. InHand'
  <2>1. \A i \in 1 .. Len(wire') : i + 1 \in 1 .. Len(wire) /\ wire'[i] = wire[i + 1]
    BY <1>2
  <2>2. handlers[listener[r].channel] \in Nat
    BY <1>6 DEF BusInv, Shape
  <2>3. \A l \in Listeners : l # r => (Calling(l)' <=> Calling(l))
    BY <1>3 DEF Calling
  <2>4. QED
    BY <1>1, <1>3, <1>4, <1>5, <1>6, <1>7, <2>1, <2>2, <2>3 DEF InHand, BusInv
<1>12. CallsSoFar'
  <2>1. \A i \in 1 .. Len(wire') : i + 1 \in 1 .. Len(wire) /\ wire'[i] = wire[i + 1]
    BY <1>2
  <2>2. \A c \in Channels : calls[m][c] = 0
    BY <1>2 DEF CallsSoFar, BusInv
  <2>3. \A l \in Listeners : l # r => (Calling(l)' <=> Calling(l))
    BY <1>3 DEF Calling
  <2>4. QED
    BY <1>1, <1>3, <1>4, <1>6, <2>1, <2>2, <2>3 DEF CallsSoFar, BusInv
<1>13. OneDelivery'
  BY <1>1 DEF OneDelivery, BusInv
<1>14. SomeoneListens'
  BY <1>3, <1>4 DEF SomeoneListens, BusInv
<1>15. QED
  BY <1>8, <1>9, <1>10, <1>11, <1>12, <1>13, <1>14 DEF BusInv

\* The next handler of the listener's channel is called with its message.
LEMMA CallInvariant ==
  ASSUME BusInv, NEW r \in Listeners, CallHandler(r), UNCHANGED raises PROVE BusInv'
<1> DEFINE m == listener[r].message
           c == listener[r].channel
           n == listener[r].entry
<1>1. /\ Calling(r) /\ n < handlers[c]
      /\ calls' = [calls EXCEPT ![m][c] = @ + 1]
      /\ listener' = [listener EXCEPT ![r].entry = @ + 1]
      /\ UNCHANGED <<handlers, wire, sent, raises>>
  BY DEF CallHandler, Calling
<1>2. listener[r] \in ListenerRecord /\ c \in Channels /\ n \in Nat /\ m \in sent /\ m \in Messages
  BY <1>1, ListenerShape DEF InHand, BusInv, ListenerRecord, Shape
<1>3. handlers[c] \in Nat
  BY <1>2 DEF BusInv, Shape
<1>4. /\ Listeners = 1 .. Len(listener) /\ Listeners' = Listeners /\ Len(listener') = Len(listener)
      /\ \A l \in Listeners : l # r => listener'[l] = listener[l]
      /\ listener'[r] = [listener[r] EXCEPT !.entry = n + 1]
  BY <1>1, ListenerShape DEF Listeners, BusInv, Shape
<1>5. /\ listener'[r].state = "call" /\ listener'[r].message = m
      /\ listener'[r].channel = c /\ listener'[r].entry = n + 1
      /\ listener'[r] \in ListenerRecord
  BY <1>1, <1>2, <1>4 DEF ListenerRecord, Calling
<1>6. /\ calls' \in [Messages -> [Channels -> Nat]]
      /\ \A k \in Messages : \A d \in Channels :
           calls'[k][d] = IF k = m /\ d = c THEN calls[m][c] + 1 ELSE calls[k][d]
  BY <1>1, <1>2 DEF BusInv, Shape
<1>7. \A d \in Channels : calls[m][d] = IF d = c THEN n ELSE 0
  BY <1>1, <1>2 DEF CallsSoFar, BusInv
<1>8. \A l \in Listeners : (Calling(l)' <=> Calling(l)) /\ (l # r /\ Calling(l) => listener[l].message # m)
  BY <1>1, <1>4, <1>5 DEF Calling, InHand, BusInv
<1>9. Shape'
  <2>1. listener' \in Seq(ListenerRecord)
    BY <1>1, <1>2, <1>4, <1>5, ListenerShape DEF BusInv, Shape, ListenerRecord
  <2>2. QED
    BY <2>1, <1>1, <1>6 DEF Shape, BusInv
<1>10. HandlersBound' /\ OnTheWire'
  BY <1>1, <1>4 DEF HandlersBound, OnTheWire, BusInv
<1>11. InHand'
  <2>1. \A l \in Listeners : l # r => listener'[l] = listener[l]
    BY <1>4
  <2>2. n + 1 <= handlers[c]
    BY <1>1, <1>2, <1>3
  <2>3. \A i \in 1 .. Len(wire) : wire[i] # m
    BY <1>1 DEF InHand, BusInv
  <2>4. QED
    BY <1>1, <1>2, <1>4, <1>5, <1>8, <2>1, <2>2, <2>3 DEF InHand, BusInv
<1>12. CallsSoFar'
  <2>1. \A i \in 1 .. Len(wire) : wire[i] # m
    BY <1>1 DEF InHand, BusInv
  <2>2. \A k \in Messages : \A d \in Channels :
          (k \notin sent' \/ \E i \in 1 .. Len(wire') : wire'[i] = k) => calls'[k][d] = 0
    BY <1>1, <1>2, <1>6, <2>1 DEF CallsSoFar, BusInv
  <2>3. ASSUME NEW l \in Listeners', NEW d \in Channels, Calling(l)'
        PROVE  calls'[listener'[l].message][d] =
                 IF d = listener'[l].channel THEN listener'[l].entry ELSE 0
    <3>1. CASE l = r
      BY <3>1, <1>2, <1>5, <1>6, <1>7
    <3>2. CASE l # r
      <4>1. l \in Listeners /\ listener'[l] = listener[l] /\ Calling(l) /\ listener[l].message # m
        BY <3>2, <1>4, <1>8, <2>3
      <4>2. listener[l].message \in Messages
        BY <4>1 DEF InHand, BusInv, Shape
      <4>3. QED
        BY <4>1, <4>2, <1>6 DEF CallsSoFar, BusInv
    <3>3. QED
      BY <3>1, <3>2
  <2>4. QED
    BY <2>2, <2>3 DEF CallsSoFar
<1>13. OneDelivery'
  <2>1. ASSUME NEW k \in Messages, NEW d \in Channels
        PROVE  /\ calls'[k][d] <= handlers'[d]
               /\ \A e \in Channels : calls'[k][d] > 0 /\ calls'[k][e] > 0 => d = e
    <3>1. CASE k = m
      <4>1. /\ \A e \in Channels : calls'[k][e] = IF e = c THEN n + 1 ELSE 0
            /\ handlers' = handlers
        BY <3>1, <1>1, <1>2, <1>6, <1>7
      <4>2. handlers[d] \in Nat
        BY DEF BusInv, Shape
      <4>3. CASE d = c
        <5>1. calls'[k][d] = n + 1 /\ n + 1 <= handlers[d]
          BY <4>1, <4>3, <1>1, <1>2, <1>3
        <5>2. \A e \in Channels : calls'[k][e] > 0 => d = e
          BY <4>1, <4>3
        <5>3. QED
          BY <4>1, <5>1, <5>2
      <4>4. CASE d # c
        <5>1. calls'[k][d] = 0
          BY <4>1, <4>4
        <5>2. QED
          BY <4>1, <4>2, <5>1
      <4>5. QED
        BY <4>3, <4>4
    <3>2. CASE k # m
      BY <3>2, <1>1, <1>6 DEF OneDelivery, BusInv
    <3>3. QED
      BY <3>1, <3>2
  <2>2. QED
    BY <2>1 DEF OneDelivery
<1>14. SomeoneListens'
  BY <1>4, <1>5 DEF SomeoneListens, BusInv
<1>15. QED
  BY <1>9, <1>10, <1>11, <1>12, <1>13, <1>14 DEF BusInv

\* The listener goes back to the connection with empty hands.
LEMMA ResumeInvariant ==
  ASSUME BusInv, NEW r \in Listeners, Resume(r), UNCHANGED raises PROVE BusInv'
<1>1. /\ Calling(r)
      /\ listener' = [listener EXCEPT ![r].state = Turn, ![r].message = None, ![r].entry = 0]
      /\ UNCHANGED <<handlers, wire, sent, calls, raises>>
  BY DEF Resume, Calling
<1>2. Turn \in {"wait", "dead"} /\ (Turn = "dead" => \E l \in Listeners : listener[l].state = "wait")
  BY DEF Turn, Waiting
<1>3. /\ Listeners = 1 .. Len(listener) /\ Listeners' = Listeners /\ Len(listener') = Len(listener)
      /\ \A l \in Listeners : l # r => listener'[l] = listener[l]
      /\ listener'[r] = [listener[r] EXCEPT !.state = Turn, !.message = None, !.entry = 0]
  BY <1>1, ListenerShape DEF Listeners, BusInv, Shape
<1>4. /\ listener'[r].state = Turn /\ listener'[r].message = None /\ listener'[r].entry = 0
      /\ listener'[r] \in ListenerRecord /\ ~ Calling(r)'
  <2>1. listener[r] \in ListenerRecord
    BY ListenerShape DEF BusInv
  <2>2. /\ listener'[r].state = Turn /\ listener'[r].message = None /\ listener'[r].entry = 0
        /\ listener'[r] \in ListenerRecord
    <3> DEFINE old == listener[r]
    <3>1. listener'[r] = [channel |-> old.channel, state |-> Turn, message |-> None, entry |-> 0]
      BY <1>3, <2>1 DEF ListenerRecord
    <3>2. old.channel \in Channels
      BY <2>1 DEF ListenerRecord
    <3>3. QED
      BY <1>2, <3>1, <3>2 DEF ListenerRecord
  <2>3. QED
    BY <1>2, <2>2 DEF Calling
<1>5. \A l \in Listeners : l # r => (Calling(l)' <=> Calling(l))
  BY <1>3 DEF Calling
<1>6. Shape'
  <2>1. listener' \in Seq(ListenerRecord)
    <3>1. listener \in Seq(ListenerRecord) /\ r \in 1 .. Len(listener)
      BY <1>3 DEF BusInv, Shape
    <3>2. listener' = [listener EXCEPT ![r] = listener'[r]]
      BY <1>1, <3>1
    <3>3. [listener EXCEPT ![r] = listener'[r]] \in Seq(ListenerRecord)
      BY <3>1, <1>4, SequenceUpdate
    <3>4. QED
      BY <3>2, <3>3
  <2>2. QED
    BY <2>1, <1>1 DEF Shape, BusInv
<1>7. HandlersBound' /\ OnTheWire' /\ OneDelivery'
  BY <1>1, <1>3 DEF HandlersBound, OnTheWire, OneDelivery, BusInv
<1>8. InHand'
  BY <1>1, <1>3, <1>4, <1>5 DEF InHand, BusInv
<1>9. CallsSoFar'
  BY <1>1, <1>3, <1>4, <1>5 DEF CallsSoFar, BusInv
<1>10. SomeoneListens'
  <2>1. CASE Turn = "wait"
    BY <2>1, <1>3, <1>4 DEF SomeoneListens
  <2>2. CASE Turn = "dead"
    <3>1. PICK l \in Listeners : listener[l].state = "wait"
      BY <1>2, <2>2
    <3>2. l # r /\ listener'[l] = listener[l]
      BY <3>1, <1>1, <1>3 DEF Calling
    <3>3. QED
      BY <3>1, <3>2, <1>3 DEF SomeoneListens
  <2>3. QED
    BY <1>2, <2>1, <2>2
<1>11. QED
  BY <1>6, <1>7, <1>8, <1>9, <1>10 DEF BusInv

-----------------------------------------------------------------------------
\* Every step keeps the invariant.
LEMMA BusStep == BusInv /\ [Next]_vars => BusInv'
<1> SUFFICES ASSUME BusInv, [Next]_vars PROVE BusInv'
  OBVIOUS
<1>1. CASE UNCHANGED vars
  BY <1>1 DEF vars, BusInv, Shape, HandlersBound, OnTheWire, InHand, CallsSoFar, OneDelivery,
              SomeoneListens, Listeners, Calling
<1>2. CASE Next
  BY <1>2, SubscribeInvariant, PublishInvariant, ReadInvariant, CallInvariant, ResumeInvariant
  DEF Next, Deliver
<1>3. QED
  BY <1>1, <1>2

\* The invariant holds in every reachable state.
THEOREM BusInvariance == Spec => []BusInv
BY BusInitial, BusStep, PTL DEF Spec

\* The bounds of the types come from the number of listeners.
LEMMA BusTypes == BusInv => TypeOK
<1> SUFFICES ASSUME BusInv PROVE TypeOK
  OBVIOUS
<1>1. \A c \in Channels : handlers[c] \in 0 .. MaxSubscribes
  <2>1. Len(listener) \in Nat /\ Len(listener) <= MaxSubscribes /\ MaxSubscribes \in Nat
    BY ListenerShape, ConstantsAssumption DEF BusInv, HandlersBound
  <2>2. \A c \in Channels : handlers[c] \in Nat /\ handlers[c] <= Len(listener)
    BY DEF BusInv, HandlersBound, Shape
  <2>3. QED
    BY <2>1, <2>2
<1>2. \A m \in Messages : \A c \in Channels : calls[m][c] \in 0 .. MaxSubscribes
  <2> TAKE m \in Messages
  <2> TAKE c \in Channels
  <2>1. calls[m][c] \in Nat /\ calls[m][c] <= handlers[c]
    BY DEF BusInv, Shape, OneDelivery
  <2>2. QED
    BY <2>1, <1>1, ConstantsAssumption
<1>3. \A l \in 1 .. Len(listener) :
        listener[l] \in [channel : Channels, state : {"wait", "call", "dead"},
                         message : Messages \cup {None}, entry : 0 .. MaxSubscribes]
  <2> TAKE l \in 1 .. Len(listener)
  <2>1. listener[l] \in ListenerRecord /\ l \in Listeners
    BY ListenerShape DEF BusInv
  <2>2. listener[l].entry \in 0 .. MaxSubscribes
    <3>1. listener[l].entry \in Nat /\ listener[l].channel \in Channels
      BY <2>1 DEF ListenerRecord
    <3>2. CASE Calling(l)
      <4>1. listener[l].entry <= handlers[listener[l].channel]
        BY <2>1, <3>2 DEF BusInv, InHand
      <4>2. QED
        BY <4>1, <3>1, <1>1, ConstantsAssumption
    <3>3. CASE ~ Calling(l)
      BY <2>1, <3>3, ConstantsAssumption DEF BusInv, InHand
    <3>4. QED
      BY <3>2, <3>3
  <2>3. QED
    BY <2>1, <2>2 DEF ListenerRecord
<1>4. listener \in Seq([channel : Channels, state : {"wait", "call", "dead"},
                        message : Messages \cup {None}, entry : 0 .. MaxSubscribes])
  <2>1. listener \in Seq(ListenerRecord)
    BY DEF BusInv, Shape
  <2>2. QED
    BY <1>3, <2>1, SequenceType
<1>5. QED
  BY <1>1, <1>2, <1>4 DEF TypeOK, BusInv, Shape

\* The type invariant of the connection.
THEOREM BusTypeCorrect == Spec => []TypeOK
BY BusTypes, BusInvariance, PTL

\* No handler is called twice with a message, and no handlers of two channels are,
\* however many listeners read the connection (_pubsub_listener).
THEOREM DeliveryIsSingle == Spec => []OneDelivery
<1>1. BusInv => OneDelivery
  BY DEF BusInv
<1>2. QED
  BY <1>1, BusInvariance, PTL

\* Whatever collides, the connection keeps a listener that reads or will read again.
THEOREM ConnectionIsServed == Spec => []SomeoneListens
<1>1. BusInv => SomeoneListens
  BY DEF BusInv
<1>2. QED
  BY <1>1, BusInvariance, PTL

-----------------------------------------------------------------------------
(***************************************************************************)
(* The stores of StateStore: what is in the buffer came after what is in   *)
(* the file, batches go to the file before the table, and Redis gets what  *)
(* PostgreSQL refused.                                                     *)
(***************************************************************************)

Rising(s) == \A i, j \in DOMAIN s : i < j => s[i] < s[j]
Below(s, n) == \A i \in DOMAIN s : s[i] <= n

FlowTyped ==
  /\ appended \in Nat /\ pending \in Seq(Nat) /\ eventLog \in Seq(Nat)

\* What is in the buffer came after what is in the file.
InOrder ==
  /\ Rising(eventLog) /\ Rising(pending)
  /\ Below(eventLog, appended) /\ Below(pending, appended)
  /\ \A i \in DOMAIN eventLog, j \in DOMAIN pending : eventLog[i] < pending[j]

\* A batch went to the file before it leaves for the table, and is in it if the
\* table can take it and the file does not fail.
LogIsAhead ==
  /\ eventTable \subseteq ToSet(eventLog) \cup unwritten
  /\ \A f \in inserting : f.batch \subseteq ToSet(eventLog) \cup unwritten
  /\ storage.file /\ ~ Fails("file") =>
       /\ eventTable \subseteq ToSet(eventLog)
       /\ \A f \in inserting : f.batch \cap objects = {} => f.batch \subseteq ToSet(eventLog)

\* A position that is on its way to Redis was refused by PostgreSQL.
FallbackRefused ==
  /\ saved \in [{"position", "portfolio"} -> [postgres : Nat, redis : Nat]]
  /\ saving # Nothing =>
       saving.what \in {"position", "portfolio"} /\ saving.at \in {"postgres", "redis"}
       /\ saving.value \in Nat
  /\ storage.table /\ saving.what = "position" /\ saving.at = "redis" =>
       saving.value \in refused

EventsInv == FlowTyped /\ InOrder /\ EventsAccounted /\ LogIsAhead
SavesInv == FallbackRefused /\ FallbackOnly
-----------------------------------------------------------------------------
\* Of a set of numbers up to a bound, Max is one that no other exceeds.
LEMMA MaxIsReached ==
  ASSUME NEW n \in Nat, NEW S, S \subseteq 0 .. n, S # {}
  PROVE  Max(S) \in S /\ \A k \in S : k <= Max(S)
<1> DEFINE Gap == {n - k : k \in S}
<1>1. \A k \in S : k \in Nat /\ k <= n /\ n - k \in Nat
  OBVIOUS
<1>2. Gap \subseteq Nat /\ Gap # {}
  BY <1>1
<1>3. PICK g \in Gap : \A h \in Gap : ~ (<<h, g>> \in OpToRel(<, Nat))
  BY <1>2, WFMin, NatLessThanWellFounded
<1>4. \A h \in Gap : g <= h
  <2> HIDE DEF Gap
  <2>1. TAKE h \in Gap
  <2>2. h \in Nat /\ g \in Nat
    BY <1>2
  <2>3. <<h, g>> \notin {ss \in Nat \X Nat : ss[1] < ss[2]}
    BY <1>3 DEF OpToRel
  <2>4. ~ (h < g)
    BY <2>2, <2>3
  <2>5. QED
    BY <2>2, <2>4
<1>5. PICK m \in S : g = n - m
  OBVIOUS
<1>6. \A k \in S : m >= k
  BY <1>1, <1>4, <1>5
<1>7. QED
  BY <1>1, <1>5, <1>6 DEF Max

LEMMA ElementsOf ==
  ASSUME NEW S, NEW s \in Seq(S) PROVE ToSet(s) = {s[i] : i \in 1 .. Len(s)}
<1>1. DOMAIN s = 1 .. Len(s)
  OBVIOUS
<1>2. QED
  BY <1>1, Zenon DEF ToSet

\* The file gets a prefix of the buffer, all of it if all has a JSON form and the
\* file does not fail.
LEMMA WrittenIsPrefix ==
  ASSUME NEW batch \in Seq(Nat), WriteToLog(batch)
  PROVE  \E n \in 0 .. Len(batch) :
           /\ eventLog' = eventLog \o SubSeq(batch, 1, n)
           /\ unwritten' = unwritten \cup {batch[i] : i \in n + 1 .. Len(batch)}
           /\ storage.file /\ ~ Fails("file") /\ ToSet(batch) \cap objects = {} => n = Len(batch)
<1> DEFINE Readable == {n \in 0 .. Len(batch) : \A i \in 1 .. n : batch[i] \notin objects}
<1>1. Len(batch) \in Nat /\ 0 \in Readable /\ Readable \subseteq 0 .. Len(batch)
  OBVIOUS
<1>2. Max(Readable) \in Readable /\ \A k \in Readable : k <= Max(Readable)
  <2> HIDE DEF Readable
  <2>1. QED
    BY <1>1, MaxIsReached
<1>3. PICK n \in (IF ~ storage.file THEN {0} ELSE IF Fails("file") THEN Readable ELSE {Max(Readable)}) :
        /\ eventLog' = eventLog \o SubSeq(batch, 1, n)
        /\ unwritten' = unwritten \cup {batch[i] : i \in n + 1 .. Len(batch)}
  BY DEF WriteToLog
<1>4. ToSet(batch) \cap objects = {} => Len(batch) \in Readable
  BY <1>1 DEF ToSet
<1> HIDE DEF Readable
<1>5. n \in Readable /\ (storage.file /\ ~ Fails("file") => n = Max(Readable))
  BY <1>1, <1>2, <1>3
<1>6. ToSet(batch) \cap objects = {} => Max(Readable) = Len(batch)
  <2>1. Max(Readable) \in 0 .. Len(batch)
    BY <1>1, <1>2
  <2>2. Len(batch) \in Readable => Len(batch) <= Max(Readable)
    BY <1>2
  <2>3. QED
    BY <1>1, <1>4, <2>1, <2>2
<1>7. n \in 0 .. Len(batch)
        /\ (storage.file /\ ~ Fails("file") /\ ToSet(batch) \cap objects = {} => n = Len(batch))
  BY <1>1, <1>5, <1>6
<1>8. QED
  BY <1>3, <1>7

\* A flush moves events from the buffer to the end of the file, or to those that it
\* lacks.
LEMMA Flushed ==
  ASSUME EventsInv, WriteToLog(pending), pending' = <<>>,
         UNCHANGED <<storage, appended, objects, dropped>>
  PROVE  /\ FlowTyped' /\ InOrder' /\ EventsAccounted'
         /\ ToSet(eventLog) \subseteq ToSet(eventLog') /\ unwritten \subseteq unwritten'
         /\ ToSet(pending) \subseteq ToSet(eventLog') \cup unwritten'
         /\ storage.file /\ ~ Fails("file") /\ ToSet(pending) \cap objects = {} =>
              ToSet(pending) \subseteq ToSet(eventLog')
<1>t. appended \in Nat /\ pending \in Seq(Nat) /\ eventLog \in Seq(Nat)
  BY DEF EventsInv, FlowTyped
<1>1. PICK n \in 0 .. Len(pending) :
        /\ eventLog' = eventLog \o SubSeq(pending, 1, n)
        /\ unwritten' = unwritten \cup {pending[i] : i \in n + 1 .. Len(pending)}
        /\ storage.file /\ ~ Fails("file") /\ ToSet(pending) \cap objects = {} => n = Len(pending)
  BY <1>t, WrittenIsPrefix
<1> DEFINE w == SubSeq(pending, 1, n)
<1>2. w \in Seq(Nat) /\ Len(w) = n /\ \A i \in 1 .. n : w[i] = pending[i]
  <2>1. \A i \in 1 .. n : pending[i] \in Nat
    BY <1>t
  <2>2. QED
    BY <1>t, <1>1, <2>1, SubSeqProperties
<1>3. /\ eventLog' \in Seq(Nat) /\ Len(eventLog') = Len(eventLog) + n
      /\ \A i \in 1 .. Len(eventLog) + n :
           eventLog'[i] = IF i <= Len(eventLog) THEN eventLog[i] ELSE pending[i - Len(eventLog)]
  <2> HIDE DEF w
  <2>1. eventLog' = eventLog \o w
    BY <1>1 DEF w
  <2>2. /\ eventLog' \in Seq(Nat) /\ Len(eventLog') = Len(eventLog) + Len(w)
        /\ \A i \in 1 .. Len(eventLog) + Len(w) :
             eventLog'[i] = IF i <= Len(eventLog) THEN eventLog[i] ELSE w[i - Len(eventLog)]
    BY <1>t, <1>2, <2>1, ConcatProperties
  <2>3. Len(eventLog) \in Nat /\ n \in Nat /\ Len(w) = n
    BY <1>t, <1>1, <1>2
  <2>4. \A i \in 1 .. Len(eventLog) + n : ~ i <= Len(eventLog) => i - Len(eventLog) \in 1 .. n
    BY <2>3
  <2>5. QED
    BY <1>2, <2>2, <2>3, <2>4
<1>4. FlowTyped'
  BY <1>t, <1>3 DEF FlowTyped
<1>5. InOrder'
  <2>1. DOMAIN eventLog' = 1 .. Len(eventLog) + n /\ DOMAIN eventLog = 1 .. Len(eventLog)
        /\ DOMAIN pending = 1 .. Len(pending) /\ DOMAIN pending' = {}
    BY <1>t, <1>3
  <2>2. \A i \in 1 .. Len(eventLog) + n :
          \/ i \in DOMAIN eventLog /\ eventLog'[i] = eventLog[i]
          \/ ~ i <= Len(eventLog) /\ i - Len(eventLog) \in DOMAIN pending
             /\ eventLog'[i] = pending[i - Len(eventLog)]
    BY <1>t, <1>3, <2>1
  <2>3. Below(eventLog', appended)
    <3>1. /\ \A i \in DOMAIN eventLog : eventLog[i] <= appended
          /\ \A i \in DOMAIN pending : pending[i] <= appended
      BY DEF EventsInv, InOrder, Below
    <3>2. QED
      BY <2>1, <2>2, <3>1 DEF Below
  <2>4. Rising(eventLog')
    <3>1. SUFFICES ASSUME NEW i \in 1 .. Len(eventLog) + n, NEW j \in 1 .. Len(eventLog) + n, i < j
                   PROVE  eventLog'[i] < eventLog'[j]
      BY <2>1 DEF Rising
    <3>2. CASE i \in DOMAIN eventLog /\ j \in DOMAIN eventLog
      BY <2>2, <3>1, <3>2 DEF EventsInv, InOrder, Rising
    <3>3. CASE i \in DOMAIN eventLog /\ ~ j <= Len(eventLog)
      BY <2>1, <2>2, <3>1, <3>3 DEF EventsInv, InOrder
    <3>4. CASE ~ i <= Len(eventLog)
      <4>1. /\ ~ i <= Len(eventLog) /\ ~ j <= Len(eventLog)
            /\ i - Len(eventLog) < j - Len(eventLog)
        BY <1>t, <3>1, <3>4
      <4>2. /\ i - Len(eventLog) \in DOMAIN pending /\ j - Len(eventLog) \in DOMAIN pending
            /\ eventLog'[i] = pending[i - Len(eventLog)]
            /\ eventLog'[j] = pending[j - Len(eventLog)]
        BY <1>t, <2>1, <2>2, <4>1
      <4>3. \A k, l \in DOMAIN pending : k < l => pending[k] < pending[l]
        BY DEF EventsInv, InOrder, Rising
      <4>4. QED
        BY <4>1, <4>2, <4>3
    <3>5. QED
      BY <1>t, <2>1, <3>2, <3>3, <3>4
  <2>5. QED
    BY <2>1, <2>3, <2>4 DEF InOrder, Rising, Below
<1> DEFINE missing == {pending[i] : i \in n + 1 .. Len(pending)}
<1>6. /\ ToSet(eventLog) \subseteq ToSet(eventLog')
      /\ ToSet(eventLog') \cup missing = ToSet(eventLog) \cup ToSet(pending)
      /\ n = Len(pending) => missing = {}
  <2>1. ToSet(eventLog') = {eventLog'[i] : i \in 1 .. Len(eventLog) + n}
    <3>1. DOMAIN eventLog' = 1 .. Len(eventLog) + n
      BY <1>3
    <3>2. QED
      BY <3>1, Zenon DEF ToSet
  <2>2. ToSet(eventLog) = {eventLog[i] : i \in 1 .. Len(eventLog)}
    BY <1>t, ElementsOf
  <2>3. ToSet(pending) = {pending[i] : i \in 1 .. Len(pending)}
    BY <1>t, ElementsOf
  <2>4. \A i \in 1 .. Len(eventLog) : i \in 1 .. Len(eventLog) + n /\ eventLog'[i] = eventLog[i]
    BY <1>t, <1>3
  <2>5. \A j \in 1 .. n : Len(eventLog) + j \in 1 .. Len(eventLog) + n
                          /\ eventLog'[Len(eventLog) + j] = pending[j]
    <3>1. TAKE j \in 1 .. n
    <3>2. /\ Len(eventLog) \in Nat /\ Len(eventLog) + j \in 1 .. Len(eventLog) + n
          /\ ~ Len(eventLog) + j <= Len(eventLog) /\ (Len(eventLog) + j) - Len(eventLog) = j
      BY <1>t
    <3>3. QED
      BY <1>3, <3>2
  <2>6. \A i \in 1 .. Len(eventLog) + n : i \in 1 .. Len(eventLog) \/ i - Len(eventLog) \in 1 .. n
    BY <1>t
  <2>n. n \in Nat /\ Len(pending) \in Nat /\ n <= Len(pending)
    BY <1>t
  <2>7. ToSet(eventLog) \subseteq ToSet(eventLog')
    BY <2>1, <2>2, <2>4
  <2>8. ToSet(pending) \subseteq ToSet(eventLog') \cup missing
    <3>1. SUFFICES ASSUME NEW j \in 1 .. Len(pending)
                   PROVE  pending[j] \in ToSet(eventLog') \cup missing
      BY <2>3
    <3>2. j \in 1 .. n \/ j \in n + 1 .. Len(pending)
      BY <2>n
    <3>3. QED
      BY <2>1, <2>5, <3>2
  <2>9. ToSet(eventLog') \subseteq ToSet(eventLog) \cup ToSet(pending)
    <3>1. SUFFICES ASSUME NEW i \in 1 .. Len(eventLog) + n
                   PROVE  eventLog'[i] \in ToSet(eventLog) \cup ToSet(pending)
      BY <2>1
    <3>2. CASE i \in 1 .. Len(eventLog)
      BY <2>2, <2>4, <3>2
    <3>3. CASE i - Len(eventLog) \in 1 .. n
      <4>1. Len(eventLog) + (i - Len(eventLog)) = i /\ i - Len(eventLog) \in 1 .. Len(pending)
        BY <1>t, <2>n, <3>3
      <4>2. eventLog'[i] = pending[i - Len(eventLog)]
        BY <2>5, <3>3, <4>1
      <4>3. QED
        BY <2>3, <4>1, <4>2
    <3>4. QED
      BY <2>6, <3>2, <3>3
  <2>10. missing \subseteq ToSet(pending)
    <3>1. n + 1 .. Len(pending) \subseteq 1 .. Len(pending)
      BY <2>n
    <3>2. QED
      BY <2>3, <3>1
  <2>11. n = Len(pending) => missing = {}
    BY <2>n
  <2> HIDE DEF missing
  <2>12. QED
    BY <2>7, <2>8, <2>9, <2>10, <2>11
<1>m. unwritten' = unwritten \cup missing
  BY <1>1
<1> HIDE DEF missing
<1>7. EventsAccounted'
  <2>1. ToSet(<<>>) = {}
    BY DEF ToSet
  <2>2. 1 .. appended' = ToSet(pending') \cup ToSet(eventLog') \cup dropped' \cup unwritten'
    BY <1>6, <1>m, <2>1 DEF EventsInv, EventsAccounted
  <2>3. storage.file /\ ~ Fails("file") /\ objects = {} => unwritten' = {}
    BY <1>1, <1>6, <1>m DEF EventsInv, EventsAccounted
  <2>4. Fails("file")' = Fails("file")
    BY DEF Fails
  <2>5. QED
    BY <2>2, <2>3, <2>4 DEF EventsAccounted
<1>8. QED
  BY <1>1, <1>4, <1>5, <1>6, <1>7, <1>m

\* An appended event is the last of the buffer, which may have dropped its first.
LEMMA Buffered ==
  ASSUME EventsInv, StoreAssumption, Buffer, UNCHANGED storage, objects \subseteq objects'
  PROVE  EventsInv'
<1>t. appended \in Nat /\ pending \in Seq(Nat) /\ eventLog \in Seq(Nat)
  BY DEF EventsInv, FlowTyped
<1>1. /\ appended' = appended + 1 /\ UNCHANGED <<inserting, eventLog, eventTable, unwritten>>
      /\ Fails("file")' = Fails("file")
  BY DEF Buffer, Fails
<1> DEFINE rest == IF Len(pending) = MaxBuffer THEN Tail(pending) ELSE pending
<1>2. pending' = Append(rest, appended + 1)
  BY <1>1 DEF Buffer
<1>3. /\ rest \in Seq(Nat) /\ Rising(rest) /\ Below(rest, appended)
      /\ \A i \in DOMAIN eventLog, j \in DOMAIN rest : eventLog[i] < rest[j]
      /\ ToSet(pending) \cup dropped \subseteq ToSet(rest) \cup dropped'
      /\ ToSet(rest) \cup dropped' \subseteq ToSet(pending) \cup dropped
  <2>1. CASE Len(pending) = MaxBuffer
    <3>1. /\ Len(pending) \in Nat \ {0} /\ pending # <<>> /\ rest = Tail(pending)
          /\ dropped' = dropped \cup {pending[1]}
      BY <1>t, <2>1 DEF Buffer, StoreAssumption
    <3>2. /\ rest \in Seq(Nat) /\ Len(rest) = Len(pending) - 1
          /\ \A i \in 1 .. Len(rest) : rest[i] = pending[i + 1]
      BY <1>t, <3>1, HeadTailProperties
    <3>3. /\ DOMAIN rest = 1 .. Len(pending) - 1 /\ DOMAIN pending = 1 .. Len(pending)
          /\ \A i \in 1 .. Len(pending) - 1 : i + 1 \in 1 .. Len(pending) /\ rest[i] = pending[i + 1]
          /\ \A i \in 1 .. Len(pending) : i # 1 => i - 1 \in 1 .. Len(pending) - 1 /\ rest[i - 1] = pending[i]
      <4> HIDE DEF rest
      <4>1. DOMAIN rest = 1 .. Len(pending) - 1 /\ DOMAIN pending = 1 .. Len(pending)
        BY <1>t, <3>1, <3>2
      <4>2. \A i \in 1 .. Len(pending) - 1 : i + 1 \in 1 .. Len(pending) /\ rest[i] = pending[i + 1]
        BY <3>1, <3>2
      <4>3. ASSUME NEW i \in 1 .. Len(pending), i # 1
            PROVE  i - 1 \in 1 .. Len(pending) - 1 /\ rest[i - 1] = pending[i]
        <5>1. i - 1 \in 1 .. Len(pending) - 1 /\ (i - 1) + 1 = i
          BY <3>1, <4>3
        <5>2. QED
          BY <4>2, <5>1
      <4>4. QED
        BY <4>1, <4>2, <4>3
    <3>4. Rising(rest) /\ Below(rest, appended)
      <4> HIDE DEF rest
      <4>1. Below(rest, appended)
        BY <3>3 DEF EventsInv, InOrder, Below
      <4>2. \A i, j \in 1 .. Len(pending) - 1 : i < j => i + 1 < j + 1
        BY <3>1
      <4>3. \A i, j \in 1 .. Len(pending) : i < j => pending[i] < pending[j]
        BY <3>3 DEF EventsInv, InOrder, Rising
      <4>4. ASSUME NEW i \in DOMAIN rest, NEW j \in DOMAIN rest, i < j
            PROVE  rest[i] < rest[j]
        <5>1. /\ i + 1 \in 1 .. Len(pending) /\ j + 1 \in 1 .. Len(pending) /\ i + 1 < j + 1
              /\ rest[i] = pending[i + 1] /\ rest[j] = pending[j + 1]
          BY <3>3, <4>2, <4>4
        <5>2. QED
          BY <4>3, <5>1
      <4>5. Rising(rest)
        BY <4>4 DEF Rising
      <4>6. QED
        BY <4>1, <4>5
    <3>5. \A i \in DOMAIN eventLog, j \in DOMAIN rest : eventLog[i] < rest[j]
      <4> HIDE DEF rest
      <4>1. QED
        BY <1>t, <3>3 DEF EventsInv, InOrder
    <3>6. ToSet(pending) = ToSet(rest) \cup {pending[1]}
      <4> HIDE DEF rest
      <4>1. 1 \in 1 .. Len(pending)
        BY <3>1
      <4>2. \A x \in ToSet(pending) : x \in ToSet(rest) \cup {pending[1]}
        BY <3>3 DEF ToSet
      <4>3. \A x \in ToSet(rest) : x \in ToSet(pending)
        BY <3>3 DEF ToSet
      <4>4. pending[1] \in ToSet(pending)
        BY <3>3, <4>1 DEF ToSet
      <4>5. QED
        BY <4>2, <4>3, <4>4
    <3>7. QED
      BY <3>1, <3>2, <3>4, <3>5, <3>6
  <2>2. CASE Len(pending) # MaxBuffer
    BY <1>t, <2>2 DEF EventsInv, InOrder, Buffer
  <2>3. QED
    BY <2>1, <2>2
<1>4. /\ pending' \in Seq(Nat) /\ DOMAIN pending' = 1 .. Len(rest) + 1
      /\ DOMAIN rest = 1 .. Len(rest) /\ Len(rest) \in Nat
      /\ \A i \in 1 .. Len(rest) : pending'[i] = rest[i]
      /\ pending'[Len(rest) + 1] = appended + 1
      /\ ToSet(pending') = ToSet(rest) \cup {appended + 1}
  <2> HIDE DEF rest
  <2>1. /\ pending' \in Seq(Nat) /\ Len(pending') = Len(rest) + 1 /\ Len(rest) \in Nat
        /\ \A i \in 1 .. Len(rest) : pending'[i] = rest[i]
        /\ pending'[Len(rest) + 1] = appended + 1
    BY <1>t, <1>2, <1>3, AppendProperties
  <2>2. DOMAIN pending' = 1 .. Len(rest) + 1 /\ DOMAIN rest = 1 .. Len(rest)
    BY <1>3, <2>1
  <2>3. ToSet(pending') = ToSet(rest) \cup {appended + 1}
    BY <2>1, <2>2 DEF ToSet
  <2>4. QED
    BY <2>1, <2>2, <2>3
<1>5. FlowTyped'
  BY <1>t, <1>1, <1>4 DEF FlowTyped
<1>6. InOrder'
  <2> HIDE DEF rest
  <2>1. \A i \in 1 .. Len(rest) : rest[i] <= appended /\ rest[i] \in Nat
    BY <1>3, <1>4 DEF Below
  <2>2. Rising(pending') /\ Below(pending', appended')
    <3>1. \A i \in DOMAIN pending' : i \in 1 .. Len(rest) \/ i = Len(rest) + 1
      BY <1>4
    <3>2. Below(pending', appended')
      <4>1. ASSUME NEW i \in DOMAIN pending'
            PROVE  pending'[i] <= appended'
        <5>1. CASE i \in 1 .. Len(rest)
          <6>1. pending'[i] = rest[i] /\ rest[i] <= appended /\ rest[i] \in Nat
            BY <1>4, <2>1, <5>1
          <6>2. QED
            BY <1>t, <1>1, <6>1
        <5>2. CASE i = Len(rest) + 1
          BY <1>t, <1>1, <1>4, <5>2
        <5>3. QED
          BY <3>1, <4>1, <5>1, <5>2
      <4>2. QED
        BY <4>1 DEF Below
    <3>3. ASSUME NEW i \in DOMAIN pending', NEW j \in DOMAIN pending', i < j
          PROVE  pending'[i] < pending'[j]
      <4>1. i \in 1 .. Len(rest)
        BY <1>4, <3>3
      <4>2. CASE j \in 1 .. Len(rest)
        BY <1>3, <1>4, <3>3, <4>1, <4>2 DEF Rising
      <4>3. CASE j = Len(rest) + 1
        <5>1. pending'[j] = appended + 1 /\ pending'[i] = rest[i]
          BY <1>4, <4>1, <4>3
        <5>2. QED
          BY <1>t, <2>1, <4>1, <5>1
      <4>4. QED
        BY <3>1, <4>2, <4>3
    <3>4. QED
      BY <3>2, <3>3 DEF Rising
  <2>3. \A i \in DOMAIN eventLog : eventLog[i] \in Nat /\ eventLog[i] <= appended
    BY <1>t DEF EventsInv, InOrder, Below
  <2>4. Rising(eventLog') /\ Below(eventLog', appended')
    BY <1>t, <1>1, <2>3 DEF EventsInv, InOrder, Rising, Below
  <2>5. \A i \in DOMAIN eventLog', j \in DOMAIN pending' : eventLog'[i] < pending'[j]
    <3>1. SUFFICES ASSUME NEW i \in DOMAIN eventLog, NEW j \in DOMAIN pending'
                   PROVE  eventLog[i] < pending'[j]
      BY <1>1
    <3>2. CASE j \in 1 .. Len(rest)
      BY <1>3, <1>4, <3>2
    <3>3. CASE j = Len(rest) + 1
      <4>1. pending'[j] = appended + 1 /\ eventLog[i] \in Nat /\ eventLog[i] <= appended
        BY <1>4, <2>3, <3>3
      <4>2. QED
        BY <1>t, <4>1
    <3>4. QED
      BY <1>4, <3>2, <3>3
  <2>6. QED
    BY <2>2, <2>4, <2>5 DEF InOrder
<1>7. EventsAccounted'
  <2> HIDE DEF rest
  <2>1. 1 .. appended' = (1 .. appended) \cup {appended + 1}
    BY <1>t, <1>1
  <2>2. objects' = {} => objects = {}
    OBVIOUS
  <2>3. QED
    BY <1>1, <1>3, <1>4, <2>1, <2>2 DEF EventsInv, EventsAccounted
<1>8. LogIsAhead'
  BY <1>1 DEF EventsInv, LogIsAhead
<1>9. QED
  BY <1>5, <1>6, <1>7, <1>8 DEF EventsInv

\* A step that leaves buffer and file alone leaves their order alone.
LEMMA FlowUnchanged ==
  ASSUME EventsInv, UNCHANGED <<storage, pending, eventLog, appended, objects, dropped, unwritten>>
  PROVE  FlowTyped' /\ InOrder' /\ EventsAccounted'
BY DEF EventsInv, FlowTyped, InOrder, EventsAccounted, Rising, Below, Fails

\* Batches only arrive in the table after they went to the file.
LEMMA TableFollows ==
  ASSUME EventsInv, NEW cut, cut \subseteq inserting, CutOff(cut)
  PROVE  /\ eventTable' \subseteq ToSet(eventLog) \cup unwritten
         /\ storage.file /\ ~ Fails("file") => eventTable' \subseteq ToSet(eventLog)
BY DEF EventsInv, LogIsAhead, CutOff

LEMMA EventsInit == StoreInit => EventsInv
<1> SUFFICES ASSUME StoreInit PROVE EventsInv
  OBVIOUS
<1>1. ToSet(<<>>) = {} /\ 1 .. 0 = {}
  BY DEF ToSet
<1>2. QED
  BY <1>1 DEF StoreInit, EventsInv, FlowTyped, InOrder, EventsAccounted, LogIsAhead, Rising, Below

LEMMA EventsStep ==
  ASSUME EventsInv, StoreAssumption, [StoreNext]_storeVars
  PROVE  EventsInv'
<1>1. CASE AppendEvent
  BY <1>1, Buffered DEF AppendEvent
<1>f. storage' = storage => Fails("file")' = Fails("file")
  BY DEF Fails
<1>2. ASSUME NEW who, Flush(who), UNCHANGED <<storage, eventTable, appended, objects, dropped>>
      PROVE  EventsInv'
  <2>1. /\ FlowTyped' /\ InOrder' /\ EventsAccounted'
        /\ ToSet(eventLog) \subseteq ToSet(eventLog') /\ unwritten \subseteq unwritten'
        /\ ToSet(pending) \subseteq ToSet(eventLog') \cup unwritten'
        /\ storage.file /\ ~ Fails("file") /\ ToSet(pending) \cap objects = {} =>
             ToSet(pending) \subseteq ToSet(eventLog')
    BY <1>2, Flushed DEF Flush
  <2>2. inserting' \subseteq inserting \cup {[who |-> who, batch |-> ToSet(pending)]}
    BY <1>2 DEF Flush
  <2>3. LogIsAhead'
    BY <1>2, <1>f, <2>1, <2>2 DEF EventsInv, LogIsAhead
  <2>4. QED
    BY <2>1, <2>3 DEF EventsInv
<1>3. CASE FlushTask
  BY <1>2, <1>3 DEF FlushTask
<1>4. CASE FlushLoop
  BY <1>2, <1>4 DEF FlushLoop
<1>5. CASE Insert
  <2>1. PICK f \in inserting :
          /\ \/ f.batch \cap objects = {} /\ eventTable' = eventTable \cup f.batch
             \/ UNCHANGED eventTable
          /\ inserting' = inserting \ {f}
    BY <1>5 DEF Insert
  <2>2. UNCHANGED <<storage, pending, eventLog, appended, objects, dropped, unwritten>>
    BY <1>5 DEF Insert
  <2>3. FlowTyped' /\ InOrder' /\ EventsAccounted'
    BY <2>2, FlowUnchanged
  <2>4. LogIsAhead'
    BY <1>f, <2>1, <2>2 DEF EventsInv, LogIsAhead
  <2>5. QED
    BY <2>3, <2>4 DEF EventsInv
<1>6. CASE Disconnect
  <2> DEFINE cut == {f \in inserting : f.who # "task"}
             last == [who |-> "task", batch |-> ToSet(pending)]
  <2>1. /\ CutOff(cut) /\ inserting' \subseteq inserting \cup {last}
        /\ WriteToLog(pending) /\ pending' = <<>>
        /\ UNCHANGED <<storage, appended, objects, dropped>>
    BY <1>6 DEF Disconnect
  <2>2. /\ FlowTyped' /\ InOrder' /\ EventsAccounted'
        /\ ToSet(eventLog) \subseteq ToSet(eventLog') /\ unwritten \subseteq unwritten'
        /\ ToSet(pending) \subseteq ToSet(eventLog') \cup unwritten'
        /\ storage.file /\ ~ Fails("file") /\ ToSet(pending) \cap objects = {} =>
             ToSet(pending) \subseteq ToSet(eventLog')
    BY <2>1, Flushed
  <2>3. /\ eventTable' \subseteq ToSet(eventLog) \cup unwritten
        /\ storage.file /\ ~ Fails("file") => eventTable' \subseteq ToSet(eventLog)
    BY <2>1, TableFollows
  <2>4. LogIsAhead'
    BY <1>f, <2>1, <2>2, <2>3 DEF EventsInv, LogIsAhead
  <2>5. QED
    BY <2>2, <2>4 DEF EventsInv
<1>7. CASE CrashStore
  <2>1. /\ CutOff(inserting) /\ inserting' = {}
        /\ dropped' = dropped \cup ToSet(pending) /\ pending' = <<>>
        /\ UNCHANGED <<storage, eventLog, appended, objects, unwritten>>
    BY <1>7 DEF CrashStore
  <2>2. /\ eventTable' \subseteq ToSet(eventLog) \cup unwritten
        /\ storage.file /\ ~ Fails("file") => eventTable' \subseteq ToSet(eventLog)
    BY <2>1, TableFollows
  <2>3. ToSet(<<>>) = {} /\ DOMAIN <<>> = {} /\ <<>> \in Seq(Nat)
    BY DEF ToSet
  <2>4. LogIsAhead'
    BY <1>f, <2>1, <2>2 DEF LogIsAhead
  <2>5. QED
    BY <1>f, <2>1, <2>3, <2>4 DEF EventsInv, FlowTyped, InOrder, EventsAccounted, Rising, Below
<1>8. CASE Recover
  BY <1>8, Buffered DEF Recover
<1>9. CASE UNCHANGED <<storage, events>>
  <2>1. FlowTyped' /\ InOrder' /\ EventsAccounted'
    BY <1>9, FlowUnchanged DEF events
  <2>2. QED
    BY <1>9, <1>f, <2>1 DEF EventsInv, LogIsAhead, events
<1>10. CASE Closed \/ Connect \/ ServerAnswers \/ \E what \in {"position", "portfolio"} : Save(what)
  BY <1>9, <1>10 DEF Closed, Connect, ServerAnswers, Save
<1>11. CASE UNCHANGED storeVars
  BY <1>9, <1>11 DEF storeVars
<1>12. QED
  BY <1>1, <1>3, <1>4, <1>5, <1>6, <1>7, <1>8, <1>10, <1>11 DEF StoreNext
-----------------------------------------------------------------------------
LEMMA SavesInit == StoreInit => SavesInv
<1> SUFFICES ASSUME StoreInit PROVE SavesInv
  OBVIOUS
<1>1. /\ saving = Nothing /\ Nothing.at = "done"
      /\ saved = [what \in {"position", "portfolio"} |-> [postgres |-> 0, redis |-> 0]]
  BY DEF StoreInit, Nothing
<1>2. FallbackRefused
  BY <1>1 DEF FallbackRefused
<1>3. FallbackOnly
  BY <1>1 DEF FallbackOnly
<1>4. QED
  BY <1>2, <1>3 DEF SavesInv

\* An answer writes at one server, and to Redis only what was refused before.
LEMMA Answered ==
  ASSUME SavesInv, ServerAnswers
  PROVE  SavesInv'
<1> DEFINE written == [saved EXCEPT ![saving.what][saving.at] = saving.value]
<1>s. /\ saved \in [{"position", "portfolio"} -> [postgres : Nat, redis : Nat]]
      /\ saving.what \in {"position", "portfolio"} /\ saving.at \in {"postgres", "redis"}
      /\ saving.value \in Nat
  BY DEF SavesInv, FallbackRefused, ServerAnswers
<1>1. PICK refusal \in BOOLEAN :
        /\ saved' \in {saved, written}
        /\ saving' = IF NextServer(refusal) = "done" THEN Nothing
                     ELSE [saving EXCEPT !.at = NextServer(refusal)]
        /\ refused' = IF refusal /\ saving.at = "postgres" /\ saving.what = "position"
                      THEN refused \cup {saving.value} ELSE refused
  BY DEF ServerAnswers
<1>2. UNCHANGED storage /\ refused \subseteq refused'
  BY <1>1 DEF ServerAnswers
<1>3. /\ written \in [{"position", "portfolio"} -> [postgres : Nat, redis : Nat]]
      /\ written["position"].redis =
           IF saving.what = "position" /\ saving.at = "redis" THEN saving.value
           ELSE saved["position"].redis
  <2>1. CASE saving.at = "postgres"
    BY <1>s, <2>1
  <2>2. CASE saving.at = "redis"
    BY <1>s, <2>2
  <2>3. QED
    BY <1>s, <2>1, <2>2
<1>4. FallbackOnly'
  <2>1. saved'["position"].redis \in {saved["position"].redis, written["position"].redis}
    BY <1>1
  <2>2. QED
    BY <1>2, <1>3, <2>1 DEF SavesInv, FallbackOnly, FallbackRefused
<1>5. FallbackRefused'
  <2> DEFINE next == NextServer(refusal)
  <2>1. saved' \in [{"position", "portfolio"} -> [postgres : Nat, redis : Nat]]
    BY <1>s, <1>1, <1>3
  <2>2. /\ next \in {"done", "postgres", "redis"}
        /\ next = "redis" => saving.what = "position" /\ saving.at = "postgres" /\ refusal
        /\ next = "postgres" => saving.what = "portfolio"
    BY DEF NextServer
  <2>3. CASE next = "done"
    <3>1. saving' = Nothing /\ Nothing' = Nothing /\ Nothing.at = "done"
      BY <1>1, <2>3 DEF Nothing
    <3>2. QED
      BY <2>1, <3>1 DEF FallbackRefused
  <2>4. CASE next # "done"
    <3>1. saving' = [saving EXCEPT !.at = next]
      BY <1>1, <2>4
    <3>2. saving'.what = saving.what /\ saving'.value = saving.value /\ saving'.at = next
      BY <1>s, <3>1 DEF SavesInv, FallbackRefused
    <3>3. QED
      BY <1>s, <1>1, <1>2, <2>1, <2>2, <2>4, <3>2 DEF FallbackRefused
  <2>5. QED
    BY <2>3, <2>4
<1>6. QED
  BY <1>4, <1>5 DEF SavesInv

LEMMA SavesStep ==
  ASSUME SavesInv, [StoreNext]_storeVars
  PROVE  SavesInv'
<1>1. CASE ServerAnswers
  BY <1>1, Answered
<1>2. ASSUME NEW what \in {"position", "portfolio"}, Save(what) PROVE SavesInv'
  <2> DEFINE value == 1 + Max({saved[what].postgres, saved[what].redis})
  <2>1. /\ saving' = [what |-> what, value |-> value, at |-> FirstServer(what)]
        /\ FirstServer(what) # "done"
        /\ UNCHANGED <<storage, saved, refused>>
    BY <1>2 DEF Save
  <2>2. value \in Nat
    <3>1. saved[what].postgres \in Nat /\ saved[what].redis \in Nat
      BY <1>2 DEF SavesInv, FallbackRefused
    <3>2. ASSUME NEW a \in Nat, NEW b \in Nat PROVE Max({a, b}) \in Nat
      <4>1. {a, b} \subseteq 0 .. a + b /\ {a, b} # {}
        OBVIOUS
      <4>2. Max({a, b}) \in {a, b}
        BY <4>1, MaxIsReached
      <4>3. QED
        BY <4>2
    <3>3. QED
      BY <3>1, <3>2
  <2>3. FirstServer(what) \in {"postgres", "redis"}
        /\ (what = "position" /\ storage.table => FirstServer(what) = "postgres")
    BY <2>1 DEF FirstServer
  <2>4. FallbackRefused'
    <3> HIDE DEF value
    <3>1. saving'.what = what /\ saving'.value = value /\ saving'.at = FirstServer(what)
      BY <2>1
    <3>2. QED
      BY <2>1, <2>2, <2>3, <3>1 DEF SavesInv, FallbackRefused
  <2>5. QED
    BY <2>1, <2>4 DEF SavesInv, FallbackOnly
<1>3. CASE UNCHANGED <<storage, saving, saved, refused>>
  BY <1>3 DEF SavesInv, FallbackRefused, FallbackOnly, Nothing
<1>4. CASE CrashStore
  <2>1. saving' = Nothing /\ Nothing' = Nothing /\ UNCHANGED <<storage, saved, refused>>
    BY <1>4 DEF CrashStore, Nothing
  <2>2. Nothing.at = "done"
    BY DEF Nothing
  <2>3. QED
    BY <2>1, <2>2 DEF SavesInv, FallbackRefused, FallbackOnly
<1>5. CASE AppendEvent \/ FlushTask \/ FlushLoop \/ Insert \/ Disconnect \/ Closed \/ Connect \/ Recover
  BY <1>3, <1>5 DEF AppendEvent, FlushTask, FlushLoop, Insert, Disconnect, Closed, Connect, Recover, saves
<1>6. CASE UNCHANGED storeVars
  BY <1>3, <1>6 DEF storeVars, saves
<1>7. QED
  BY <1>1, <1>2, <1>4, <1>5, <1>6 DEF StoreNext
\* EventsInv is an invariant of the stores (state/store.py).
THEOREM EventsInvariance == StoreSpec => []EventsInv
<1>1. EventsInv /\ [StoreNext]_storeVars => EventsInv'
  BY StoreAssumption, EventsStep
<1>2. QED
  BY <1>1, EventsInit, PTL DEF StoreSpec

\* The audit trail holds every event once, in the order of append_event, whichever
\* of the flush tasks, the loops and disconnect() wrote it.
THEOREM AuditTrailInOrder == StoreSpec => []LogInOrder
<1>1. EventsInv => LogInOrder
  BY DEF EventsInv, InOrder, Rising, LogInOrder
<1>2. QED
  BY <1>1, EventsInvariance, PTL

\* No event disappears but from a full buffer, in a crash, or with a batch whose
\* writing ended early, and none does so while the file takes what it is given and
\* every event has a JSON form.
THEOREM NoEventVanishes == StoreSpec => []EventsAccounted
<1>1. EventsInv => EventsAccounted
  BY DEF EventsInv
<1>2. QED
  BY <1>1, EventsInvariance, PTL

\* The table event_log only has what went to the file first, and as long as the file
\* does not fail nothing that it lacks, although batches of several flushes arrive
\* in any order or not at all.
THEOREM FileComesFirst == StoreSpec => []FileBeforeTable
<1>1. EventsInv => FileBeforeTable
  BY DEF EventsInv, LogIsAhead, FileBeforeTable
<1>2. QED
  BY <1>1, EventsInvariance, PTL

\* save_position writes to Redis only what PostgreSQL refused.
THEOREM RedisIsTheFallback == StoreSpec => []FallbackOnly
<1>1. SavesInv /\ [StoreNext]_storeVars => SavesInv'
  BY SavesStep
<1>2. SavesInv => FallbackOnly
  BY DEF SavesInv
<1>3. QED
  BY <1>1, <1>2, SavesInit, PTL DEF StoreSpec

-----------------------------------------------------------------------------
(***************************************************************************)
(* The reader of Replay.  A page rises from the cursor and skips no row that*)
(* was there when it was read: what is missing before the rest of the page *)
(* failed or came late.                                                    *)
(***************************************************************************)

Beyond(from) == {o \in rows : o > from}

TableTyped ==
  /\ drawn \in Nat /\ rows \subseteq 1 .. drawn /\ uncommitted \subseteq (1 .. drawn) \ rows
  /\ late \subseteq rows

\* The cursor is where the last event was replayed.
CursorAtLast ==
  /\ replayed \in Seq(rows) /\ failed \subseteq rows
  /\ cursor = 0 \/ (cursor \in rows /\ cursor \in ToSet(replayed))
  /\ \A i \in DOMAIN replayed : replayed[i] <= cursor

\* A page rises from the cursor, and skips no row but what failed or came late.
PageIsNext ==
  /\ page \in Seq(rows) /\ Rising(page)
  /\ \A i \in DOMAIN page : cursor < page[i]
  /\ \A i \in DOMAIN page : \A o \in rows :
       cursor < o /\ o < page[i] =>
         o \in failed \cup late \/ \E j \in DOMAIN page : page[j] = o

SnapshotTyped ==
  /\ snapshot.offset \in {0} \cup rows
  /\ snapshot \in [offset : Nat, portfolio : Nat, taken : Nat]
  /\ snapshot.offset = 0 => snapshot.portfolio = 0

ReplayInv ==
  /\ TableTyped /\ CursorAtLast /\ PageIsNext /\ SnapshotTyped
  /\ ReplayedInOrder /\ NothingSkipped /\ SmallSnapshotCurrent

LEMMA SmallerOfTwo ==
  ASSUME NEW a \in Int, NEW b \in Int PROVE Min({a, b}) = IF a <= b THEN a ELSE b
<1>1. {a, b} \in SUBSET Int /\ IsFiniteSet({a, b}) /\ {a, b} # {}
  <2>1. {a, b} = {a} \cup {b}
    OBVIOUS
  <2>2. IsFiniteSet({a}) /\ IsFiniteSet({b})
    BY FS_Singleton
  <2>3. QED
    BY <2>1, <2>2, FS_Union
<1>2. Min({a, b}) \in {a, b} /\ \A n \in {a, b} : Min({a, b}) <= n
  BY <1>1, Extremes
<1>3. QED
  BY <1>2

LEMMA PagesAreNext ==
  ASSUME NEW from \in Nat, TableTyped
  PROVE  /\ PageAfter(from) \in Seq(rows) /\ Rising(PageAfter(from))
         /\ \A i \in DOMAIN PageAfter(from) :
              /\ from < PageAfter(from)[i]
              /\ \A o \in rows : from < o /\ o < PageAfter(from)[i] =>
                   \E j \in DOMAIN PageAfter(from) : PageAfter(from)[j] = o
         /\ Beyond(from) # {} => PageAfter(from) # <<>>
         /\ Cardinality(Beyond(from)) <= PageSize /\ Beyond(from) # {} =>
              \A o \in Beyond(from) : o <= Last(PageAfter(from))
<1> DEFINE rest == Beyond(from)
           Place(o) == Cardinality({p \in rest : p <= o})
           size == Min({PageSize, Cardinality(rest)})
           q == [i \in 1 .. size |-> CHOOSE o \in rest : Place(o) = i]
<1>1. rest \in SUBSET Int /\ IsFiniteSet(rest) /\ rest \subseteq rows /\ Cardinality(rest) \in Nat
  <2>1. rest \subseteq rows /\ rows \subseteq 1 .. drawn /\ drawn \in Nat
    BY DEF Beyond, TableTyped
  <2> HIDE DEF rest
  <2>2. IsFiniteSet(1 .. drawn) /\ rest \in SUBSET (1 .. drawn)
    BY <2>1, FS_Interval
  <2>3. IsFiniteSet(rest)
    BY <2>2, FS_Subset
  <2>4. Cardinality(rest) \in Nat
    BY <2>3, FS_CardinalityType
  <2>5. rest \in SUBSET Int
    BY <2>1, <2>2
  <2>6. QED
    BY <2>1, <2>3, <2>4, <2>5
<1>2. q = PageAfter(from)
  BY DEF PageAfter, Beyond
<1>3. size \in Nat /\ size <= Cardinality(rest) /\ size <= PageSize
      /\ (Cardinality(rest) <= PageSize => size = Cardinality(rest))
  <2> HIDE DEF rest
  <2>1. PageSize \in Int /\ Cardinality(rest) \in Int /\ PageSize >= 0
    BY <1>1, ReplayAssumption
  <2>2. size = IF PageSize <= Cardinality(rest) THEN PageSize ELSE Cardinality(rest)
    BY <2>1, SmallerOfTwo
  <2>3. QED
    BY <1>1, <2>1, <2>2
<1>4. /\ \A a \in rest : Place(a) \in 1 .. Cardinality(rest)
      /\ \A a, b \in rest : a < b => Place(a) < Place(b)
      /\ \A i \in 1 .. Cardinality(rest) : \E a \in rest : Place(a) = i
  <2> HIDE DEF rest
  <2>1. QED
    BY <1>1, Places
<1>5. \A i \in 1 .. size : q[i] \in rest /\ Place(q[i]) = i
  <2> HIDE DEF rest, Place
  <2>1. TAKE i \in 1 .. size
  <2>2. i \in 1 .. Cardinality(rest)
    <3> HIDE DEF size
    <3>1. QED
      BY <1>1, <1>3
  <2>3. \E a \in rest : Place(a) = i
    BY <1>4, <2>2
  <2>4. q[i] = CHOOSE o \in rest : Place(o) = i
    <3> HIDE DEF size
    <3>1. QED
      OBVIOUS
  <2>5. QED
    <3> HIDE DEF q
    <3>1. QED
      BY <2>3, <2>4
<1>6. q \in Seq(rows) /\ Len(q) = size /\ DOMAIN q = 1 .. size
  <2>1. \A i \in 1 .. size : q[i] \in rows
    BY <1>1, <1>5
  <2>2. q = [i \in 1 .. size |-> q[i]] /\ DOMAIN q = 1 .. size
    <3> HIDE DEF size
    <3>1. QED
      OBVIOUS
  <2>3. QED
    <3> HIDE DEF q, size
    <3>1. q \in [1 .. size -> rows]
      BY <2>1, <2>2
    <3>2. QED
      BY <1>3, <2>2, <3>1
<1>7. \A a, b \in rest : (Place(a) < Place(b) <=> a < b) /\ (Place(a) = Place(b) => a = b)
  <2>1. \A a, b \in rest : a \in Int /\ b \in Int /\ Place(a) \in Int /\ Place(b) \in Int
    BY <1>1, <1>4
  <2> HIDE DEF rest, Place
  <2>2. QED
    BY <1>4, <2>1
<1>8. Rising(q)
  <2> HIDE DEF q, rest, Place, size
  <2>1. QED
    BY <1>5, <1>6, <1>7 DEF Rising
<1>9. ASSUME NEW i \in DOMAIN q, NEW o \in rows, from < o, o < q[i]
      PROVE  \E j \in DOMAIN q : q[j] = o
  <2>1. o \in rest /\ q[i] \in rest
    BY <1>5, <1>6, <1>9 DEF Beyond
  <2>2. Place(o) < i /\ Place(o) \in 1 .. Cardinality(rest)
    <3> HIDE DEF q, rest, Place, size
    <3>1. QED
      BY <1>4, <1>5, <1>6, <1>7, <1>9, <2>1
  <2>3. Place(o) \in 1 .. size
    <3> HIDE DEF q, rest, Place, size
    <3>1. QED
      BY <1>3, <1>6, <2>2
  <2>4. q[Place(o)] = o
    <3> HIDE DEF q, rest, Place, size
    <3>1. QED
      BY <1>5, <1>7, <2>1, <2>3
  <2>5. QED
    <3> HIDE DEF q, Place
    <3>1. QED
      BY <1>6, <2>3, <2>4
<1>10. \A i \in DOMAIN q : from < q[i]
  <2>1. \A o \in rest : o > from
    BY DEF Beyond
  <2>2. \A o \in rest : from < o
    BY <1>1, <2>1
  <2> HIDE DEF q, rest, Place, size
  <2>3. QED
    BY <1>5, <1>6, <2>2
<1>11. ASSUME Cardinality(rest) <= PageSize, rest # {}
       PROVE  \A o \in rest : o <= Last(q)
  <2>1. size = Cardinality(rest) /\ size # 0
    <3> HIDE DEF rest, size
    <3>1. QED
      BY <1>1, <1>3, <1>11, FS_EmptySet
  <2>2. Last(q) = q[size] /\ q # <<>> /\ size \in 1 .. size
    <3> HIDE DEF q, size
    <3>1. QED
      BY <1>3, <1>6, <2>1 DEF Last
  <2>3. \A o \in rest : o <= q[size]
    <3>1. \A o \in rest : o \in Int
      BY <1>1
    <3> HIDE DEF q, rest, Place, size
    <3>2. q[size] \in rest /\ Place(q[size]) = size
      BY <1>5, <2>2
    <3>3. TAKE o \in rest
    <3>4. Place(o) <= size /\ Place(o) \in Int
      BY <1>4, <2>1
    <3>5. ~ (Place(q[size]) < Place(o))
      BY <1>3, <3>2, <3>4
    <3>6. ~ (q[size] < o)
      BY <1>7, <3>2, <3>5
    <3>7. QED
      BY <3>1, <3>2, <3>6
  <2>4. QED
    <3> HIDE DEF q
    <3>1. QED
      BY <2>2, <2>3
<1>12. ASSUME rest # {} PROVE q # <<>>
  <2>1. Cardinality(rest) # 0
    <3> HIDE DEF rest
    <3>1. QED
      BY <1>1, <1>12, FS_EmptySet
  <2>2. size # 0
    <3> HIDE DEF rest
    <3>0. PageSize \in Nat /\ PageSize # 0
      BY ReplayAssumption
    <3>1. size = IF PageSize <= Cardinality(rest) THEN PageSize ELSE Cardinality(rest)
      BY <1>1, <3>0, SmallerOfTwo
    <3> HIDE DEF size
    <3>2. QED
      BY <2>1, <3>0, <3>1
  <2>3. QED
    <3> HIDE DEF q, size
    <3>1. QED
      BY <1>6, <2>2
<1>13. QED
  <2> HIDE DEF q, rest
  <2>1. QED
    BY <1>2, <1>6, <1>8, <1>9, <1>10, <1>11, <1>12 DEF rest

LEMMA SequenceOfMore ==
  ASSUME NEW S, NEW T, S \subseteq T, NEW s \in Seq(S) PROVE s \in Seq(T)
<1>1. Len(s) \in Nat /\ s \in [1 .. Len(s) -> S]
  OBVIOUS
<1>2. s \in [1 .. Len(s) -> T]
  BY <1>1
<1>3. QED
  BY <1>1, <1>2

LEMMA ReplayInitial == ReplayInit => ReplayInv
<1>1. SUFFICES ASSUME ReplayInit PROVE ReplayInv
  OBVIOUS
<1>2. TableTyped /\ SnapshotTyped
  BY <1>1 DEF ReplayInit, TableTyped, SnapshotTyped
<1>3. CursorAtLast /\ PageIsNext
  BY <1>1 DEF ReplayInit, CursorAtLast, PageIsNext, Rising
<1>4. ReplayedInOrder /\ NothingSkipped /\ SmallSnapshotCurrent
  BY <1>1 DEF ReplayInit, ReplayedInOrder, NothingSkipped, SmallSnapshotCurrent
<1>5. QED
  BY <1>2, <1>3, <1>4 DEF ReplayInv

\* Rows that come, and inserts that fail, disturb nothing that was read.
LEMMA WritersKeep ==
  ASSUME ReplayInv, Draw \/ CommitRow \/ BurnOffset
  PROVE  ReplayInv'
<1>1. /\ drawn' \in Nat /\ drawn <= drawn' /\ drawn \in Nat
      /\ rows \subseteq rows' /\ rows' \subseteq 1 .. drawn' /\ uncommitted' \subseteq (1 .. drawn') \ rows'
      /\ late \subseteq late' /\ late' \subseteq rows'
      /\ UNCHANGED <<cursor, page, replayed, failed, snapshot>>
  <2>1. CASE Draw
    BY <2>1 DEF ReplayInv, TableTyped, Draw, reading
  <2>2. CASE CommitRow
    BY <2>2 DEF ReplayInv, TableTyped, CommitRow, reading
  <2>3. CASE BurnOffset
    BY <2>3 DEF ReplayInv, TableTyped, BurnOffset, reading
  <2>4. QED
    BY <2>1, <2>2, <2>3
<1>2. \A o \in rows' \ rows :
        (o < cursor \/ \E i \in DOMAIN page : o < page[i]) => o \in late'
  <2>1. CASE Draw \/ BurnOffset
    BY <2>1 DEF Draw, BurnOffset, reading
  <2>2. CASE CommitRow
    BY <2>2 DEF CommitRow, reading
  <2>3. QED
    BY <2>1, <2>2
<1>3. TableTyped'
  BY <1>1 DEF TableTyped
<1>4. CursorAtLast'
  <2>1. replayed \in Seq(rows')
    BY <1>1, SequenceOfMore DEF ReplayInv, CursorAtLast
  <2>2. ToSet(replayed') = ToSet(replayed)
    BY <1>1
  <2>3. QED
    BY <1>1, <2>1, <2>2 DEF ReplayInv, CursorAtLast
<1>5. PageIsNext'
  <2>0. page \in Seq(rows')
    BY <1>1, SequenceOfMore DEF ReplayInv, PageIsNext
  <2>1. page' \in Seq(rows') /\ Rising(page') /\ \A i \in DOMAIN page' : cursor' < page'[i]
    BY <1>1, <2>0 DEF ReplayInv, PageIsNext, Rising
  <2>2. ASSUME NEW i \in DOMAIN page, NEW o \in rows', cursor < o, o < page[i]
        PROVE  o \in failed \cup late' \/ \E j \in DOMAIN page : page[j] = o
    <3>1. CASE o \in rows
      BY <1>1, <2>2, <3>1 DEF ReplayInv, PageIsNext
    <3>2. CASE o \notin rows
      BY <1>2, <2>2, <3>2
    <3>3. QED
      BY <3>1, <3>2
  <2>3. QED
    BY <1>1, <2>1, <2>2 DEF PageIsNext
<1>6. SnapshotTyped' /\ ReplayedInOrder' /\ SmallSnapshotCurrent'
  BY <1>1 DEF ReplayInv, SnapshotTyped, ReplayedInOrder, SmallSnapshotCurrent
<1>7. NothingSkipped'
  <2>1. ASSUME NEW o \in rows', o < cursor
        PROVE  o \in ToSet(replayed) \cup failed \cup late'
    <3>1. CASE o \in rows
      BY <1>1, <2>1, <3>1 DEF ReplayInv, NothingSkipped
    <3>2. CASE o \notin rows
      BY <1>2, <2>1, <3>2
    <3>3. QED
      BY <3>1, <3>2
  <2>2. QED
    BY <1>1, <2>1 DEF NothingSkipped
<1>8. QED
  BY <1>3, <1>4, <1>5, <1>6, <1>7 DEF ReplayInv

LEMMA ProcessKeeps ==
  ASSUME ReplayInv, Process
  PROVE  ReplayInv'
<1>1. UNCHANGED <<drawn, rows, uncommitted, late, snapshot>> /\ page # <<>> /\ page' = Tail(page)
  BY DEF Process, table
<1>2. TableTyped /\ CursorAtLast /\ PageIsNext /\ SnapshotTyped
      /\ ReplayedInOrder /\ NothingSkipped /\ SmallSnapshotCurrent
  BY DEF ReplayInv
<1>3. TableTyped' /\ SnapshotTyped' /\ SmallSnapshotCurrent'
  BY <1>1, <1>2 DEF TableTyped, SnapshotTyped, SmallSnapshotCurrent
<1>4. /\ page \in Seq(rows) /\ page' \in Seq(rows') /\ Len(page') = Len(page) - 1 /\ Len(page) \in Nat \ {0}
      /\ DOMAIN page = 1 .. Len(page) /\ DOMAIN page' = 1 .. Len(page')
      /\ \A i \in DOMAIN page' : page'[i] = page[i + 1]
      /\ Head(page) = page[1] /\ Head(page) \in rows
  BY <1>1, <1>2 DEF PageIsNext
<1>5. \A o \in rows : o \in Nat /\ 1 <= o
  <2>1. drawn \in Nat /\ \A o \in rows : o \in 1 .. drawn
    BY <1>2 DEF TableTyped
  <2>2. QED
    BY <2>1
<1>6. cursor \in Nat
  BY <1>2, <1>5 DEF CursorAtLast
<1>7. Rising(page') /\ \A i \in DOMAIN page' : Head(page) < page'[i]
  <2>1. \A i, j \in DOMAIN page : i < j => page[i] < page[j]
    BY <1>2 DEF PageIsNext, Rising
  <2>2. \A i \in DOMAIN page' : i \in Nat /\ i + 1 \in DOMAIN page /\ 1 < i + 1
    BY <1>4
  <2>3. 1 \in DOMAIN page /\ \A i \in DOMAIN page' : page'[i] = page[i + 1]
    BY <1>4
  <2>4. \A i \in DOMAIN page' : Head(page) < page'[i]
    BY <1>4, <2>1, <2>2, <2>3
  <2>5. \A i, j \in DOMAIN page' : i < j => page'[i] < page'[j]
    <3>1. SUFFICES ASSUME NEW i \in DOMAIN page', NEW j \in DOMAIN page', i < j
                   PROVE  page[i + 1] < page[j + 1]
      BY <2>3
    <3>2. i + 1 < j + 1
      BY <2>2, <3>1
    <3>3. QED
      BY <2>1, <2>2, <3>2
  <2>6. QED
    BY <2>4, <2>5 DEF Rising
<1>8. \A i \in DOMAIN page' : page'[i] \in rows
  BY <1>4
<1>9. cursor < Head(page)
  BY <1>2, <1>4 DEF PageIsNext
<1>10. \A i \in DOMAIN page' : cursor < page'[i]
  BY <1>5, <1>6, <1>7, <1>8, <1>9, <1>4
<1>11. ASSUME NEW i \in DOMAIN page', NEW o \in rows, cursor < o, o < page'[i], o # Head(page)
       PROVE  o \in failed \cup late \/ \E j \in DOMAIN page' : page'[j] = o
  <2>1. i + 1 \in DOMAIN page /\ o < page[i + 1]
    BY <1>4, <1>11
  <2>2. o \in failed \cup late \/ \E j \in DOMAIN page : page[j] = o
    BY <1>2, <1>11, <2>1 DEF PageIsNext
  <2>3. ASSUME NEW j \in DOMAIN page, page[j] = o PROVE \E l \in DOMAIN page' : page'[l] = o
    <3>1. j # 1 /\ j - 1 \in DOMAIN page'
      BY <1>4, <1>11, <2>3
    <3>2. page'[j - 1] = o
      BY <1>4, <2>3, <3>1
    <3>3. QED
      BY <3>1, <3>2
  <2>4. QED
    BY <2>2, <2>3
<1>12. CASE replayed' = Append(replayed, Head(page)) /\ cursor' = Head(page) /\ UNCHANGED <<reader, failed>>
  <2>1. replayed \in Seq(rows) /\ replayed' \in Seq(rows') /\ Len(replayed') = Len(replayed) + 1
        /\ Len(replayed) \in Nat
        /\ DOMAIN replayed = 1 .. Len(replayed) /\ DOMAIN replayed' = 1 .. Len(replayed')
        /\ (\A i \in DOMAIN replayed : replayed'[i] = replayed[i] /\ replayed[i] \in rows)
        /\ replayed'[Len(replayed')] = Head(page)
    BY <1>1, <1>2, <1>4, <1>12 DEF CursorAtLast
  <2>2. \A i \in DOMAIN replayed : replayed'[i] < Head(page) /\ replayed'[i] <= Head(page)
    <3>1. TAKE i \in DOMAIN replayed
    <3>2. replayed'[i] \in Nat /\ replayed'[i] <= cursor /\ Head(page) \in Nat
      BY <1>2, <1>4, <1>5, <2>1 DEF CursorAtLast
    <3>3. QED
      BY <1>6, <1>9, <3>2
  <2>3. \A i \in DOMAIN replayed' : i \in DOMAIN replayed \/ i = Len(replayed')
    BY <2>1
  <2>4. ToSet(replayed') = ToSet(replayed) \cup {Head(page)}
    <3>1. ToSet(replayed') = {replayed'[i] : i \in DOMAIN replayed'} /\ ToSet(replayed) = {replayed[i] : i \in DOMAIN replayed}
      BY Zenon DEF ToSet
    <3>2. Len(replayed') \in DOMAIN replayed' /\ DOMAIN replayed \subseteq DOMAIN replayed'
      BY <2>1
    <3>3. \A o \in {replayed'[i] : i \in DOMAIN replayed'} : o \in {replayed[i] : i \in DOMAIN replayed} \cup {Head(page)}
      BY <2>1, <2>3
    <3>4. \A o \in {replayed[i] : i \in DOMAIN replayed} \cup {Head(page)} : o \in {replayed'[i] : i \in DOMAIN replayed'}
      BY <2>1, <3>2
    <3>5. QED
      BY <3>1, <3>3, <3>4
  <2>5. CursorAtLast'
    <3>1. cursor' \in rows' /\ cursor' \in ToSet(replayed')
      BY <1>1, <1>4, <1>12, <2>4
    <3>2. failed' \subseteq rows'
      BY <1>1, <1>2, <1>12 DEF CursorAtLast
    <3>3. \A i \in DOMAIN replayed' : replayed'[i] <= cursor'
      BY <1>4, <1>5, <1>12, <2>1, <2>2, <2>3
    <3>4. QED
      BY <2>1, <3>1, <3>2, <3>3 DEF CursorAtLast
  <2>6. PageIsNext'
    <3>1. \A i \in DOMAIN page' : cursor' < page'[i]
      BY <1>7, <1>12
    <3>2. ASSUME NEW i \in DOMAIN page', NEW o \in rows, cursor' < o, o < page'[i]
          PROVE  o \in failed \cup late \/ \E j \in DOMAIN page' : page'[j] = o
      <4>1. cursor < o /\ o # Head(page)
        BY <1>4, <1>5, <1>6, <1>9, <1>12, <3>2
      <4>2. QED
        BY <1>11, <3>2, <4>1
    <3>3. QED
      BY <1>1, <1>4, <1>7, <1>12, <3>1, <3>2 DEF PageIsNext
  <2>7. ReplayedInOrder'
    BY <1>2, <2>1, <2>2, <2>3 DEF ReplayedInOrder
  <2>8. NothingSkipped'
    <3>1. ASSUME NEW o \in rows, o < Head(page)
          PROVE  o \in ToSet(replayed') \cup failed \cup late
      <4>1. CASE o < cursor
        BY <1>2, <2>4, <4>1 DEF NothingSkipped
      <4>2. CASE o = cursor
        BY <1>2, <1>5, <2>4, <4>2 DEF CursorAtLast
      <4>3. CASE cursor < o
        <5>1. 1 \in DOMAIN page /\ o < page[1]
          BY <1>4, <3>1
        <5>2. o \in failed \cup late \/ \E j \in DOMAIN page : page[j] = o
          BY <1>2, <4>3, <5>1 DEF PageIsNext
        <5>3. \A j \in DOMAIN page : page[j] # o
          <6>1. TAKE j \in DOMAIN page
          <6>2. j = 1 \/ page[1] < page[j]
            BY <1>2, <1>4 DEF PageIsNext, Rising
          <6>3. page[1] \in Nat /\ page[j] \in Nat /\ o \in Nat
            BY <1>4, <1>5
          <6>4. QED
            BY <5>1, <6>2, <6>3
        <5>4. QED
          BY <5>2, <5>3
      <4>4. QED
        BY <1>5, <1>6, <4>1, <4>2, <4>3
    <3>2. QED
      BY <1>1, <1>12, <3>1 DEF NothingSkipped
  <2>9. QED
    BY <1>3, <2>5, <2>6, <2>7, <2>8 DEF ReplayInv
<1>13. CASE failed' = failed \cup {Head(page)} /\ UNCHANGED <<cursor, replayed>>
  <2>1. CursorAtLast' /\ ReplayedInOrder' /\ NothingSkipped'
    BY <1>1, <1>2, <1>4, <1>13 DEF CursorAtLast, ReplayedInOrder, NothingSkipped
  <2>2. PageIsNext'
    <3>1. ASSUME NEW i \in DOMAIN page', NEW o \in rows, cursor < o, o < page'[i]
          PROVE  o \in failed' \cup late \/ \E j \in DOMAIN page' : page'[j] = o
      BY <1>11, <1>13, <3>1
    <3>2. QED
      BY <1>1, <1>4, <1>7, <1>10, <1>13, <3>1 DEF PageIsNext
  <2>3. QED
    BY <1>3, <2>1, <2>2 DEF ReplayInv
<1>14. QED
  BY <1>12, <1>13 DEF Process

LEMMA ReplayStep == ReplayInv /\ [ReplayNext]_replayVars => ReplayInv'
<1>1. SUFFICES ASSUME ReplayInv, [ReplayNext]_replayVars PROVE ReplayInv'
  OBVIOUS
<1>2. TableTyped /\ CursorAtLast /\ PageIsNext /\ SnapshotTyped
      /\ ReplayedInOrder /\ NothingSkipped /\ SmallSnapshotCurrent
  BY <1>1 DEF ReplayInv
<1>3. cursor \in Nat /\ rows \subseteq Nat /\ IsFiniteSet(rows) /\ Cardinality(rows) \in Nat
  <2>1. rows \in SUBSET (1 .. drawn) /\ drawn \in Nat
    BY <1>2 DEF TableTyped
  <2>2. IsFiniteSet(1 .. drawn)
    BY <2>1, FS_Interval
  <2>3. IsFiniteSet(rows)
    BY <2>1, <2>2, FS_Subset
  <2>4. Cardinality(rows) \in Nat
    BY <2>3, FS_CardinalityType
  <2>5. rows \subseteq Nat
    BY <2>1
  <2>c. cursor = 0 \/ cursor \in rows
    BY <1>2 DEF CursorAtLast
  <2>6. cursor \in Nat
    <3>1. \A n \in rows : n \in Nat
      BY <2>5
    <3>2. ASSUME cursor \in rows PROVE cursor \in Nat
      BY <3>1, <3>2, Zenon
    <3>3. QED
      BY <2>c, <3>2
  <2>7. QED
    BY <2>3, <2>4, <2>5, <2>6
<1>4. ASSUME Draw \/ CommitRow \/ BurnOffset PROVE ReplayInv'
  BY <1>1, <1>4, WritersKeep
<1>5. ASSUME Fetch PROVE ReplayInv'
  <2>1. UNCHANGED <<drawn, rows, uncommitted, late, cursor, replayed, failed, snapshot>>
        /\ page' = PageAfter(cursor)
    BY <1>5 DEF Fetch, table
  <2>2. PageIsNext'
    <3>1. /\ page' \in Seq(rows) /\ Rising(page')
          /\ \A i \in DOMAIN page' :
               /\ cursor < page'[i]
               /\ \A o \in rows : cursor < o /\ o < page'[i] => \E j \in DOMAIN page' : page'[j] = o
      BY <1>2, <1>3, <2>1, PagesAreNext
    <3>2. QED
      BY <2>1, <3>1 DEF PageIsNext, Rising
  <2>3. QED
    BY <1>2, <2>1, <2>2 DEF ReplayInv, TableTyped, CursorAtLast, SnapshotTyped, ReplayedInOrder, NothingSkipped,
       SmallSnapshotCurrent
<1>6. ASSUME Break PROVE ReplayInv'
  <2>1. UNCHANGED <<drawn, rows, uncommitted, late, cursor, replayed, failed, snapshot>> /\ page' = <<>>
    BY <1>6 DEF Break, table
  <2>2. PageIsNext'
    BY <2>1 DEF PageIsNext, Rising
  <2>3. QED
    BY <1>2, <2>1, <2>2 DEF ReplayInv, TableTyped, CursorAtLast, SnapshotTyped, ReplayedInOrder, NothingSkipped,
       SmallSnapshotCurrent
<1>7. ASSUME Process PROVE ReplayInv'
  BY <1>1, <1>7, ProcessKeeps
<1>8. ASSUME PageDone \/ UNCHANGED replayVars PROVE ReplayInv'
  <2>1. UNCHANGED <<drawn, rows, uncommitted, late, cursor, page, replayed, failed, snapshot>>
    BY <1>8 DEF PageDone, replayVars, table, reading
  <2>2. QED
    BY <1>2, <2>1 DEF ReplayInv, TableTyped, CursorAtLast, PageIsNext, Rising, SnapshotTyped, ReplayedInOrder,
       NothingSkipped, SmallSnapshotCurrent
<1>9. ASSUME LatestOffset PROVE ReplayInv'
  <2>1. UNCHANGED <<drawn, rows, uncommitted, late, cursor, page, replayed, failed>> /\ rows # {}
        /\ snapshot.offset = 0 /\ snapshot' = [snapshot EXCEPT !.offset = Max(rows)]
    BY <1>9 DEF LatestOffset, table, reading
  <2>2. Max(rows) \in rows
    <3>1. rows \in SUBSET Int
      BY <1>3
    <3>2. QED
      BY <1>3, <2>1, <3>1, Extremes
  <2>3. Max(rows) \in Nat
    BY <1>3, <2>2
  <2>4. /\ snapshot' \in [offset : Nat, portfolio : Nat, taken : Nat]
        /\ snapshot'.offset = Max(rows) /\ snapshot'.portfolio = 0
    BY <1>2, <2>1, <2>3 DEF SnapshotTyped
  <2>5. SnapshotTyped' /\ SmallSnapshotCurrent'
    BY <2>1, <2>2, <2>4 DEF SnapshotTyped, SmallSnapshotCurrent
  <2>6. QED
    BY <1>2, <2>1, <2>5 DEF ReplayInv, TableTyped, CursorAtLast, PageIsNext, Rising, ReplayedInOrder, NothingSkipped
<1>10. ASSUME TakeSnapshot PROVE ReplayInv'
  <2>1. UNCHANGED <<drawn, rows, uncommitted, late, cursor, page, replayed, failed>> /\ snapshot.offset # 0
        /\ snapshot' = [snapshot EXCEPT !.portfolio = Last(PageAfter(0)), !.taken = Cardinality(rows)]
    BY <1>10 DEF TakeSnapshot, table, reading
  <2>2. Beyond(0) = rows /\ snapshot.offset \in rows
    BY <1>2, <2>1 DEF Beyond, TableTyped, SnapshotTyped
  <2>3. PageAfter(0) \in Seq(rows) /\ PageAfter(0) # <<>>
        /\ (Cardinality(rows) <= PageSize => snapshot.offset <= Last(PageAfter(0)))
    BY <1>2, <2>2, PagesAreNext
  <2>4. Last(PageAfter(0)) \in rows
    BY <2>3 DEF Last
  <2>5. Last(PageAfter(0)) \in Nat /\ snapshot.offset \in Nat
    BY <1>3, <2>2, <2>4
  <2>6. /\ snapshot' \in [offset : Nat, portfolio : Nat, taken : Nat]
        /\ snapshot'.offset = snapshot.offset /\ snapshot'.portfolio = Last(PageAfter(0))
        /\ snapshot'.taken = Cardinality(rows)
    BY <1>2, <1>3, <2>1, <2>5 DEF SnapshotTyped
  <2>7. SnapshotTyped'
    BY <2>1, <2>2, <2>6 DEF SnapshotTyped
  <2>8. SmallSnapshotCurrent'
    BY <2>3, <2>5, <2>6 DEF SmallSnapshotCurrent
  <2>9. QED
    BY <1>2, <2>1, <2>7, <2>8 DEF ReplayInv, TableTyped, CursorAtLast, PageIsNext, Rising, ReplayedInOrder, NothingSkipped
<1>11. QED
  BY <1>1, <1>4, <1>5, <1>6, <1>7, <1>8, <1>9, <1>10 DEF ReplayNext

-----------------------------------------------------------------------------
(***************************************************************************)
(* The Supervisor.  Between the two halves of a restart, whatever stop() and*)
(* the deaths of instances do in between, nothing of the component is alive*)
(* but what failed stops left behind (RestartFits).                        *)
(***************************************************************************)

SupervisorTyped ==
  /\ supervisor \in {"new", "running", "stopping", "stopped"}
  /\ status \in [Managed -> {"unknown", "running", "degraded", "failed", "stopping", "stopped"}]
  /\ instances \in [Managed -> Nat] /\ orphans \in [Managed -> Nat]
  /\ restarts \in [Managed -> 0 .. MaxRestarts]
  /\ age \in [Managed -> 0 .. 3] /\ restart \in {"no", "stop", "start", "hung", "cut"}
  /\ toCheck \in Seq(Managed) /\ toStop \in Seq(Managed)

\* A restart is one of the component the pass looks at, which has attempts left.
RestartFits ==
  /\ supervisor = "new" => toCheck = <<>> /\ restart = "no"
  /\ restart \in {"stop", "start"} =>
       /\ toCheck # <<>> /\ restarts[Head(toCheck)] < MaxRestarts
       /\ restart = "start" => instances[Head(toCheck)] <= orphans[Head(toCheck)]

SupervisorInv == SupervisorTyped /\ NoSecondInstance /\ RestartFits

LEMMA OrderIsManaged == Order \in Seq(Managed) /\ Order # <<>> /\ Head(Order) \in Managed
BY SupervisorAssumption DEF Managed

\* What remains of a sequence.
LEMMA Rest ==
  ASSUME NEW S, NEW q \in Seq(S), q # <<>> PROVE Head(q) \in S /\ Tail(q) \in Seq(S)
OBVIOUS

LEMMA SupervisorInitial == SupervisorInit => SupervisorInv
<1> SUFFICES ASSUME SupervisorInit PROVE SupervisorInv
  OBVIOUS
<1>1. SupervisorTyped
  BY SupervisorAssumption DEF SupervisorInit, SupervisorTyped
<1>2. NoSecondInstance
  BY DEF SupervisorInit, NoSecondInstance
<1>3. QED
  BY <1>1, <1>2 DEF SupervisorInv, RestartFits, SupervisorInit

\* Whatever becomes of a stop_fn, what it leaves alive is left behind by a failure.
LEMMA StopEffect ==
  ASSUME SupervisorTyped, NoSecondInstance, NEW c \in Managed, StopInstance(c)
  PROVE  /\ instances' \in [Managed -> Nat] /\ orphans' \in [Managed -> Nat]
         /\ \A d \in Managed : d # c => instances'[d] = instances[d] /\ orphans'[d] = orphans[d]
         /\ instances'[c] <= orphans'[c]
<1>1. /\ instances \in [Managed -> Nat] /\ orphans \in [Managed -> Nat]
      /\ instances[c] <= 1 + orphans[c]
  BY DEF SupervisorTyped, NoSecondInstance
<1>2. CASE /\ instances' = [instances EXCEPT ![c] = IF @ = 0 THEN 0 ELSE @ - 1]
           /\ UNCHANGED orphans
  <2>1. (IF instances[c] = 0 THEN 0 ELSE instances[c] - 1) \in Nat
    BY <1>1
  <2>2. instances'[c] <= orphans[c]
    BY <1>1, <1>2
  <2>3. QED
    BY <1>1, <1>2, <2>1, <2>2
<1>3. CASE orphans' = [orphans EXCEPT ![c] = instances[c]] /\ UNCHANGED instances
  BY <1>1, <1>3
<1>4. QED
  BY <1>2, <1>3 DEF StopInstance

LEMMA StopKeeps ==
  ASSUME SupervisorTyped, NoSecondInstance, NEW c \in Managed, StopInstance(c)
  PROVE  /\ instances' \in [Managed -> Nat] /\ orphans' \in [Managed -> Nat]
         /\ \A d \in Managed : instances'[d] <= 1 + orphans'[d]
         /\ \A d \in Managed : instances[d] <= orphans[d] => instances'[d] <= orphans'[d]
         /\ instances'[c] <= orphans'[c]
<1>1. /\ instances' \in [Managed -> Nat] /\ orphans' \in [Managed -> Nat]
      /\ \A d \in Managed : d # c => instances'[d] = instances[d] /\ orphans'[d] = orphans[d]
      /\ instances'[c] <= orphans'[c]
  BY StopEffect
<1>2. ASSUME NEW d \in Managed
      PROVE  /\ instances'[d] <= 1 + orphans'[d]
             /\ instances[d] <= orphans[d] => instances'[d] <= orphans'[d]
  <2>1. instances'[d] \in Nat /\ orphans'[d] \in Nat /\ instances[d] <= 1 + orphans[d]
    BY <1>1 DEF NoSecondInstance
  <2>2. CASE d = c
    BY <1>1, <2>1, <2>2
  <2>3. CASE d # c
    BY <1>1, <2>1, <2>3
  <2>4. QED
    BY <2>2, <2>3
<1>3. QED
  BY <1>1, <1>2

\* No step lets a second instance of a component live.
LEMMA SupervisorStep == SupervisorInv /\ [SupervisorNext]_supervisorVars => SupervisorInv'
<1> SUFFICES ASSUME SupervisorInv, [SupervisorNext]_supervisorVars PROVE SupervisorInv'
  OBVIOUS
<1>1. SupervisorTyped /\ NoSecondInstance /\ RestartFits
  BY DEF SupervisorInv
<1>2. /\ instances \in [Managed -> Nat] /\ orphans \in [Managed -> Nat]
      /\ restarts \in [Managed -> 0 .. MaxRestarts] /\ age \in [Managed -> 0 .. 3]
      /\ toCheck \in Seq(Managed) /\ toStop \in Seq(Managed) /\ MaxRestarts \in Nat
      /\ \A c \in Managed : instances[c] <= 1 + orphans[c]
  BY <1>1, SupervisorAssumption DEF SupervisorTyped, NoSecondInstance
<1>3. CASE UNCHANGED supervisorVars
  BY <1>1, <1>3 DEF supervisorVars, SupervisorInv, SupervisorTyped, NoSecondInstance, RestartFits
<1>4. CASE StartAll
  <2>1. /\ instances' \in [Managed -> Nat] /\ age' \in [Managed -> 0 .. 3]
        /\ status' \in [Managed -> {"unknown", "running", "degraded", "failed", "stopping", "stopped"}]
        /\ \A c \in Managed : instances'[c] <= 1
    BY <1>4 DEF StartAll
  <2>2. /\ supervisor = "new" /\ supervisor' = "running"
        /\ UNCHANGED <<restarts, toCheck, restart, toStop, orphans>>
    BY <1>4 DEF StartAll
  <2>3. restart = "no"
    BY <1>1, <2>2 DEF RestartFits
  <2>4. SupervisorTyped'
    BY <1>1, <2>1, <2>2 DEF SupervisorTyped
  <2>5. NoSecondInstance'
    <3>1. \A c \in Managed : instances'[c] \in Nat /\ orphans'[c] \in Nat /\ instances'[c] <= 1
      BY <1>2, <2>1, <2>2
    <3>2. \A c \in Managed : instances'[c] <= 1 + orphans'[c]
      BY <3>1
    <3>3. QED
      BY <3>2 DEF NoSecondInstance
  <2>6. RestartFits'
    BY <2>2, <2>3 DEF RestartFits
  <2>7. QED
    BY <2>4, <2>5, <2>6 DEF SupervisorInv
<1>5. CASE Tick
  <2>1. age' \in [Managed -> 0 .. 3]
    <3>1. \A c \in Managed : (IF age[c] < 2 THEN age[c] + 1 ELSE age[c]) \in 0 .. 3
      BY <1>2
    <3>2. QED
      BY <1>5, <3>1 DEF Tick
  <2>2. QED
    BY <1>1, <1>5, <2>1 DEF Tick, SupervisorInv, SupervisorTyped, NoSecondInstance, RestartFits
<1>6. ASSUME NEW c \in Managed, RecordHeartbeat(c) PROVE SupervisorInv'
  <2>1. age' \in [Managed -> 0 .. 3]
    <3>1. age' = [age EXCEPT ![c] = 0] /\ 0 \in 0 .. 3
      BY <1>6 DEF RecordHeartbeat
    <3>2. QED
      BY <1>2, <3>1
  <2>2. QED
    BY <1>1, <1>6, <2>1 DEF RecordHeartbeat, SupervisorInv, SupervisorTyped, NoSecondInstance, RestartFits
<1>7. ASSUME NEW c \in Managed, Die(c) PROVE SupervisorInv'
  <2>1. /\ instances[c] > 0 /\ instances' = [instances EXCEPT ![c] = instances[c] - 1]
        /\ orphans' = [orphans EXCEPT ![c] = IF orphans[c] > 0 THEN orphans[c] - 1 ELSE orphans[c]]
        /\ UNCHANGED <<supervisor, status, restarts, age, toCheck, restart, toStop>>
    BY <1>2, <1>7 DEF Die
  <2>2. /\ instances[c] \in Nat /\ orphans[c] \in Nat /\ instances[c] - 1 \in Nat
        /\ (IF orphans[c] > 0 THEN orphans[c] - 1 ELSE orphans[c]) \in Nat
    BY <1>2, <2>1
  <2>3. instances' \in [Managed -> Nat] /\ orphans' \in [Managed -> Nat]
    BY <1>2, <2>1, <2>2
  <2>4. ASSUME NEW d \in Managed
        PROVE  /\ instances'[d] <= 1 + orphans'[d]
               /\ instances[d] <= orphans[d] => instances'[d] <= orphans'[d]
    <3>1. /\ instances[d] \in Nat /\ orphans[d] \in Nat /\ instances[d] <= 1 + orphans[d]
          /\ instances'[d] = IF d = c THEN instances[d] - 1 ELSE instances[d]
          /\ orphans'[d] = IF d = c /\ orphans[d] > 0 THEN orphans[d] - 1 ELSE orphans[d]
      BY <1>2, <2>1
    <3>2. QED
      BY <2>2, <3>1, SMTT(30)
  <2>5. toCheck # <<>> => Head(toCheck) \in Managed
    BY <1>2, Rest
  <2>6. SupervisorTyped' /\ NoSecondInstance'
    BY <1>1, <2>1, <2>3, <2>4 DEF SupervisorTyped, NoSecondInstance
  <2>7. RestartFits'
    <3>1. UNCHANGED <<supervisor, toCheck, restart, restarts>>
      BY <2>1
    <3>2. CASE restart = "start"
      <4>1. /\ toCheck # <<>> /\ restarts[Head(toCheck)] < MaxRestarts
            /\ instances[Head(toCheck)] <= orphans[Head(toCheck)]
        BY <1>1, <3>2 DEF RestartFits
      <4> PICK h \in Managed : h = Head(toCheck)
        BY <2>5, <4>1
      <4>2. instances[h] <= orphans[h]
        BY <4>1
      <4>3. instances'[h] <= orphans'[h]
        BY <2>4, <4>2
      <4>4. QED
        BY <1>1, <3>1, <3>2, <4>1, <4>3 DEF RestartFits
    <3>3. CASE restart # "start"
      BY <1>1, <3>1, <3>3 DEF RestartFits
    <3>4. QED
      BY <3>2, <3>3
  <2>8. QED
    BY <2>6, <2>7 DEF SupervisorInv
<1>8. CASE BeginPass
  BY <1>1, <1>8, OrderIsManaged DEF BeginPass, SupervisorInv, SupervisorTyped, NoSecondInstance, RestartFits
<1>9. CASE CheckHeartbeat
  <2> DEFINE h == Head(toCheck)
             isLate == Watched(h) /\ looked[h] \in {1, 2}
             overdue == isLate /\ looked[h] = 2
             spent == restarts[h] >= MaxRestarts
  <2>1. /\ toCheck # <<>> /\ restart = "no" /\ h \in Managed /\ Tail(toCheck) \in Seq(Managed)
        /\ supervisor # "new"
    BY <1>1, <1>2, <1>9, Rest DEF CheckHeartbeat, RestartFits
  <2>2. /\ \/ restart' = "no" /\ toCheck' = Tail(toCheck)
           \/ ~ spent /\ restart' = "stop" /\ toCheck' = toCheck
           \/ restart' = "cut" /\ toCheck' = <<>>
        /\ UNCHANGED <<supervisor, instances, restarts, age, toStop, orphans>>
    BY <1>9 DEF CheckHeartbeat, FailureReported
  <2>3. status' \in [Managed -> {"unknown", "running", "degraded", "failed", "stopping", "stopped"}]
    <3>1. status' = [status EXCEPT ![h] = IF overdue /\ spent THEN "failed"
                       ELSE IF isLate /\ status[h] = "running" THEN "degraded" ELSE status[h]]
      BY <1>1, <1>9, <2>1 DEF CheckHeartbeat, SupervisorTyped
    <3>2. status[h] \in {"unknown", "running", "degraded", "failed", "stopping", "stopped"}
      BY <1>1, <2>1 DEF SupervisorTyped
    <3> HIDE DEF isLate, overdue, spent
    <3>3. QED
      BY <1>1, <3>1, <3>2 DEF SupervisorTyped
  <2>4. ~ spent => restarts[h] < MaxRestarts
    BY <1>2, <2>1
  <2> HIDE DEF overdue, spent
  <2>5. SupervisorTyped'
    <3>1. <<>> \in Seq(Managed) /\ toCheck \in Seq(Managed)
      BY <1>1 DEF SupervisorTyped
    <3>2. toCheck' \in Seq(Managed) /\ restart' \in {"no", "stop", "start", "hung", "cut"}
      BY <2>1, <2>2, <3>1
    <3>3. QED
      BY <1>1, <2>2, <2>3, <3>2 DEF SupervisorTyped
  <2>6. NoSecondInstance'
    BY <1>1, <2>2 DEF NoSecondInstance
  <2>7. RestartFits'
    BY <2>1, <2>2, <2>4 DEF RestartFits
  <2>8. QED
    BY <2>5, <2>6, <2>7 DEF SupervisorInv
<1>10. CASE RestartStop
  <2>1. /\ restart = "stop" /\ restart' = "start" /\ StopInstance(Head(toCheck))
        /\ UNCHANGED <<supervisor, status, restarts, age, toCheck, toStop>>
    BY <1>10 DEF RestartStop
  <2>2. toCheck # <<>> /\ Head(toCheck) \in Managed /\ supervisor # "new"
    BY <1>1, <1>2, <2>1, Rest DEF RestartFits
  <2>3. /\ instances' \in [Managed -> Nat] /\ orphans' \in [Managed -> Nat]
        /\ \A d \in Managed : instances'[d] <= 1 + orphans'[d]
        /\ instances'[Head(toCheck)] <= orphans'[Head(toCheck)]
    BY <1>1, <2>1, <2>2, StopKeeps
  <2>4. SupervisorTyped' /\ NoSecondInstance'
    BY <1>1, <2>1, <2>3 DEF SupervisorTyped, NoSecondInstance
  <2>5. RestartFits'
    BY <1>1, <2>1, <2>2, <2>3 DEF RestartFits
  <2>6. QED
    BY <2>4, <2>5 DEF SupervisorInv
<1>11. CASE RestartStart
  <2> DEFINE h == Head(toCheck)
  <2>1. /\ restart = "start"
        /\ \/ restart' = "no" /\ toCheck' = Tail(toCheck)
           \/ restart' = "cut" /\ toCheck' = <<>>
    BY <1>11 DEF RestartStart, FailureReported
  <2>2. /\ toCheck # <<>> /\ h \in Managed /\ Tail(toCheck) \in Seq(Managed)
        /\ supervisor # "new" /\ restarts[h] < MaxRestarts /\ instances[h] <= orphans[h]
    BY <1>1, <1>2, <2>1, Rest DEF RestartFits
  <2>3. UNCHANGED <<supervisor, toStop, orphans>>
    BY <1>11 DEF RestartStart
  <2>t. toCheck' \in Seq(Managed) /\ restart' \in {"no", "cut"} /\ RestartFits'
    <3>1. <<>> \in Seq(Managed)
      OBVIOUS
    <3>2. toCheck' \in Seq(Managed) /\ restart' \in {"no", "cut"}
      BY <2>1, <2>2, <3>1
    <3>3. QED
      BY <2>2, <2>3, <3>2 DEF RestartFits
  <2>s. status' \in [Managed -> {"unknown", "running", "degraded", "failed", "stopping", "stopped"}]
    <3> HIDE DEF h
    <3>1. status' = [status EXCEPT ![h] = "running"] \/ status' = [status EXCEPT ![h] = "failed"]
      BY <1>11 DEF RestartStart, h
    <3>2. QED
      BY <1>1, <3>1 DEF SupervisorTyped
  <2>4. CASE /\ status' = [status EXCEPT ![h] = "running"]
             /\ restarts' = [restarts EXCEPT ![h] = @ + 1]
             /\ instances' = [instances EXCEPT ![h] = @ + 1]
             /\ age' = [age EXCEPT ![h] = 0]
    <3>1. restarts[h] + 1 \in 0 .. MaxRestarts
      <4>1. restarts[h] \in 0 .. MaxRestarts /\ restarts[h] < MaxRestarts /\ MaxRestarts \in Nat
        BY <1>2, <2>2
      <4>2. QED
        BY <4>1
    <3>2. /\ restarts' \in [Managed -> 0 .. MaxRestarts] /\ instances' \in [Managed -> Nat]
          /\ \A d \in Managed : instances'[d] <= 1 + orphans[d]
      <4>1. /\ restarts' = [restarts EXCEPT ![h] = restarts[h] + 1]
            /\ instances' = [instances EXCEPT ![h] = instances[h] + 1]
            /\ instances[h] \in Nat /\ orphans[h] \in Nat /\ instances[h] + 1 \in Nat
        <5>1. instances[h] \in Nat /\ orphans[h] \in Nat
          BY <1>2, <2>2
        <5>2. QED
          BY <2>4, <5>1
      <4> HIDE DEF h
      <4>2. restarts' \in [Managed -> 0 .. MaxRestarts]
        BY <1>2, <2>2, <3>1, <4>1
      <4>3. instances' \in [Managed -> Nat]
        BY <1>2, <4>1
      <4>4. \A d \in Managed : instances'[d] = IF d = h THEN instances[h] + 1 ELSE instances[d]
        BY <1>2, <4>1
      <4>5. ASSUME NEW d \in Managed PROVE instances'[d] <= 1 + orphans[d]
        <5>1. instances[d] <= 1 + orphans[d]
          BY <1>2
        <5>2. instances[h] + 1 <= 1 + orphans[h]
          BY <2>2, <4>1
        <5>3. QED
          BY <4>4, <5>1, <5>2
      <4>6. QED
        BY <4>2, <4>3, <4>5
    <3>3. age' \in [Managed -> 0 .. 3]
      <4>1. age' = [age EXCEPT ![h] = 0] /\ 0 \in 0 .. 3
        BY <2>4
      <4> HIDE DEF h
      <4>2. QED
        BY <1>2, <4>1
    <3>4. QED
      <4>1. SupervisorTyped'
        BY <1>1, <2>3, <2>t, <2>s, <3>2, <3>3 DEF SupervisorTyped
      <4>2. NoSecondInstance'
        BY <2>3, <3>2 DEF NoSecondInstance
      <4>3. QED
        BY <2>t, <4>1, <4>2 DEF SupervisorInv
  <2>5. CASE status' = [status EXCEPT ![h] = "failed"] /\ UNCHANGED <<restarts, instances, age>>
    <3>1. SupervisorTyped'
      BY <1>1, <2>3, <2>5, <2>t, <2>s DEF SupervisorTyped
    <3>2. NoSecondInstance'
      BY <1>1, <2>3, <2>5 DEF NoSecondInstance
    <3>3. QED
      BY <2>t, <3>1, <3>2 DEF SupervisorInv
  <2>6. QED
    BY <1>11, <2>4, <2>5 DEF RestartStart
<1>12. CASE Stop
  BY <1>1, <1>12, OrderIsManaged DEF Stop, SupervisorInv, SupervisorTyped, NoSecondInstance, RestartFits
<1>13. CASE StopNextOne
  <2> DEFINE h == Head(toStop)
  <2>1. /\ supervisor = "stopping" /\ StopInstance(h) /\ toStop' = Tail(toStop)
        /\ UNCHANGED <<supervisor, restarts, age, toCheck, restart>>
    BY <1>13 DEF StopNextOne
  <2>2. h \in Managed /\ Tail(toStop) \in Seq(Managed)
    BY <1>2, <1>13, Rest DEF StopNextOne
  <2>3. status' \in [Managed -> {"unknown", "running", "degraded", "failed", "stopping", "stopped"}]
    BY <1>1, <1>13 DEF StopNextOne, SupervisorTyped
  <2>4. /\ instances' \in [Managed -> Nat] /\ orphans' \in [Managed -> Nat]
        /\ \A d \in Managed : /\ instances'[d] <= 1 + orphans'[d]
                              /\ instances[d] <= orphans[d] => instances'[d] <= orphans'[d]
    BY <1>1, <2>1, <2>2, StopKeeps
  <2>5. toCheck # <<>> => Head(toCheck) \in Managed
    BY <1>2, Rest
  <2>6. SupervisorTyped' /\ NoSecondInstance'
    BY <1>1, <2>1, <2>2, <2>3, <2>4 DEF SupervisorTyped, NoSecondInstance
  <2>7. RestartFits'
    BY <1>1, <2>1, <2>4, <2>5 DEF RestartFits
  <2>8. QED
    BY <2>6, <2>7 DEF SupervisorInv
<1>14. CASE CancelLoops
  BY <1>1, <1>14 DEF CancelLoops, SupervisorInv, SupervisorTyped, NoSecondInstance, RestartFits
<1>15. CASE RestartHangs
  BY <1>1, <1>15 DEF RestartHangs, SupervisorInv, SupervisorTyped, NoSecondInstance, RestartFits
<1>16. QED
  BY <1>3, <1>4, <1>5, <1>6, <1>7, <1>8, <1>9, <1>10, <1>11, <1>12, <1>13, <1>14, <1>15
     DEF SupervisorNext, LoopStep

\* The invariant of a supervisor, whatever fails or dies.
THEOREM SupervisorInvariance == SupervisorSpec => []SupervisorInv
BY SupervisorInitial, SupervisorStep, PTL DEF SupervisorSpec

\* Components, heartbeats and counters keep their types.
THEOREM SupervisorTypeCorrect == SupervisorSpec => []SupervisorTypeOK
<1>1. SupervisorInv => SupervisorTypeOK
  BY DEF SupervisorInv, SupervisorTyped, SupervisorTypeOK
<1>2. QED
  BY <1>1, SupervisorInvariance, PTL

\* A restart that races stop() never leaves a second instance of a component,
\* but for those whose stop failed.
THEOREM OneInstance == SupervisorSpec => []NoSecondInstance
<1>1. SupervisorInv => NoSecondInstance
  BY DEF SupervisorInv
<1>2. QED
  BY <1>1, SupervisorInvariance, PTL

\* No component is restarted more often than max_restart_attempts.
THEOREM RestartsAreBounded == SupervisorSpec => []RestartsBounded
<1>1. SupervisorInv => RestartsBounded
  BY SupervisorAssumption DEF SupervisorInv, SupervisorTyped, RestartsBounded
<1>2. QED
  BY <1>1, SupervisorInvariance, PTL

-----------------------------------------------------------------------------
(***************************************************************************)
(* The token bucket of RequestScheduler: what is granted was in the bucket at*)
(* first or was earned since, and the rate is within its bounds.           *)
(***************************************************************************)

LEMMA LargerOfTwo ==
  ASSUME NEW a \in Int, NEW b \in Int PROVE Max({a, b}) = IF a <= b THEN b ELSE a
<1>1. {a, b} \in SUBSET Int /\ IsFiniteSet({a, b}) /\ {a, b} # {}
  <2>1. {a, b} = {a} \cup {b}
    OBVIOUS
  <2>2. IsFiniteSet({a}) /\ IsFiniteSet({b})
    BY FS_Singleton
  <2>3. QED
    BY <2>1, <2>2, FS_Union
<1>2. Max({a, b}) \in {a, b} /\ \A n \in {a, b} : n <= Max({a, b})
  BY <1>1, Extremes
<1>3. QED
  BY <1>2

\* What was given away and what is left is the burst and what was filled in since; and
\* that is at most what the rate allowed until the last refill.
RateInv ==
  /\ tokens \in 0 .. Burst /\ currentRate \in 1 .. Rate /\ lastRate = currentRate
  /\ errorsSeen \in 0 .. 3 /\ limitsSeen \in 0 .. 2 /\ requestsQueued \in 0 .. MaxRequests
  /\ granted \in Nat /\ earned \in Nat /\ second \in Nat /\ idle \in 0 .. second
  /\ granted + tokens = Burst + earned
  /\ earned <= Rate * (second - idle)

LEMMA RateInitial == RateInit => RateInv
<1>1. Rate * (0 - 0) = 0
  BY SchedulingAssumption
<1>2. QED
  BY <1>1, SchedulingAssumption DEF RateInit, RateInv

\* The arithmetic of a refill.
LEMMA RefillFits ==
  ASSUME NEW r \in Nat, NEW rate \in 1 .. r, NEW idleFor \in Nat, NEW upTo \in Nat, idleFor <= upTo,
         NEW e \in Nat, e <= r * (upTo - idleFor)
  PROVE  idleFor * rate \in Nat /\ e + idleFor * rate <= r * upTo
<1>1. idleFor * rate <= idleFor * r
  <2>1. idleFor * (r - rate) >= 0 /\ idleFor * r = idleFor * rate + idleFor * (r - rate)
    OBVIOUS
  <2>2. idleFor * rate \in Nat /\ idleFor * r \in Nat /\ idleFor * (r - rate) \in Int
    OBVIOUS
  <2>3. QED
    BY <2>1, <2>2
<1>2. r * (upTo - idleFor) + idleFor * r = r * upTo
  OBVIOUS
<1>3. idleFor * rate \in Nat /\ idleFor * r \in Nat /\ r * upTo \in Nat /\ r * (upTo - idleFor) \in Int
  OBVIOUS
<1> DEFINE a == idleFor * rate
           b == idleFor * r
           c == r * upTo
           d == r * (upTo - idleFor)
<1>4. a \in Nat /\ b \in Nat /\ c \in Nat /\ d \in Int /\ a <= b /\ d + b = c /\ e <= d
  BY <1>1, <1>2, <1>3
<1>5. a \in Nat /\ e + a <= c
  <2> HIDE DEF a, b, c, d
  <2>1. QED
    BY <1>4
<1>6. QED
  BY <1>5

LEMMA RateStep == RateInv /\ [RateNext \/ SyncNext]_schedulingVars => RateInv'
<1>1. SUFFICES ASSUME RateInv, [RateNext \/ SyncNext]_schedulingVars PROVE RateInv'
  OBVIOUS
<1>t. /\ tokens \in 0 .. Burst /\ currentRate \in 1 .. Rate /\ lastRate = currentRate
      /\ errorsSeen \in 0 .. 3 /\ limitsSeen \in 0 .. 2 /\ requestsQueued \in 0 .. MaxRequests
      /\ granted \in Nat /\ earned \in Nat /\ second \in Nat /\ idle \in 0 .. second
      /\ granted + tokens = Burst + earned
      /\ earned <= Rate * (second - idle)
  BY <1>1 DEF RateInv
<1>c. Rate \in Nat \ {0} /\ Burst \in Nat /\ MaxRequests \in Nat
  BY SchedulingAssumption
<1>2. ASSUME UNCHANGED <<rateVars, queueVars>> PROVE RateInv'
  BY <1>1, <1>2 DEF RateInv, rateVars, queueVars
<1>3. ASSUME SecondPasses PROVE RateInv'
  <2>1. /\ second' = second + 1 /\ idle' = idle + 1
        /\ UNCHANGED <<tokens, currentRate, lastRate, errorsSeen, limitsSeen, granted, earned, requestsQueued>>
    BY <1>3 DEF SecondPasses, queueVars
  <2>2. (second + 1) - (idle + 1) = second - idle /\ idle + 1 \in 0 .. second + 1
    BY <1>t
  <2>3. Rate * (second' - idle') = Rate * (second - idle)
    BY <2>1, <2>2
  <2>4. QED
    BY <1>t, <2>1, <2>2, <2>3 DEF RateInv
<1>4. ASSUME Acquire PROVE RateInv'
  <2> DEFINE filled == Min({tokens + idle * currentRate, Burst})
  <2>1. PICK n \in 1 .. Burst :
          /\ tokens' = IF filled >= n THEN filled - n ELSE filled
          /\ granted' = IF filled >= n THEN granted + n ELSE granted
          /\ earned' = earned + filled - tokens
          /\ idle' = 0
          /\ UNCHANGED <<currentRate, lastRate, errorsSeen, limitsSeen, second, requestsQueued>>
    BY <1>4 DEF Acquire, queueVars
  <2>2. idle * currentRate \in Nat /\ earned + idle * currentRate <= Rate * second
    BY <1>t, <1>c, RefillFits
  <2>3. filled \in Nat /\ filled <= Burst /\ tokens <= filled /\ filled <= tokens + idle * currentRate
    <3>1. tokens + idle * currentRate \in Nat /\ tokens <= tokens + idle * currentRate
      BY <1>t, <2>2
    <3>2. filled = IF tokens + idle * currentRate <= Burst THEN tokens + idle * currentRate ELSE Burst
      BY <1>c, <3>1, SmallerOfTwo
    <3> HIDE DEF filled
    <3>3. QED
      BY <1>t, <1>c, <3>1, <3>2
  <2>4. earned + filled - tokens \in Nat /\ earned + filled - tokens <= Rate * second
    <3>1. Rate * second \in Nat
      BY <1>t, <1>c
    <3> DEFINE got == idle * currentRate
               most == Rate * second
    <3>2. got \in Nat /\ most \in Nat /\ earned + got <= most /\ filled <= tokens + got /\ tokens <= filled
          /\ filled \in Nat
      BY <2>2, <2>3, <3>1
    <3>3. earned + filled - tokens \in Nat /\ earned + filled - tokens <= most
      <4> HIDE DEF got, most, filled
      <4>1. QED
        BY <1>t, <3>2
    <3>4. QED
      BY <3>3
  <2>5. Rate * (second' - idle') = Rate * second /\ second' \in Nat /\ idle' \in 0 .. second'
    <3>1. second' - idle' = second
      BY <1>t, <2>1
    <3>2. QED
      BY <1>t, <2>1, <3>1
  <2>6. /\ tokens' \in 0 .. Burst /\ granted' \in Nat /\ earned' \in Nat
        /\ granted' + tokens' = Burst + earned'
    <3> HIDE DEF filled
    <3>1. QED
      BY <1>t, <1>c, <2>1, <2>3, <2>4
  <2>7. earned' <= Rate * (second' - idle')
    BY <2>1, <2>4, <2>5
  <2>8. QED
    BY <1>t, <2>1, <2>5, <2>6, <2>7 DEF RateInv
<1>5. ASSUME Enqueue PROVE RateInv'
  <2>1. requestsQueued < MaxRequests /\ requestsQueued' = requestsQueued + 1
        /\ UNCHANGED <<tokens, currentRate, lastRate, errorsSeen, limitsSeen, granted, earned, second, idle>>
    BY <1>5 DEF Enqueue, rateVars
  <2>2. QED
    BY <1>t, <1>c, <2>1 DEF RateInv
<1>6. ASSUME NEW s \in {"limited", "failed", "ok"}, OnResponse(s) PROVE RateInv'
  <2>1. UNCHANGED <<tokens, granted, earned, second, idle, requestsQueued>>
    BY <1>6 DEF OnResponse, queueVars
  <2>2. errorsSeen' \in 0 .. 3 /\ limitsSeen' \in 0 .. 2
    <3>1. /\ errorsSeen' = IF s = "ok" THEN 0 ELSE Min({3, errorsSeen + 1})
          /\ limitsSeen' = CASE s = "limited" -> Min({2, limitsSeen + 1})
                             [] s = "failed" -> limitsSeen
                             [] OTHER -> 0
      BY <1>6 DEF OnResponse
    <3>2. Min({3, errorsSeen + 1}) \in 0 .. 3 /\ Min({2, limitsSeen + 1}) \in 0 .. 2
      <4>1. Min({3, errorsSeen + 1}) = IF 3 <= errorsSeen + 1 THEN 3 ELSE errorsSeen + 1
        BY <1>t, SmallerOfTwo
      <4>2. Min({2, limitsSeen + 1}) = IF 2 <= limitsSeen + 1 THEN 2 ELSE limitsSeen + 1
        BY <1>t, SmallerOfTwo
      <4>3. QED
        BY <1>t, <4>1, <4>2
    <3>3. QED
      BY <1>6, <1>t, <3>1, <3>2
  <2>3. BackOff \/ RecoverRate \/ UNCHANGED <<lastRate, currentRate>>
    BY <1>6 DEF OnResponse
  <2>4. currentRate' \in 1 .. Rate /\ lastRate' = currentRate'
    <3>1. CASE BackOff
      <4>1. currentRate \div 2 \in 0 .. currentRate
        BY <1>t
      <4>2. Max({1, currentRate \div 2}) = IF 1 <= currentRate \div 2 THEN currentRate \div 2 ELSE 1
        BY <4>1, LargerOfTwo
      <4>3. Max({1, currentRate \div 2}) \in 1 .. Rate
        BY <1>t, <1>c, <4>1, <4>2
      <4>4. QED
        BY <1>t, <3>1, <4>3 DEF BackOff
    <3>2. CASE RecoverRate
      <4>1. (6 * lastRate) \div 5 \in Nat /\ 1 <= (6 * lastRate) \div 5
        BY <1>t
      <4>2. Min({Rate, (6 * lastRate) \div 5}) = IF Rate <= (6 * lastRate) \div 5 THEN Rate ELSE (6 * lastRate) \div 5
        BY <1>c, <4>1, SmallerOfTwo
      <4>3. Min({Rate, (6 * lastRate) \div 5}) \in 1 .. Rate
        BY <1>c, <4>1, <4>2
      <4>4. QED
        BY <3>2, <4>3 DEF RecoverRate
    <3>3. CASE UNCHANGED <<lastRate, currentRate>>
      BY <1>t, <3>3
    <3>4. QED
      BY <2>3, <3>1, <3>2, <3>3
  <2>5. Rate * (second' - idle') = Rate * (second - idle)
    BY <2>1
  <2>6. QED
    BY <1>t, <2>1, <2>2, <2>4, <2>5 DEF RateInv
<1>7. QED
  BY <1>1, <1>2, <1>3, <1>4, <1>5, <1>6 DEF RateNext, SyncNext, Sync, schedulingVars, rateVars, queueVars

-----------------------------------------------------------------------------
(***************************************************************************)
(* TimeSyncEngine: the offset is the median of the samples, which one of them*)
(* does not move out of the others.                                        *)
(***************************************************************************)

\* From the first sync on there are enough samples, and the offset is their median.
SyncInv ==
  /\ samples \in Seq(Readings) /\ Len(samples) <= 2 * SyncSamples
  /\ syncCount \in 0 .. 3
  /\ syncCount > 0 => Len(samples) >= SyncSamples /\ offset = Median(samples)

LEMMA SyncInitial == SyncInit => SyncInv
BY SchedulingAssumption DEF SyncInit, SyncInv

LEMMA SyncStep == SyncInv /\ [RateNext \/ SyncNext]_schedulingVars => SyncInv'
<1>1. SUFFICES ASSUME SyncInv, [RateNext \/ SyncNext]_schedulingVars PROVE SyncInv'
  OBVIOUS
<1>2. ASSUME UNCHANGED syncVars PROVE SyncInv'
  BY <1>1, <1>2 DEF SyncInv, syncVars, Median
<1>3. ASSUME Sync PROVE SyncInv'
  <2>1. PICK sample \in Readings :
          LET all == Append(samples, sample)
              kept == IF Len(all) > 2 * SyncSamples
                      THEN SubSeq(all, Len(all) - SyncSamples + 1, Len(all)) ELSE all
              ready == Len(all) >= SyncSamples IN
          /\ samples' = kept
          /\ offset' = IF ready THEN Median(kept) ELSE offset
          /\ syncCount' = IF ready THEN Min({3, syncCount + 1}) ELSE syncCount
    BY <1>3 DEF Sync
  <2> DEFINE all == Append(samples, sample)
             most == SubSeq(all, Len(all) - SyncSamples + 1, Len(all))
             ready == Len(all) >= SyncSamples
  <2>2. SyncSamples \in Nat \ {0}
    BY SchedulingAssumption
  <2>3. samples \in Seq(Readings) /\ Len(samples) <= 2 * SyncSamples /\ syncCount \in 0 .. 3
        /\ (syncCount > 0 => Len(samples) >= SyncSamples /\ offset = Median(samples))
    BY <1>1 DEF SyncInv
  <2>4. all \in Seq(Readings) /\ Len(all) = Len(samples) + 1 /\ Len(samples) \in Nat /\ Len(all) \in Nat
    BY <2>3
  <2>5. ASSUME Len(all) > 2 * SyncSamples PROVE most \in Seq(Readings) /\ Len(most) = SyncSamples
    <3> DEFINE first == Len(all) - SyncSamples + 1
    <3>1. first \in 1 .. Len(all) + 1 /\ Len(all) \in first - 1 .. Len(all)
          /\ Len(all) - first + 1 = SyncSamples
      BY <2>2, <2>4, <2>5
    <3>2. \A i \in 1 .. Len(all) : all[i] \in Readings
      BY <2>4
    <3> HIDE DEF all
    <3>3. most \in Seq(Readings) /\ Len(most) = IF first <= Len(all) THEN Len(all) - first + 1 ELSE 0
      BY <2>4, <3>1, SubSeqProperties
    <3>4. first <= Len(all)
      BY <2>2, <2>4
    <3>5. QED
      BY <3>1, <3>3, <3>4
  <2>6. /\ samples' \in Seq(Readings) /\ Len(samples') <= 2 * SyncSamples
        /\ ready => Len(samples') >= SyncSamples
    <3>1. samples' = IF Len(all) > 2 * SyncSamples THEN most ELSE all
      BY <2>1
    <3>2. CASE Len(all) > 2 * SyncSamples
      <4>1. samples' = most /\ most \in Seq(Readings) /\ Len(most) = SyncSamples
        BY <2>5, <3>1, <3>2
      <4> HIDE DEF most, all
      <4>2. QED
        BY <2>2, <4>1
    <3>3. CASE ~ (Len(all) > 2 * SyncSamples)
      <4>1. samples' = all
        BY <3>1, <3>3
      <4> HIDE DEF all
      <4>2. QED
        BY <2>2, <2>4, <3>3, <4>1
    <3>4. QED
      BY <3>2, <3>3
  <2>7. CASE ready
    <3>1. offset' = Median(samples')
      BY <2>1, <2>7
    <3>2. syncCount' \in 0 .. 3
      <4>1. Min({3, syncCount + 1}) = IF 3 <= syncCount + 1 THEN 3 ELSE syncCount + 1
        BY <2>3, SmallerOfTwo
      <4>2. Min({3, syncCount + 1}) \in 0 .. 3
        BY <2>3, <4>1
      <4>3. QED
        BY <2>1, <2>7, <4>2
    <3>3. Median(samples)' = Median(samples')
      BY DEF Median
    <3> HIDE DEF all
    <3>4. QED
      BY <2>6, <2>7, <3>1, <3>2, <3>3 DEF SyncInv
  <2>8. CASE ~ ready
    <3>1. syncCount' = syncCount /\ syncCount = 0
      BY <2>1, <2>2, <2>3, <2>4, <2>8
    <3>2. QED
      BY <2>3, <2>6, <3>1 DEF SyncInv
  <2>9. QED
    BY <2>7, <2>8
<1>4. QED
  BY <1>1, <1>2, <1>3
  DEF RateNext, SyncNext, schedulingVars, SecondPasses, Acquire, Enqueue, OnResponse

\* Half of the samples are not above the median, and half of them not below.
LEMMA MedianIsMiddle ==
  ASSUME NEW q \in Seq(Int), Len(q) > 0
  PROVE  /\ Median(q) \in Int
         /\ \E under, upTo \in SUBSET DOMAIN q :
              /\ \A j \in DOMAIN q : (j \in under <=> q[j] < Median(q)) /\ (j \in upTo <=> q[j] <= Median(q))
              /\ Cardinality(under) <= Len(q) \div 2 /\ Len(q) \div 2 < Cardinality(upTo)
<1> DEFINE D == DOMAIN q
           Middle(m) == /\ Cardinality({i \in D : q[i] < m}) <= Len(q) \div 2
                        /\ Len(q) \div 2 < Cardinality({i \in D : q[i] <= m})
<1>1. D = 1 .. Len(q) /\ Len(q) \in Nat /\ IsFiniteSet(D) /\ Cardinality(D) = Len(q) /\ q \in [D -> Int]
  <2>1. D = 1 .. Len(q) /\ Len(q) \in Nat /\ q \in [D -> Int]
    OBVIOUS
  <2>2. IsFiniteSet(1 .. Len(q)) /\ Cardinality(1 .. Len(q)) = Len(q)
    BY <2>1, FS_Interval
  <2>3. QED
    BY <2>1, <2>2
<1>2. Len(q) \div 2 \in Nat /\ Len(q) \div 2 < Len(q)
  BY <1>1
<1>3. \E i \in D : Middle(q[i])
  <2> DEFINE half == Len(q) \div 2
  <2>1. half \in Nat /\ half < Cardinality(D)
    BY <1>1, <1>2
  <2> HIDE DEF D, half
  <2>2. PICK i \in D, under \in SUBSET D, upTo \in SUBSET D :
          /\ \A j \in D : (j \in under <=> q[j] < q[i]) /\ (j \in upTo <=> q[j] <= q[i])
          /\ Cardinality(under) <= half /\ half < Cardinality(upTo)
    BY <1>1, <2>1, OrderStatistic
  <2>3. under = {j \in D : q[j] < q[i]} /\ upTo = {j \in D : q[j] <= q[i]}
    BY <2>2
  <2>4. Cardinality({j \in D : q[j] < q[i]}) <= half /\ half < Cardinality({j \in D : q[j] <= q[i]})
    BY <2>2, <2>3
  <2>5. QED
    BY <2>4 DEF half
<1>4. ToSet(q) = {q[i] : i \in D}
  BY Zenon DEF ToSet
<1>5. \E m \in ToSet(q) : Middle(m)
  <2> HIDE DEF Middle
  <2>1. QED
    BY <1>3, <1>4
<1>6. Median(q) = CHOOSE m \in ToSet(q) : Middle(m)
  BY DEF Median
<1>7. Median(q) \in ToSet(q) /\ Middle(Median(q))
  <2> HIDE DEF Middle
  <2>1. QED
    BY <1>5, <1>6
<1>8. Median(q) \in Int
  BY <1>1, <1>4, <1>7
<1>9. QED
  <2> DEFINE under == {j \in D : q[j] < Median(q)}
             upTo == {j \in D : q[j] <= Median(q)}
  <2>1. under \in SUBSET D /\ upTo \in SUBSET D
        /\ \A j \in D : (j \in under <=> q[j] < Median(q)) /\ (j \in upTo <=> q[j] <= Median(q))
    OBVIOUS
  <2>2. Cardinality(under) <= Len(q) \div 2 /\ Len(q) \div 2 < Cardinality(upTo)
    BY <1>7
  <2> HIDE DEF under, upTo
  <2>3. QED
    BY <1>8, <2>1, <2>2

LEMMA OtherIndex ==
  ASSUME NEW q \in Seq(Int), NEW i \in DOMAIN q, NEW T \in SUBSET DOMAIN q,
         IsFiniteSet(T), Cardinality(T) >= 2
  PROVE  \E j \in T : j # i
BY AnotherOne

\* Whichever sample is left out, there is one that is not above the median and one that
\* is not below.
LEMMA MedianAmongOthers ==
  ASSUME NEW q \in Seq(Int), Len(q) >= 3, NEW i \in DOMAIN q
  PROVE  \E j, k \in DOMAIN q \ {i} : q[j] <= Median(q) /\ Median(q) <= q[k]
<1>1. Len(q) \in Nat /\ DOMAIN q = 1 .. Len(q) /\ IsFiniteSet(DOMAIN q) /\ Cardinality(DOMAIN q) = Len(q)
  <2>1. DOMAIN q = 1 .. Len(q) /\ Len(q) \in Nat
    OBVIOUS
  <2>2. IsFiniteSet(1 .. Len(q)) /\ Cardinality(1 .. Len(q)) = Len(q)
    BY <2>1, UpToN
  <2>3. QED
    BY <2>1, <2>2
<1>2. PICK under \in SUBSET DOMAIN q, upTo \in SUBSET DOMAIN q :
        /\ \A j \in DOMAIN q : (j \in under <=> q[j] < Median(q)) /\ (j \in upTo <=> q[j] <= Median(q))
        /\ Cardinality(under) <= Len(q) \div 2 /\ Len(q) \div 2 < Cardinality(upTo)
  <2>1. Len(q) > 0
    BY <1>1
  <2>2. QED
    BY <2>1, MedianIsMiddle
<1>m. Median(q) \in Int
  <2>1. Len(q) > 0
    BY <1>1
  <2>2. QED
    BY <2>1, MedianIsMiddle
<1> DEFINE above == DOMAIN q \ under
<1>3. /\ IsFiniteSet(upTo) /\ Cardinality(upTo) \in Nat
      /\ IsFiniteSet(under) /\ Cardinality(under) \in Nat
      /\ IsFiniteSet(above) /\ Cardinality(above) = Len(q) - Cardinality(under)
  <2>1. above \in SUBSET DOMAIN q /\ DOMAIN q \cap under = under
    OBVIOUS
  <2>2. IsFiniteSet(upTo) /\ IsFiniteSet(under) /\ IsFiniteSet(above)
    BY <1>1, <2>1, FS_Subset
  <2>3. Cardinality(above) = Cardinality(DOMAIN q) - Cardinality(DOMAIN q \cap under)
    BY <1>1, FS_Difference
  <2>4. Cardinality(upTo) \in Nat /\ Cardinality(under) \in Nat
    BY <2>2, FS_CardinalityType
  <2> HIDE DEF above
  <2>5. QED
    BY <1>1, <2>1, <2>2, <2>3, <2>4
<1>4. Cardinality(upTo) >= 2 /\ Cardinality(above) >= 2
  <2> HIDE DEF above
  <2>1. Len(q) \div 2 \in Nat /\ Len(q) \div 2 >= 1 /\ Len(q) - Len(q) \div 2 >= 2
    BY <1>1
  <2>2. QED
    BY <1>1, <1>2, <1>3, <2>1
<1>5. PICK j \in upTo : j # i
  <2> HIDE DEF above
  <2>1. IsFiniteSet(upTo)
    BY <1>3
  <2>2. Cardinality(upTo) >= 2
    BY <1>4
  <2>3. QED
    BY <2>1, <2>2, OtherIndex
<1>6. PICK k \in above : k # i
  <2> HIDE DEF above
  <2>1. IsFiniteSet(above)
    BY <1>3
  <2>2. Cardinality(above) >= 2
    BY <1>4
  <2>3. QED
    BY <2>1, <2>2, OtherIndex
<1>7. j \in DOMAIN q \ {i} /\ q[j] <= Median(q) /\ k \in DOMAIN q \ {i} /\ ~ (q[k] < Median(q)) /\ q[k] \in Int
  BY <1>2, <1>5, <1>6
<1>8. Median(q) <= q[k]
  BY <1>m, <1>7
<1>9. QED
  BY <1>7, <1>8

LEMMA OutliersIgnored == SyncInv => OneOutlierIsIgnored
<1>1. SUFFICES ASSUME SyncInv, syncCount > 0, Len(samples) >= 3, NEW i \in DOMAIN samples
               PROVE  /\ offset >= Min({samples[j] : j \in DOMAIN samples \ {i}})
                      /\ offset <= Max({samples[j] : j \in DOMAIN samples \ {i}})
  BY DEF OneOutlierIsIgnored
<1> DEFINE E == DOMAIN samples \ {i}
           others == {samples[j] : j \in E}
<1>2. offset = Median(samples) /\ samples \in Seq(Readings) /\ \A r \in Readings : r \in Int
  BY <1>1, SchedulingAssumption DEF SyncInv
<1>3. samples \in Seq(Int) /\ DOMAIN samples = 1 .. Len(samples) /\ Len(samples) \in Nat
      /\ \A j \in DOMAIN samples : samples[j] \in Int
  <2>1. Len(samples) \in Nat /\ samples \in [1 .. Len(samples) -> Readings]
    BY <1>2
  <2>2. samples \in [1 .. Len(samples) -> Int]
    BY <1>2, <2>1
  <2>3. QED
    BY <2>1, <2>2
<1>4. PICK j \in E, k \in E : samples[j] <= offset /\ offset <= samples[k]
  BY <1>1, <1>2, <1>3, MedianAmongOthers
<1>5. others \in SUBSET Int /\ IsFiniteSet(others) /\ others # {}
  <2>1. IsFiniteSet(1 .. Len(samples))
    BY <1>3, FS_Interval
  <2>2. IsFiniteSet(E)
    <3>1. E \in SUBSET (1 .. Len(samples))
      BY <1>3
    <3>2. QED
      BY <2>1, <3>1, FS_Subset
  <2>3. IsFiniteSet(others)
    <3> HIDE DEF E
    <3>1. QED
      BY <2>2, FiniteImage
  <2>4. QED
    BY <1>3, <1>4, <2>3
<1>6. Min(others) \in Int /\ Max(others) \in Int /\ Min(others) <= samples[j] /\ samples[k] <= Max(others)
  <2>1. samples[j] \in others /\ samples[k] \in others
    OBVIOUS
  <2> HIDE DEF others
  <2>2. QED
    BY <1>5, <2>1, Extremes
<1>7. offset \in Int /\ samples[j] \in Int /\ samples[k] \in Int
  <2>1. offset \in Int
    <3>1. Len(samples) > 0
      BY <1>1, <1>3
    <3>2. Median(samples) \in Int
      BY <1>3, <3>1, MedianIsMiddle
    <3>3. QED
      BY <1>2, <3>2
  <2>2. QED
    BY <1>3, <2>1
<1>8. QED
  <2> HIDE DEF others
  <2>1. offset >= Min(others) /\ offset <= Max(others)
    BY <1>4, <1>6, <1>7
  <2>2. QED
    BY <2>1 DEF others

-----------------------------------------------------------------------------
(***************************************************************************)
(* AlertManager and AlertThrottler: of the attempts in a time the deque tells*)
(* all, or it is full of them.                                             *)
(***************************************************************************)

\* What send_alert remembers is in the order of time.
AlertsTyped ==
  /\ watchTime \in 0 .. MaxWatchTime /\ asked \in 0 .. MaxAlerts
  /\ attempts \in Seq(Nat) /\ Len(attempts) <= AlertSlots /\ NeverFalls(attempts)
  /\ \A i \in DOMAIN attempts : attempts[i] <= watchTime
  /\ dispatched \in Seq(Nat) /\ \A i \in DOMAIN dispatched : dispatched[i] <= watchTime

\* Since any time as many alerts were sent, at most, as the deque remembers attempts, if
\* the deque does not hold such attempts only.
Remembered ==
  \A t \in Int :
    \/ Len(attempts) = AlertSlots /\ \A i \in DOMAIN attempts : attempts[i] > t
    \/ Cardinality(After(dispatched, t)) <= Cardinality(After(attempts, t))

FewPerMinute ==
  \A i \in DOMAIN dispatched :
    Cardinality({j \in DOMAIN dispatched : j <= i /\ dispatched[i] - dispatched[j] < Minute}) < AlertLimit

AlertInv == AlertsTyped /\ Remembered /\ FewPerMinute

LEMMA AlertInitial == WatchInit => AlertInv
<1>1. SUFFICES ASSUME WatchInit PROVE AlertInv
  OBVIOUS
<1>2. watchTime = 0 /\ attempts = <<>> /\ dispatched = <<>> /\ asked = 0
      /\ DOMAIN attempts = {} /\ DOMAIN dispatched = {}
  BY <1>1 DEF WatchInit
<1>3. AlertsTyped
  <2>1. MaxWatchTime \in Nat /\ MaxAlerts \in Nat /\ AlertSlots \in Nat
    BY WatchAssumption
  <2>2. QED
    BY <1>2, <2>1 DEF AlertsTyped, NeverFalls
<1>4. FewPerMinute
  BY <1>2 DEF FewPerMinute
<1>5. Remembered
  <2>1. attempts \in Seq(Nat) /\ dispatched = attempts
    BY <1>2
  <2>2. \A t \in Int : Cardinality(After(attempts, t)) \in Nat
    BY <2>1, AfterIsFinite
  <2>3. QED
    BY <2>1, <2>2 DEF Remembered
<1>6. QED
  BY <1>3, <1>4, <1>5 DEF AlertInv

\* The deque after another attempt.
LEMMA Attempted ==
  ASSUME AlertsTyped,
         NEW all, all = Append(attempts, watchTime),
         NEW kept, kept = IF Len(all) > AlertSlots THEN Tail(all) ELSE all
  PROVE  /\ kept \in Seq(Nat) /\ Len(kept) <= AlertSlots /\ NeverFalls(kept)
         /\ \A i \in DOMAIN kept : kept[i] <= watchTime
         /\ \A t \in Int :
              \/ Len(kept) = AlertSlots /\ \A i \in DOMAIN kept : kept[i] > t
              \/ Cardinality(After(kept, t)) = Cardinality(After(attempts, t)) + (IF watchTime > t THEN 1 ELSE 0)
         /\ \A t \in Int : Len(attempts) = AlertSlots /\ (\A i \in DOMAIN attempts : attempts[i] > t) /\ watchTime > t =>
              Len(kept) = AlertSlots /\ \A i \in DOMAIN kept : kept[i] > t
<1>1. AlertsTyped /\ watchTime \in Nat /\ AlertSlots \in Nat
  BY WatchAssumption DEF AlertsTyped
<1>2. /\ all \in Seq(Nat) /\ Len(all) = Len(attempts) + 1 /\ DOMAIN all = 1 .. Len(attempts) + 1
      /\ Len(attempts) \in Nat /\ DOMAIN attempts = 1 .. Len(attempts) /\ Len(attempts) <= AlertSlots
      /\ (\A i \in 1 .. Len(attempts) : all[i] = attempts[i] /\ attempts[i] \in Nat) /\ all[Len(attempts) + 1] = watchTime
      /\ (\A i \in DOMAIN all : i \in DOMAIN attempts \/ i = Len(attempts) + 1)
  BY <1>1 DEF AlertsTyped
<1>n. Len(all) = Len(attempts) + 1 /\ Len(attempts) \in Nat /\ Len(attempts) <= AlertSlots /\ AlertSlots \in Nat
  BY <1>1, <1>2
<1>3. NeverFalls(all) /\ (\A i \in DOMAIN all : all[i] <= watchTime /\ all[i] \in Nat)
  BY <1>1, <1>2 DEF AlertsTyped, NeverFalls
<1>4. \A t \in Int : Cardinality(After(all, t)) = Cardinality(After(attempts, t)) + (IF watchTime > t THEN 1 ELSE 0)
  BY <1>1, AfterAppend DEF AlertsTyped
<1>5. CASE ~ (Len(all) > AlertSlots)
  <2>1. kept = all /\ Len(all) <= AlertSlots
    BY <1>1, <1>2, <1>5
  <2>2. Len(attempts) # AlertSlots
    <3>1. ASSUME NEW n \in Nat, NEW m \in Nat, ~ (n + 1 > m) PROVE n # m
      BY <3>1
    <3>2. ~ (Len(attempts) + 1 > AlertSlots)
      BY <1>n, <1>5, Zenon
    <3>3. QED
      BY <1>n, <3>1, <3>2
  <2>3. QED
    BY <1>2, <1>3, <1>4, <2>1, <2>2
<1>6. CASE Len(all) > AlertSlots
  <2>n. Len(attempts) = AlertSlots
    <3>1. ASSUME NEW n \in Nat, NEW m \in Nat, n + 1 > m, n <= m PROVE n = m
      BY <3>1
    <3>2. Len(attempts) + 1 > AlertSlots
      BY <1>n, <1>6, Zenon
    <3>3. QED
      BY <1>n, <3>1, <3>2
  <2>1. Len(attempts) = AlertSlots /\ kept = Tail(all) /\ all # <<>> /\ Head(all) = all[1] /\ 1 \in DOMAIN all
    <3>1. kept = Tail(all)
      BY <1>6
    <3>2. ASSUME NEW q \in Seq(Nat), Len(q) = Len(attempts) + 1
          PROVE  q # <<>> /\ Head(q) = q[1] /\ 1 \in DOMAIN q
      BY <1>n, <3>2
    <3>3. QED
      BY <1>2, <1>n, <2>n, <3>1, <3>2
  <2>2. /\ kept \in Seq(Nat) /\ Len(kept) = AlertSlots /\ DOMAIN kept = 1 .. AlertSlots
        /\ \A i \in DOMAIN kept : i + 1 \in DOMAIN all /\ kept[i] = all[i + 1]
    BY <1>1, <1>2, <2>1
  <2>3. NeverFalls(kept) /\ \A i \in DOMAIN kept : kept[i] <= watchTime
    <3>1. \A i, j \in DOMAIN kept : i <= j => i + 1 <= j + 1
      BY <1>1, <2>2
    <3>2. \A i, j \in DOMAIN all : i <= j => all[i] <= all[j]
      BY <1>3 DEF NeverFalls
    <3>3. \A i, j \in DOMAIN kept : i <= j => kept[i] <= kept[j]
      <4>1. TAKE i, j \in DOMAIN kept
      <4>2. i + 1 \in DOMAIN all /\ kept[i] = all[i + 1] /\ j + 1 \in DOMAIN all /\ kept[j] = all[j + 1]
        BY <2>2, Zenon
      <4>3. ASSUME i <= j PROVE all[i + 1] <= all[j + 1]
        BY <3>1, <3>2, <4>2, <4>3, Zenon
      <4>4. QED
        BY <4>2, <4>3, Zenon
    <3>4. \A i \in DOMAIN kept : kept[i] <= watchTime
      <4>1. TAKE i \in DOMAIN kept
      <4>2. i + 1 \in DOMAIN all /\ kept[i] = all[i + 1]
        BY <2>2, Zenon
      <4>3. QED
        BY <1>3, <4>2
    <3>5. QED
      BY <3>3, <3>4 DEF NeverFalls
  <2>4. ASSUME NEW t \in Int
        PROVE  \/ Len(kept) = AlertSlots /\ \A i \in DOMAIN kept : kept[i] > t
               \/ Cardinality(After(kept, t)) = Cardinality(After(attempts, t)) + (IF watchTime > t THEN 1 ELSE 0)
    <3>1. CASE Head(all) > t
      <4>1. \A i \in DOMAIN kept : kept[i] > t
        <5>1. TAKE i \in DOMAIN kept
        <5>2. 1 <= i + 1 /\ i + 1 \in DOMAIN all
          BY <1>1, <2>2
        <5>3. all[1] <= all[i + 1] /\ all[1] \in Nat /\ all[i + 1] \in Nat
          BY <1>3, <2>1, <5>2 DEF NeverFalls
        <5>4. QED
          BY <2>1, <2>2, <3>1, <5>3
      <4>2. QED
        BY <2>2, <4>1
    <3>2. CASE ~ (Head(all) > t)
      <4>1. Cardinality(After(kept, t)) = Cardinality(After(all, t)) - 0
        BY <1>2, <2>1, <3>2, AfterTail
      <4>2. Cardinality(After(all, t)) \in Nat
        BY <1>2, AfterIsFinite
      <4>3. QED
        BY <1>4, <4>1, <4>2
    <3>3. QED
      BY <3>1, <3>2
  <2>5. ASSUME NEW t \in Int, \A i \in DOMAIN attempts : attempts[i] > t, watchTime > t
        PROVE  \A i \in DOMAIN kept : kept[i] > t
    <3>1. \A i \in DOMAIN all : all[i] > t
      BY <1>2, <2>5
    <3>2. QED
      BY <2>2, <3>1
  <2>6. kept \in Seq(Nat) /\ Len(kept) <= AlertSlots
    BY <1>1, <2>2
  <2>7. \A t \in Int : (\A i \in DOMAIN attempts : attempts[i] > t) /\ watchTime > t =>
          Len(kept) = AlertSlots /\ \A i \in DOMAIN kept : kept[i] > t
    BY <2>2, <2>5, Zenon
  <2>8. QED
    BY <2>3, <2>4, <2>6, <2>7, Zenon
<1>7. QED
  BY <1>5, <1>6

\* Whatever the limit is, the deque keeps its length and the order of time.
LEMMA SendAlertTyped ==
  ASSUME AlertsTyped, SendAlert
  PROVE  AlertsTyped'
<1> DEFINE all == Append(attempts, watchTime)
           kept == IF Len(all) > AlertSlots THEN Tail(all) ELSE all
<1>1. /\ asked < MaxAlerts /\ asked' = asked + 1 /\ attempts' = kept /\ watchTime' = watchTime
      /\ dispatched' = dispatched \/ dispatched' = Append(dispatched, watchTime)
  BY DEF SendAlert
<1>2. /\ watchTime \in Nat /\ dispatched \in Seq(Nat) /\ asked \in 0 .. MaxAlerts /\ MaxAlerts \in Nat
      /\ watchTime \in 0 .. MaxWatchTime
      /\ \A i \in DOMAIN dispatched : dispatched[i] <= watchTime
  BY WatchAssumption DEF AlertsTyped
<1>3. /\ kept \in Seq(Nat) /\ Len(kept) <= AlertSlots /\ NeverFalls(kept)
      /\ \A i \in DOMAIN kept : kept[i] <= watchTime
  BY Attempted
<1>4. dispatched' \in Seq(Nat) /\ \A i \in DOMAIN dispatched' : dispatched'[i] <= watchTime
  <2>1. CASE dispatched' = dispatched
    BY <1>2, <2>1
  <2>2. CASE dispatched' = Append(dispatched, watchTime)
    BY <1>2, <2>2
  <2>3. QED
    BY <1>1, <2>1, <2>2
<1>5. asked' \in 0 .. MaxAlerts
  BY <1>1, <1>2
<1> HIDE DEF kept
<1>6. QED
  BY <1>1, <1>2, <1>3, <1>4, <1>5 DEF AlertsTyped, NeverFalls

\* An alert that is sent is one of fewer than the limit in the minute before it.
LEMMA SendAlertKeeps ==
  ASSUME AlertLimit <= AlertSlots, AlertInv, SendAlert
  PROVE  AlertInv'
<1> DEFINE all == Append(attempts, watchTime)
           kept == IF Len(all) > AlertSlots THEN Tail(all) ELSE all
           since == watchTime - Minute
           full(q, t) == Len(q) = AlertSlots /\ \A i \in DOMAIN q : q[i] > t
<1>1. /\ asked < MaxAlerts /\ asked' = asked + 1 /\ attempts' = kept /\ watchTime' = watchTime
      /\ dispatched' = IF RecentIn(kept, Minute) >= AlertLimit THEN dispatched
                       ELSE Append(dispatched, watchTime)
  BY DEF SendAlert
<1>2. /\ watchTime \in Nat /\ dispatched \in Seq(Nat) /\ attempts \in Seq(Nat) /\ asked \in 0 .. MaxAlerts
      /\ watchTime \in 0 .. MaxWatchTime
      /\ \A i \in DOMAIN dispatched : dispatched[i] <= watchTime
  BY WatchAssumption DEF AlertInv, AlertsTyped
<1>c. MaxAlerts \in Nat /\ AlertSlots \in Nat /\ AlertLimit \in Nat /\ Minute \in Nat
  BY WatchAssumption
<1>3. /\ kept \in Seq(Nat) /\ Len(kept) <= AlertSlots /\ NeverFalls(kept)
      /\ \A i \in DOMAIN kept : kept[i] <= watchTime
      /\ \A t \in Int :
           \/ full(kept, t)
           \/ Cardinality(After(kept, t)) = Cardinality(After(attempts, t)) + (IF watchTime > t THEN 1 ELSE 0)
      /\ \A t \in Int : full(attempts, t) /\ watchTime > t => full(kept, t)
  BY Attempted DEF AlertInv
<1>4. \A t \in Int : /\ Cardinality(After(dispatched, t)) \in Nat /\ Cardinality(After(kept, t)) \in Nat
                     /\ Cardinality(After(attempts, t)) \in Nat
                     /\ Cardinality(After(Append(dispatched, watchTime), t))
                          = Cardinality(After(dispatched, t)) + (IF watchTime > t THEN 1 ELSE 0)
                     /\ Cardinality(After(Append(dispatched, watchTime), t)) \in Nat
  <2>1. TAKE t \in Int
  <2>2. Append(dispatched, watchTime) \in Seq(Nat)
    BY <1>2
  <2>3. /\ Cardinality(After(dispatched, t)) \in Nat /\ Cardinality(After(attempts, t)) \in Nat
        /\ Cardinality(After(Append(dispatched, watchTime), t)) \in Nat
    BY <1>2, <2>2, AfterIsFinite
  <2>4. Cardinality(After(kept, t)) \in Nat
    <3> HIDE DEF kept
    <3>1. QED
      BY <1>3, AfterIsFinite
  <2>5. Cardinality(After(Append(dispatched, watchTime), t))
          = Cardinality(After(dispatched, t)) + (IF watchTime > t THEN 1 ELSE 0)
    BY <1>2, AfterAppend
  <2> HIDE DEF kept
  <2>6. QED
    BY <2>3, <2>4, <2>5
<1>5. ASSUME NEW t \in Int, ~ full(kept, t)
      PROVE  Cardinality(After(Append(dispatched, watchTime), t)) <= Cardinality(After(kept, t))
  <2>1. CASE watchTime > t
    <3>1. ~ full(attempts, t)
      BY <1>3, <1>5, <2>1
    <3>2. Cardinality(After(dispatched, t)) <= Cardinality(After(attempts, t))
      BY <3>1 DEF AlertInv, Remembered
    <3>3. Cardinality(After(kept, t)) = Cardinality(After(attempts, t)) + 1
      BY <1>3, <1>5, <2>1
    <3> HIDE DEF kept
    <3>4. QED
      BY <1>4, <2>1, <3>2, <3>3
  <2>2. CASE ~ (watchTime > t)
    <3>1. After(dispatched, t) = {}
      <4>1. \A i \in DOMAIN dispatched : ~ (dispatched[i] > t)
        <5>1. \A i \in DOMAIN dispatched : dispatched[i] \in Nat
          BY <1>2
        <5>2. QED
          BY <1>2, <2>2, <5>1
      <4>2. QED
        BY <4>1 DEF After
    <3>2. Cardinality(After(dispatched, t)) = 0
      BY <3>1, FS_EmptySet
    <3> HIDE DEF kept
    <3>3. QED
      BY <1>4, <2>2, <3>2
  <2>3. QED
    BY <2>1, <2>2
<1>6. AlertsTyped'
  BY SendAlertTyped DEF AlertInv
<1>7. Remembered'
  <2>1. ASSUME NEW t \in Int, ~ full(kept, t)
        PROVE  Cardinality(After(dispatched', t)) <= Cardinality(After(kept, t))
    <3>1. Cardinality(After(dispatched, t)) <= Cardinality(After(Append(dispatched, watchTime), t))
      <4> HIDE DEF kept
      <4>1. QED
        BY <1>4
    <3>2. Cardinality(After(Append(dispatched, watchTime), t)) <= Cardinality(After(kept, t))
      BY <1>5, <2>1
    <3> HIDE DEF kept
    <3>3. Cardinality(After(dispatched, t)) <= Cardinality(After(kept, t))
      BY <1>4, <3>1, <3>2
    <3>4. dispatched' = dispatched \/ dispatched' = Append(dispatched, watchTime)
      BY <1>1
    <3>5. QED
      BY <3>2, <3>3, <3>4, Zenon
  <2> HIDE DEF kept
  <2>2. QED
    BY <1>1, <2>1 DEF Remembered, After
<1>8. FewPerMinute'
  <2>1. CASE RecentIn(kept, Minute) >= AlertLimit
    <3>1. dispatched' = dispatched
      BY <1>1, <2>1
    <3>2. QED
      BY <3>1 DEF AlertInv, FewPerMinute
  <2>2. CASE ~ (RecentIn(kept, Minute) >= AlertLimit)
    <3> DEFINE longer == Append(dispatched, watchTime)
               n == Len(dispatched) + 1
               near(q, i) == {j \in DOMAIN q : j <= i /\ q[i] - q[j] < Minute}
    <3>1. dispatched' = longer
      BY <1>1, <2>2
    <3>2. /\ Len(dispatched) \in Nat /\ DOMAIN dispatched = 1 .. Len(dispatched) /\ DOMAIN longer = 1 .. n
          /\ (\A i \in DOMAIN dispatched : longer[i] = dispatched[i] /\ dispatched[i] \in Nat) /\ longer[n] = watchTime
          /\ (\A i \in DOMAIN longer : (i \in DOMAIN dispatched \/ i = n) /\ longer[i] \in Nat)
          /\ longer \in Seq(Nat)
      BY <1>2
    <3>3. ASSUME NEW i \in DOMAIN dispatched PROVE near(longer, i) = near(dispatched, i)
      <4>1. DOMAIN dispatched \subseteq DOMAIN longer
        BY <3>2
      <4>2. \A j \in DOMAIN longer : j <= i => j \in DOMAIN dispatched
        BY <3>2
      <4>3. \A j \in DOMAIN dispatched : longer[j] = dispatched[j] /\ longer[i] = dispatched[i]
        BY <3>2
      <4> HIDE DEF longer
      <4>4. QED
        BY <4>1, <4>2, <4>3
    <3>4. near(longer, n) \in SUBSET After(longer, since)
      <4>1. \A j \in DOMAIN longer : longer[n] - longer[j] < Minute => longer[j] > since
        <5>1. \A j \in DOMAIN longer : longer[j] \in Nat
          BY <3>2
        <5>2. longer[n] = watchTime
          BY <3>2
        <5> HIDE DEF longer, n
        <5>3. QED
          BY <1>2, <1>c, <5>1, <5>2
      <4>2. QED
        BY <4>1 DEF After
    <3>5. After(kept, since) = {i \in DOMAIN kept : watchTime - kept[i] < Minute} /\ since \in Int
      <4>1. \A i \in DOMAIN kept : kept[i] \in Nat
        BY <1>3
      <4> HIDE DEF kept
      <4>2. \A i \in DOMAIN kept : kept[i] > since <=> watchTime - kept[i] < Minute
        BY <1>2, <1>c, <4>1
      <4>3. QED
        BY <1>2, <1>c, <4>2 DEF After
    <3>6. Cardinality(After(kept, since)) < AlertLimit
      <4>1. RecentIn(kept, Minute) = Cardinality(After(kept, since))
        BY <3>5 DEF RecentIn
      <4>2. Cardinality(After(kept, since)) \in Nat
        BY <1>4, <3>5
      <4> HIDE DEF kept
      <4>3. QED
        BY <1>c, <2>2, <4>1, <4>2
    <3>7. ~ full(kept, since)
      <4>1. SUFFICES ASSUME full(kept, since) PROVE FALSE
        OBVIOUS
      <4>2. After(kept, since) = 1 .. AlertSlots
        BY <1>3, <4>1 DEF After
      <4>3. Cardinality(After(kept, since)) = AlertSlots
        BY <1>c, <4>2, UpToN
      <4> HIDE DEF kept
      <4>4. QED
        BY <1>c, <3>6, <4>3
    <3>8. Cardinality(near(longer, n)) < AlertLimit
      <4>1. IsFiniteSet(After(longer, since))
        <5> HIDE DEF longer, since
        <5>1. QED
          BY <3>2, AfterIsFinite
      <4>2. Cardinality(near(longer, n)) <= Cardinality(After(longer, since)) /\ Cardinality(near(longer, n)) \in Nat
        <5> HIDE DEF near, longer, since, n
        <5>1. IsFiniteSet(near(longer, n)) /\ Cardinality(near(longer, n)) <= Cardinality(After(longer, since))
          BY <3>4, <4>1, FS_Subset
        <5>2. QED
          BY <5>1, FS_CardinalityType
      <4>3. Cardinality(After(longer, since)) <= Cardinality(After(kept, since))
        BY <1>5, <3>5, <3>7
      <4>4. Cardinality(After(longer, since)) \in Nat /\ Cardinality(After(kept, since)) \in Nat
        BY <1>4, <3>5
      <4> HIDE DEF near, longer, kept, since, n
      <4>5. QED
        BY <1>c, <3>6, <4>2, <4>3, <4>4
    <3>9. \A i \in DOMAIN longer : Cardinality(near(longer, i)) < AlertLimit
      <4>1. \A i \in DOMAIN dispatched : Cardinality(near(dispatched, i)) < AlertLimit
        BY DEF AlertInv, FewPerMinute
      <4>2. \A i \in DOMAIN dispatched : Cardinality(near(longer, i)) < AlertLimit
        <5> HIDE DEF near, longer
        <5>1. QED
          BY <3>3, <4>1
      <4>3. \A i \in DOMAIN longer : i \in DOMAIN dispatched \/ i = n
        BY <3>2
      <4> HIDE DEF near, longer, n
      <4>4. QED
        BY <3>8, <4>2, <4>3
    <3> HIDE DEF longer
    <3>10. QED
      BY <3>1, <3>9 DEF FewPerMinute
  <2>3. QED
    BY <2>1, <2>2
<1>9. QED
  BY <1>6, <1>7, <1>8 DEF AlertInv

\* What any of the watchdogs does to the clock and to the alerts.
WatchNext == AlertNext \/ HealNext \/ SurvivalNext \/ CapitalNext

LEMMA WatchSteps ==
  ASSUME [WatchNext]_watchVars
  PROVE  /\ \/ WatchTick
            \/ watchTime' = watchTime
         /\ \/ SendAlert
            \/ UNCHANGED <<attempts, dispatched, asked>>
         /\ \/ \E k \in AlertKeys : ShouldSend(k)
            \/ UNCHANGED <<lastAlert, throttled>>
         /\ \/ \E c \in Monitored : RunCheck(c)
            \/ UNCHANGED <<breakers, failedRuns>>
         /\ \/ Assess
            \/ UNCHANGED <<pnls, survival>>
         /\ \/ Allocate
            \/ CheckAllocation
            \/ UNCHANGED <<current, validity>>
<1>1. CASE UNCHANGED watchVars
  BY <1>1 DEF watchVars, alertVars, healVars, survivalVars, capitalVars
<1>2. CASE WatchTick
  BY <1>2 DEF WatchTick, alertVars, healVars, survivalVars, capitalVars
<1>3. CASE SendAlert
  BY <1>3 DEF SendAlert, healVars, survivalVars, capitalVars
<1>4. ASSUME NEW k \in AlertKeys, ShouldSend(k)
      PROVE  /\ watchTime' = watchTime /\ UNCHANGED <<attempts, dispatched, asked>>
             /\ UNCHANGED <<breakers, failedRuns, pnls, survival, current, validity>>
  BY <1>4 DEF ShouldSend, healVars, survivalVars, capitalVars
<1>5. ASSUME NEW c \in Monitored, RunCheck(c)
      PROVE  /\ watchTime' = watchTime /\ UNCHANGED <<attempts, dispatched, asked, lastAlert, throttled>>
             /\ UNCHANGED <<pnls, survival, current, validity>>
  BY <1>5 DEF RunCheck, alertVars, survivalVars, capitalVars
<1>6. CASE Assess
  <2>1. /\ watchTime' = watchTime /\ UNCHANGED <<attempts, dispatched, asked, lastAlert, throttled>>
        /\ UNCHANGED <<breakers, failedRuns, current, validity>>
    BY <1>6 DEF Assess, alertVars, healVars, capitalVars
  <2>2. QED
    BY <1>6, <2>1
<1>7. CASE Allocate
  <2>1. /\ watchTime' = watchTime /\ UNCHANGED <<attempts, dispatched, asked, lastAlert, throttled>>
        /\ UNCHANGED <<breakers, failedRuns, pnls, survival>>
    BY <1>7 DEF Allocate, alertVars, healVars, survivalVars
  <2>2. QED
    BY <1>7, <2>1
<1>8. CASE CheckAllocation
  <2>1. /\ watchTime' = watchTime /\ UNCHANGED <<attempts, dispatched, asked, lastAlert, throttled>>
        /\ UNCHANGED <<breakers, failedRuns, pnls, survival>>
    BY <1>8 DEF CheckAllocation, alertVars, healVars, survivalVars
  <2>2. QED
    BY <1>8, <2>1
<1>9. \/ UNCHANGED watchVars \/ WatchTick \/ SendAlert \/ (\E k \in AlertKeys : ShouldSend(k))
      \/ (\E c \in Monitored : RunCheck(c)) \/ Assess \/ Allocate \/ CheckAllocation
  BY DEF WatchNext, AlertNext, HealNext, SurvivalNext, CapitalNext
<1>10. QED
  BY <1>1, <1>2, <1>3, <1>4, <1>5, <1>6, <1>7, <1>8, <1>9

\* The clock runs, and the rest of the watchdogs leaves the alerts alone.
LEMMA AlertsTypedStep ==
  ASSUME AlertsTyped, [WatchNext]_watchVars
  PROVE  AlertsTyped'
<1>1. CASE SendAlert
  BY <1>1, SendAlertTyped
<1>2. CASE UNCHANGED <<attempts, dispatched, asked>>
  <2>1. watchTime' \in 0 .. MaxWatchTime /\ watchTime <= watchTime' /\ watchTime \in Nat
    <3>1. MaxWatchTime \in Nat /\ watchTime \in 0 .. MaxWatchTime
      BY WatchAssumption DEF AlertsTyped
    <3>2. CASE WatchTick
      BY <3>1, <3>2 DEF WatchTick
    <3>3. CASE watchTime' = watchTime
      BY <3>1, <3>3
    <3>4. QED
      BY <3>2, <3>3, WatchSteps
  <2>2. /\ \A i \in DOMAIN attempts : attempts[i] \in Nat /\ attempts[i] <= watchTime
        /\ \A i \in DOMAIN dispatched : dispatched[i] \in Nat /\ dispatched[i] <= watchTime
    BY DEF AlertsTyped
  <2>3. /\ \A i \in DOMAIN attempts : attempts[i] <= watchTime'
        /\ \A i \in DOMAIN dispatched : dispatched[i] <= watchTime'
    BY <2>1, <2>2
  <2>4. QED
    BY <1>2, <2>1, <2>3 DEF AlertsTyped, NeverFalls
<1>3. QED
  BY <1>1, <1>2, WatchSteps

LEMMA AlertStep ==
  ASSUME AlertLimit <= AlertSlots, AlertInv, [WatchNext]_watchVars
  PROVE  AlertInv'
<1>1. CASE SendAlert
  BY <1>1, SendAlertKeeps
<1>2. CASE UNCHANGED <<attempts, dispatched, asked>>
  <2>1. AlertsTyped'
    BY AlertsTypedStep DEF AlertInv
  <2>2. Remembered' /\ FewPerMinute'
    BY <1>2, Zenon DEF AlertInv, Remembered, FewPerMinute, After
  <2>3. QED
    BY <2>1, <2>2 DEF AlertInv
<1>3. QED
  BY <1>1, <1>2, WatchSteps

\* What passed the throttler is not after the clock, nor after the last alert of its key.
ThrottleInv ==
  /\ watchTime \in Nat /\ lastAlert \in [AlertKeys -> Int]
  /\ throttled \in Seq([key : AlertKeys, at : Nat])
  /\ \A i \in DOMAIN throttled :
       throttled[i].at <= watchTime /\ throttled[i].at <= lastAlert[throttled[i].key]
  /\ \A i, j \in DOMAIN throttled : i < j /\ throttled[i].key = throttled[j].key =>
       throttled[j].at - throttled[i].at >= Cooldown

\* What is later by so much than a time is later than all before it.
LEMMA StillLater ==
  ASSUME NEW now \in Int, NEW last \in Int, NEW at \in Int, NEW gap \in Int, now - last >= gap, at <= last
  PROVE  now - at >= gap
OBVIOUS

LEMMA ThrottleInitial == WatchInit => ThrottleInv
<1>1. SUFFICES ASSUME WatchInit PROVE ThrottleInv
  OBVIOUS
<1>2. Cooldown \in Nat
  BY WatchAssumption
<1>3. lastAlert \in [AlertKeys -> Int]
  BY <1>1, <1>2 DEF WatchInit
<1>4. QED
  BY <1>1, <1>3 DEF WatchInit, ThrottleInv

LEMMA ThrottleStep ==
  ASSUME ThrottleInv, [WatchNext]_watchVars
  PROVE  ThrottleInv'
<1>0. Cooldown \in Nat /\ watchTime \in Nat /\ throttled \in Seq([key : AlertKeys, at : Nat])
  BY WatchAssumption DEF ThrottleInv
<1>t. \A i \in DOMAIN throttled : throttled[i].at \in Nat /\ throttled[i].key \in AlertKeys
  <2>1. \A i \in DOMAIN throttled : throttled[i] \in [key : AlertKeys, at : Nat]
    BY <1>0, ElementOfSeq, LenProperties
  <2>2. QED
    BY <2>1
<1>1. ASSUME NEW k \in AlertKeys, ShouldSend(k)
      PROVE  ThrottleInv'
  <2> DEFINE new == [key |-> k, at |-> watchTime]
             n == Len(throttled) + 1
  <2>1. /\ watchTime - lastAlert[k] >= Cooldown /\ watchTime' = watchTime
        /\ lastAlert' = [lastAlert EXCEPT ![k] = watchTime]
        /\ throttled' = Append(throttled, new)
    BY <1>1 DEF ShouldSend
  <2>2. /\ lastAlert' \in [AlertKeys -> Int] /\ lastAlert'[k] = watchTime /\ lastAlert[k] \in Int
        /\ \A l \in AlertKeys : lastAlert[l] \in Int /\ (l # k => lastAlert'[l] = lastAlert[l])
    BY <1>0, <2>1 DEF ThrottleInv
  <2>3. new \in [key : AlertKeys, at : Nat]
    BY <1>0
  <2>4. /\ Len(throttled) \in Nat /\ DOMAIN throttled = 1 .. Len(throttled) /\ DOMAIN throttled' = 1 .. n
        /\ (\A i \in DOMAIN throttled : throttled'[i] = throttled[i])
        /\ throttled'[n] = new /\ throttled' \in Seq([key : AlertKeys, at : Nat])
        /\ \A i \in DOMAIN throttled' : i \in DOMAIN throttled \/ i = n
    <3> HIDE DEF new
    <3>1. QED
      BY <1>0, <2>1, <2>3
  <2>5. ASSUME NEW i \in DOMAIN throttled
        PROVE  /\ throttled[i].at \in Nat /\ throttled[i].key \in AlertKeys
               /\ throttled[i].at <= watchTime /\ throttled[i].at <= lastAlert[throttled[i].key]
    BY <1>t DEF ThrottleInv
  <2>6. ASSUME NEW i \in DOMAIN throttled
        PROVE  throttled[i].at <= lastAlert'[throttled[i].key]
    <3>1. CASE throttled[i].key = k
      BY <2>2, <2>5, <3>1
    <3>2. CASE throttled[i].key # k
      BY <2>2, <2>5, <3>2
    <3>3. QED
      BY <3>1, <3>2
  <2>7. \A i \in DOMAIN throttled' :
          throttled'[i].at <= watchTime' /\ throttled'[i].at <= lastAlert'[throttled'[i].key]
    <3>1. TAKE i \in DOMAIN throttled'
    <3>2. CASE i \in DOMAIN throttled
      BY <2>1, <2>4, <2>5, <2>6, <3>2
    <3>3. CASE i = n
      <4>1. throttled'[i] = new
        BY <2>4, <3>3
      <4>2. throttled'[i].at = watchTime /\ throttled'[i].key = k
        BY <4>1
      <4>3. QED
        BY <1>0, <2>1, <2>2, <4>2
    <3>4. QED
      BY <2>4, <3>2, <3>3
  <2>8. ASSUME NEW i \in DOMAIN throttled', NEW j \in DOMAIN throttled', i < j, throttled'[i].key = throttled'[j].key
        PROVE  throttled'[j].at - throttled'[i].at >= Cooldown
    <3>1. i \in DOMAIN throttled
      BY <2>4, <2>8
    <3>2. CASE j \in DOMAIN throttled
      BY <2>4, <2>8, <3>1, <3>2 DEF ThrottleInv
    <3>3. CASE j = n
      <4>1. throttled'[j].at = watchTime /\ throttled'[j].key = k
        <5>1. throttled'[j] = new
          BY <2>4, <3>3
        <5>2. QED
          BY <5>1
      <4>2. throttled[i].key = k /\ throttled'[i].at = throttled[i].at
        BY <2>4, <2>8, <3>1, <4>1
      <4>3. throttled[i].at <= lastAlert[k] /\ throttled[i].at \in Nat
        BY <2>5, <3>1, <4>2
      <4>4. watchTime \in Int /\ lastAlert[k] \in Int /\ throttled[i].at \in Int /\ Cooldown \in Int
        BY <1>0, <2>2, <4>3
      <4>5. watchTime - throttled[i].at >= Cooldown
        BY <2>1, <4>3, <4>4, StillLater
      <4>6. QED
        BY <4>1, <4>2, <4>5
    <3>4. QED
      BY <2>4, <3>2, <3>3
  <2>9. QED
    BY <1>0, <2>1, <2>2, <2>4, <2>7, <2>8 DEF ThrottleInv
<1>2. CASE UNCHANGED <<lastAlert, throttled>>
  <2>1. watchTime' \in Nat /\ watchTime <= watchTime'
    BY <1>0, WatchSteps DEF WatchTick
  <2>2. \A i \in DOMAIN throttled : throttled[i].at \in Nat /\ throttled[i].at <= watchTime
    BY <1>t DEF ThrottleInv
  <2>3. \A i \in DOMAIN throttled : throttled[i].at <= watchTime'
    BY <1>0, <2>1, <2>2
  <2>4. QED
    BY <1>2, <2>1, <2>3 DEF ThrottleInv
<1>3. QED
  BY <1>1, <1>2, WatchSteps

-----------------------------------------------------------------------------
(***************************************************************************)
(* The circuit breakers of SelfHealingSystem, StrategySurvivalEngine and   *)
(* CapitalEfficiencyEngine.                                                *)
(***************************************************************************)

\* A breaker knows when its last check failed and how many failed in a row, and is open,
\* whether its time is over or not, when these are as many as the threshold.
BreakerInv(c) ==
  /\ breakers[c] \in [state : {"closed", "open", "half_open"}, failures : Nat, last : Nat]
  /\ failedRuns[c] \in Seq(Nat) /\ Len(failedRuns[c]) = breakers[c].failures
  /\ breakers[c].failures > 0 => breakers[c].last = failedRuns[c][breakers[c].failures]
  /\ breakers[c].failures >= FailureThreshold => breakers[c].state = "open"
  /\ \A i \in DOMAIN failedRuns[c] :
       i > FailureThreshold => failedRuns[c][i] - failedRuns[c][i - 1] > RecoveryTimeout

HealInv ==
  /\ watchTime \in Nat
  /\ DOMAIN breakers = Monitored /\ DOMAIN failedRuns = Monitored
  /\ \A c \in Monitored : BreakerInv(c)

LEMMA HealInitial == WatchInit => HealInv
<1>1. SUFFICES ASSUME WatchInit PROVE HealInv
  OBVIOUS
<1>2. FailureThreshold \in Nat \ {0}
  BY WatchAssumption
<1>3. /\ DOMAIN breakers = Monitored /\ DOMAIN failedRuns = Monitored
      /\ \A c \in Monitored : breakers[c] = [state |-> "closed", failures |-> 0, last |-> 0] /\ failedRuns[c] = <<>>
  BY <1>1 DEF WatchInit
<1>4. ASSUME NEW c \in Monitored PROVE BreakerInv(c)
  <2>1. /\ breakers[c].state = "closed" /\ breakers[c].failures = 0 /\ breakers[c].last = 0
        /\ breakers[c] \in [state : {"closed", "open", "half_open"}, failures : Nat, last : Nat]
    BY <1>3
  <2>2. failedRuns[c] \in Seq(Nat) /\ Len(failedRuns[c]) = 0 /\ DOMAIN failedRuns[c] = {}
    <3>1. <<>> \in Seq(Nat) /\ Len(<<>>) = 0 /\ DOMAIN <<>> = {}
      OBVIOUS
    <3>2. failedRuns[c] = <<>>
      BY <1>3, Zenon
    <3>3. QED
      BY <3>1, <3>2, Zenon
  <2>3. QED
    BY <1>2, <2>1, <2>2 DEF BreakerInv
<1>5. QED
  BY <1>1, <1>3, <1>4 DEF WatchInit, HealInv

LEMMA HealStep ==
  ASSUME HealInv, [WatchNext]_watchVars
  PROVE  HealInv'
<1>0. FailureThreshold \in Nat \ {0} /\ RecoveryTimeout \in Nat /\ watchTime \in Nat
  BY WatchAssumption DEF HealInv
<1>1. ASSUME NEW c \in Monitored, RunCheck(c)
      PROVE  HealInv'
  <2> DEFINE b == breakers[c]
             q == failedRuns[c]
             n == b.failures
  <2>1. /\ BreakerInv(c) /\ \A d \in Monitored : BreakerInv(d)
        /\ DOMAIN breakers = Monitored /\ DOMAIN failedRuns = Monitored
    BY DEF HealInv
  <2>2. /\ b \in [state : {"closed", "open", "half_open"}, failures : Nat, last : Nat]
        /\ q \in Seq(Nat) /\ Len(q) = n /\ n \in Nat
        /\ (n > 0 => b.last = q[n]) /\ (n >= FailureThreshold => b.state = "open")
        /\ \A i \in DOMAIN q : i > FailureThreshold => q[i] - q[i - 1] > RecoveryTimeout
    BY <2>1 DEF BreakerInv
  <2>3. watchTime' = watchTime /\ StateOf(b) # "open"
    BY <1>1 DEF RunCheck
  <2>4. ASSUME NEW new, NEW runs, breakers' = [breakers EXCEPT ![c] = new],
               failedRuns' = [failedRuns EXCEPT ![c] = runs], BreakerInv(c)'
        PROVE  HealInv'
    <3>1. ASSUME NEW d \in Monitored PROVE BreakerInv(d)'
      <4>1. CASE d = c
        BY <2>4, <4>1
      <4>2. CASE d # c
        <5>1. breakers'[d] = breakers[d] /\ failedRuns'[d] = failedRuns[d]
          BY <2>1, <2>4, <4>2
        <5>2. BreakerInv(d)
          BY <2>1
        <5>3. QED
          BY <5>1, <5>2 DEF BreakerInv
      <4>3. QED
        BY <4>1, <4>2
    <3>2. QED
      BY <1>0, <2>1, <2>3, <2>4, <3>1 DEF HealInv
  <2>5. CASE /\ breakers' = [breakers EXCEPT ![c] = Succeeded(breakers[c])]
             /\ failedRuns' = [failedRuns EXCEPT ![c] = <<>>]
    <3>1. breakers'[c] = Succeeded(b) /\ failedRuns'[c] = <<>>
      BY <2>1, <2>5
    <3>2. /\ Succeeded(b) \in [state : {"closed", "open", "half_open"}, failures : Nat, last : Nat]
          /\ Succeeded(b).failures = 0
      BY <2>2 DEF Succeeded
    <3>3. BreakerInv(c)'
      BY <1>0, <3>1, <3>2 DEF BreakerInv
    <3>4. QED
      BY <2>4, <2>5, <3>3
  <2>6. CASE /\ breakers' = [breakers EXCEPT ![c] = Failed(breakers[c])]
             /\ failedRuns' = [failedRuns EXCEPT ![c] = Append(failedRuns[c], watchTime)]
    <3>1. breakers'[c] = Failed(b) /\ failedRuns'[c] = Append(q, watchTime)
      BY <2>1, <2>6
    <3>2. StateOf(b) \in {"closed", "open", "half_open"}
      BY <2>2 DEF StateOf
    <3>3. /\ Failed(b) \in [state : {"closed", "open", "half_open"}, failures : Nat, last : Nat]
          /\ Failed(b).failures = n + 1 /\ Failed(b).last = watchTime
          /\ n + 1 >= FailureThreshold => Failed(b).state = "open"
      BY <1>0, <2>2, <3>2 DEF Failed
    <3>4. /\ Append(q, watchTime) \in Seq(Nat) /\ Len(Append(q, watchTime)) = n + 1
          /\ Append(q, watchTime)[n + 1] = watchTime
          /\ DOMAIN q = 1 .. n /\ DOMAIN Append(q, watchTime) = 1 .. n + 1
          /\ \A i \in 1 .. n : Append(q, watchTime)[i] = q[i]
      BY <1>0, <2>2
    <3>5. ASSUME n + 1 > FailureThreshold
          PROVE  watchTime - q[n] > RecoveryTimeout
      <4>1. n >= FailureThreshold /\ n > 0
        BY <1>0, <2>2, <3>5
      <4>2. b.state = "open" /\ b.last = q[n]
        BY <2>2, <4>1
      <4>3. watchTime - b.last > RecoveryTimeout
        BY <2>3, <4>2 DEF StateOf
      <4>4. QED
        BY <4>2, <4>3
    <3>6. \A i \in 1 .. n + 1 : i > FailureThreshold =>
            Append(q, watchTime)[i] - Append(q, watchTime)[i - 1] > RecoveryTimeout
      <4>1. TAKE i \in 1 .. n + 1
      <4>2. HAVE i > FailureThreshold
      <4>3. i > 1 /\ i - 1 \in 1 .. n
        BY <1>0, <2>2, <4>2
      <4>4. CASE i = n + 1
        <5>1. i - 1 = n /\ Append(q, watchTime)[i - 1] = q[n]
          BY <2>2, <3>4, <4>3, <4>4
        <5>2. QED
          BY <3>4, <3>5, <4>2, <4>4, <5>1
      <4>5. CASE i # n + 1
        <5>1. i \in 1 .. n
          BY <2>2, <4>5
        <5>2. QED
          BY <2>2, <3>4, <4>2, <4>3, <5>1
      <4>6. QED
        BY <4>4, <4>5
    <3>7. BreakerInv(c)'
      <4> HIDE DEF b, q, n
      <4>1. breakers'[c].failures = n + 1 /\ n + 1 > 0
        BY <2>2, <3>1, <3>3
      <4>2. breakers'[c].last = watchTime /\ breakers'[c].last = failedRuns'[c][breakers'[c].failures]
        BY <3>1, <3>3, <3>4, <4>1
      <4>3. breakers'[c].failures >= FailureThreshold => breakers'[c].state = "open"
        BY <3>1, <3>3, <4>1
      <4>4. QED
        BY <3>1, <3>3, <3>4, <3>6, <4>1, <4>2, <4>3 DEF BreakerInv
    <3>8. QED
      BY <2>4, <2>6, <3>7
  <2>7. CASE UNCHANGED <<breakers, failedRuns>>
    BY <2>1, <2>3, <2>7, <1>0 DEF HealInv, BreakerInv
  <2>8. QED
    BY <1>1, <2>5, <2>6, <2>7 DEF RunCheck
<1>2. CASE UNCHANGED <<breakers, failedRuns>>
  <2>1. watchTime' \in Nat
    BY <1>0, WatchSteps DEF WatchTick
  <2>2. QED
    BY <1>2, <2>1 DEF HealInv, BreakerInv
<1>3. QED
  BY <1>1, <1>2, WatchSteps

LEMMA Tenths ==
  ASSUME NEW m \in Nat, NEW n \in 0 .. m, NEW a \in 0 .. 10
  PROVE  n * a \in 0 .. m * 10
<1>1. n * a \in Nat /\ n * a <= n * 10
  <2>1. a = 0 \/ a = 1 \/ a = 2 \/ a = 3 \/ a = 4 \/ a = 5 \/ a = 6 \/ a = 7 \/ a = 8 \/ a = 9 \/ a = 10
    OBVIOUS
  <2>2. QED
    BY <2>1
<1>2. n * 10 <= m * 10
  OBVIOUS
<1>3. QED
  BY <1>1, <1>2

\* A score is a fraction, and a strategy that would be warned has a low one.
LEMMA ScoreFits ==
  ASSUME NEW q \in Seq({-2, 0, 3}), NEW d, NEW pace \in 0 .. 10
  PROVE  /\ Score(q, d, pace) \in 0 .. 100
         /\ WinFactor(q) < 3 \/ SharpeFactor(q) < 3 => Score(q, d, pace) <= 20
<1>1. /\ WinFactor(q) \in 1 .. 10 /\ (WinFactor(q) < 3 => WinFactor(q) = 1)
      /\ SharpeFactor(q) \in 1 .. 10 /\ (SharpeFactor(q) < 3 => SharpeFactor(q) = 2)
  <2>1. WinFactor(q) \in {10, 7, 4, 1}
    BY Zenon DEF WinFactor
  <2>2. SharpeFactor(q) \in {10, 7, 4, 2}
    BY Zenon DEF SharpeFactor
  <2>3. QED
    BY <2>1, <2>2
<1>2. DrawdownFactor(d) \in 0 .. 10 /\ Consistency(q) \in 0 .. 10
  <2>1. DrawdownFactor(d) \in {10, 7, 4, 1}
    BY Zenon DEF DrawdownFactor
  <2>2. Consistency(q) \in {5, 10, 7, 4, 2}
    BY Zenon DEF Consistency
  <2>3. QED
    BY <2>1, <2>2
<1>3. ASSUME NEW m \in Nat, WinFactor(q) * SharpeFactor(q) \in 0 .. m
      PROVE  Score(q, d, pace) \in 0 .. m
  <2> DEFINE two == WinFactor(q) * SharpeFactor(q)
             all == two * pace * DrawdownFactor(d) * Consistency(q)
  <2>1. two * pace \in 0 .. m * 10
    BY <1>3, Tenths
  <2>2. two * pace * DrawdownFactor(d) \in 0 .. m * 10 * 10
    <3> HIDE DEF two
    <3>1. m * 10 \in Nat
      OBVIOUS
    <3>2. QED
      BY <1>2, <2>1, <3>1, Tenths
  <2>3. all \in 0 .. m * 10 * 10 * 10
    <3> HIDE DEF two
    <3>1. m * 10 * 10 \in Nat
      OBVIOUS
    <3>2. QED
      BY <1>2, <2>2, <3>1, Tenths
  <2>4. ASSUME NEW n \in 0 .. m * 10 * 10 * 10 PROVE n \div 1000 \in 0 .. m
    OBVIOUS
  <2>5. QED
    <3>1. Score(q, d, pace) = all \div 1000
      BY DEF Score
    <3> HIDE DEF all
    <3>2. QED
      BY <2>3, <2>4, <3>1
<1>4. WinFactor(q) * SharpeFactor(q) \in 0 .. 100
  <2>1. WinFactor(q) \in 0 .. 10 /\ SharpeFactor(q) \in 0 .. 10
    BY <1>1
  <2>2. WinFactor(q) * SharpeFactor(q) \in 0 .. 10 * 10
    BY <2>1, Tenths
  <2>3. QED
    BY <2>2
<1>5. WinFactor(q) < 3 \/ SharpeFactor(q) < 3 => WinFactor(q) * SharpeFactor(q) \in 0 .. 20
  <2>1. ASSUME NEW a \in 1 .. 10, NEW b \in 1 .. 10, a = 1 \/ b = 2 PROVE a * b \in 0 .. 20
    BY <2>1
  <2>2. QED
    BY <1>1, <2>1
<1>6. QED
  <2>1. \A n \in 0 .. 20 : n <= 20
    OBVIOUS
  <2>2. Score(q, d, pace) \in 0 .. 100
    BY <1>3, <1>4
  <2>3. ASSUME WinFactor(q) < 3 \/ SharpeFactor(q) < 3 PROVE Score(q, d, pace) <= 20
    BY <1>3, <1>5, <2>1, <2>3
  <2>4. QED
    BY <2>2, <2>3

SurvivalInv ==
  /\ pnls \in Seq({-2, 0, 3}) /\ Len(pnls) <= SurvivalWindow /\ survival.score \in 0 .. 100
  /\ NeverOnlyWarned

LEMMA SurvivalInitial == WatchInit => SurvivalInv
<1>1. SUFFICES ASSUME WatchInit PROVE SurvivalInv
  OBVIOUS
<1>2. SurvivalWindow \in Nat
  BY WatchAssumption
<1>3. pnls = <<>> /\ survival = [status |-> "HEALTHY", score |-> 100, wins |-> 0, of |-> 0]
  BY <1>1 DEF WatchInit
<1>4. QED
  BY <1>2, <1>3 DEF SurvivalInv, NeverOnlyWarned

LEMMA SurvivalStep ==
  ASSUME SurvivalInv, [WatchNext]_watchVars
  PROVE  SurvivalInv'
<1>0. SurvivalWindow \in Nat /\ Paces \subseteq 0 .. 10
  BY WatchAssumption
<1>1. CASE Assess
  <2>1. PICK recent \in BoundedSeq({-2, 0, 3}, 2), d \in Drawdowns, pace \in Paces :
          LET all == pnls \o recent
              q == SubSeq(all, Max({1, Len(all) - SurvivalWindow + 1}), Len(all)) IN
          /\ pnls' = q
          /\ survival' = [status |-> StatusFor(q, Score(q, d, pace)), score |-> Score(q, d, pace),
                          wins |-> WinCount(q), of |-> Len(q)]
    BY <1>1, Zenon DEF Assess
  <2> DEFINE all == pnls \o recent
             from == Max({1, Len(all) - SurvivalWindow + 1})
             q == SubSeq(all, from, Len(all))
  <2>2. /\ pnls' = q
        /\ survival' = [status |-> StatusFor(q, Score(q, d, pace)), score |-> Score(q, d, pace),
                        wins |-> WinCount(q), of |-> Len(q)]
    BY <2>1, Zenon
  <2>3. recent \in Seq({-2, 0, 3})
    BY BoundedSequence
  <2>4. all \in Seq({-2, 0, 3}) /\ Len(all) \in Nat
    BY <2>3 DEF SurvivalInv
  <2>5. from = IF 1 <= Len(all) - SurvivalWindow + 1 THEN Len(all) - SurvivalWindow + 1 ELSE 1
    <3> HIDE DEF all
    <3>1. Len(all) - SurvivalWindow + 1 \in Int
      BY <1>0, <2>4
    <3>2. QED
      BY <3>1, LargerOfTwo
  <2>6. q \in Seq({-2, 0, 3}) /\ Len(q) <= SurvivalWindow /\ Len(q) \in Nat
    <3> HIDE DEF all, from
    <3>1. from \in Int /\ 1 <= from /\ Len(all) - from + 1 <= SurvivalWindow
      BY <1>0, <2>4, <2>5
    <3>2. \A i \in from .. Len(all) : all[i] \in {-2, 0, 3}
      BY <2>4, <3>1, ElementOfSeq
    <3>3. q \in Seq({-2, 0, 3}) /\ Len(q) = IF from <= Len(all) THEN Len(all) - from + 1 ELSE 0
      BY <2>4, <3>1, <3>2, SubSeqProperties
    <3> HIDE DEF q
    <3>4. QED
      BY <1>0, <2>4, <3>1, <3>3
  <2>7. pace \in 0 .. 10
    BY <1>0
  <2>8. /\ Score(q, d, pace) \in 0 .. 100
        /\ WinFactor(q) < 3 \/ SharpeFactor(q) < 3 => Score(q, d, pace) <= 20
    BY <2>6, <2>7, ScoreFits
  <2>9. Len(q) > 0 /\ WinCount(q) = 0 => WinFactor(q) < 3
    <3> HIDE DEF q
    <3>1. SUFFICES ASSUME Len(q) > 0, WinCount(q) = 0 PROVE WinFactor(q) = 1
      OBVIOUS
    <3>2. ~ (100 * 0 >= 60 * Len(q)) /\ ~ (100 * 0 >= 40 * Len(q)) /\ ~ (100 * 0 >= 30 * Len(q))
      BY <2>6, <3>1
    <3>3. QED
      BY <3>1, <3>2, Zenon DEF WinFactor
  <2>10. /\ StatusFor(q, Score(q, d, pace)) # "WARNING"
         /\ Len(q) > 0 /\ WinCount(q) = 0 => StatusFor(q, Score(q, d, pace)) = "CRITICAL"
    <3> DEFINE score == Score(q, d, pace)
    <3>1. WinFactor(q) < 3 \/ SharpeFactor(q) < 3 => score < 30
      <4> HIDE DEF q
      <4>1. score \in 0 .. 100 /\ (WinFactor(q) < 3 \/ SharpeFactor(q) < 3 => score <= 20)
        BY <2>8
      <4> HIDE DEF score
      <4>2. QED
        BY <4>1
    <3> HIDE DEF q, score
    <3>2. score < 30 => StatusFor(q, score) = "CRITICAL"
      BY DEF StatusFor
    <3>3. ~ (score < 30) /\ ~ (WinFactor(q) < 3) /\ ~ (SharpeFactor(q) < 3) => StatusFor(q, score) = "HEALTHY"
      BY DEF StatusFor
    <3>4. StatusFor(q, score) # "WARNING" /\ (Len(q) > 0 /\ WinCount(q) = 0 => StatusFor(q, score) = "CRITICAL")
      <4>1. CASE WinFactor(q) < 3 \/ SharpeFactor(q) < 3
        BY <3>1, <3>2, <4>1
      <4>2. CASE ~ (WinFactor(q) < 3) /\ ~ (SharpeFactor(q) < 3)
        BY <2>9, <3>2, <3>3, <4>2
      <4>3. QED
        BY <4>1, <4>2
    <3>5. QED
      BY <3>4 DEF score
  <2> HIDE DEF q
  <2>11. QED
    BY <2>2, <2>6, <2>8, <2>10 DEF SurvivalInv, NeverOnlyWarned
<1>2. CASE UNCHANGED <<pnls, survival>>
  BY <1>2 DEF SurvivalInv, NeverOnlyWarned
<1>3. QED
  BY <1>1, <1>2, WatchSteps

\* A strategy is given 30 percent at most, and so many strategies are fewer than any
\* value of the portfolio in money: the fractions never make what is called utilized.
SharesFit == current \in [Strategies -> 0 .. 30]
CapitalInv == SharesFit /\ validity \in {"unknown", "concentrated", "idle"}

LEMMA CapitalInitial == WatchInit => CapitalInv
BY DEF WatchInit, CapitalInv, SharesFit

\* What is left when the shares are too many is no more than the share.
LEMMA Scaled ==
  ASSUME NEW n \in 0 .. 30, NEW whole \in Int, whole > 100
  PROVE  (100 * n) \div whole \in 0 .. 30
<1> DEFINE k == (100 * n) \div whole
<1>1. k \in Int /\ k * whole <= 100 * n /\ 100 * n < k * whole + whole
  <2>1. ASSUME NEW a \in Nat, NEW w \in Nat, w > 0
        PROVE  a \div w \in Int /\ (a \div w) * w <= a /\ a < (a \div w) * w + w
    BY <2>1
  <2>2. 100 * n \in Nat /\ whole \in Nat /\ whole > 0
    OBVIOUS
  <2>3. QED
    BY <2>1, <2>2
<1> HIDE DEF k
<1>2. k >= 0
  <2>1. ASSUME NEW m \in Int, m <= -1 PROVE m * whole <= 0 - whole
    <3>1. (-1 - m) * whole >= 0
      BY <2>1
    <3>2. QED
      BY <3>1
  <2>2. QED
    BY <1>1, <2>1
<1>3. k <= n
  <2>1. SUFFICES ASSUME k > n PROVE FALSE
    BY <1>1
  <2>2. k * whole >= k * 101
    <3>1. k * (whole - 101) >= 0
      BY <1>1, <1>2
    <3>2. k * (whole - 101) = k * whole - k * 101
      BY <1>1
    <3>3. QED
      BY <1>1, <3>1, <3>2
  <2>3. QED
    BY <1>1, <1>2, <2>1, <2>2
<1>4. QED
  BY <1>1, <1>2, <1>3 DEF k

\* The shares are shares of a sum, and none is over 30 percent.
LEMMA AllocateKeeps ==
  ASSUME SharesFit, Allocate
  PROVE  SharesFit'
<1>1. PICK chosen \in (SUBSET Strategies) \ {{}} : \E score \in [chosen -> Scores] :
        LET sum == FoldSet(LAMBDA s, rest : score[s] + rest, 0, chosen)
            share == [s \in chosen |-> Min({30, (150 * score[s]) \div sum})]
            whole == FoldSet(LAMBDA s, rest : share[s] + rest, 0, chosen)
            given == [s \in chosen |-> IF whole > 100 THEN (100 * share[s]) \div whole ELSE share[s]] IN
        current' = [s \in Strategies |-> IF s \in chosen /\ current[s] = 0 THEN given[s] ELSE current[s]]
  BY Zenon DEF Allocate
<1>2. PICK score \in [chosen -> Scores] :
        LET sum == FoldSet(LAMBDA s, rest : score[s] + rest, 0, chosen)
            share == [s \in chosen |-> Min({30, (150 * score[s]) \div sum})]
            whole == FoldSet(LAMBDA s, rest : share[s] + rest, 0, chosen)
            given == [s \in chosen |-> IF whole > 100 THEN (100 * share[s]) \div whole ELSE share[s]] IN
        current' = [s \in Strategies |-> IF s \in chosen /\ current[s] = 0 THEN given[s] ELSE current[s]]
  BY <1>1, Zenon
<1> DEFINE sum == FoldSet(LAMBDA s, rest : score[s] + rest, 0, chosen)
           share == [s \in chosen |-> Min({30, (150 * score[s]) \div sum})]
           whole == FoldSet(LAMBDA s, rest : share[s] + rest, 0, chosen)
           given == [s \in chosen |-> IF whole > 100 THEN (100 * share[s]) \div whole ELSE share[s]]
<1>3. current' = [s \in Strategies |-> IF s \in chosen /\ current[s] = 0 THEN given[s] ELSE current[s]]
  BY <1>2, Zenon
<1>4. IsFiniteSet(chosen) /\ \A s \in chosen : score[s] \in Nat /\ score[s] > 0
  <2>1. IsFiniteSet(Strategies) /\ Scores \subseteq Nat \ {0}
    BY WatchAssumption
  <2>2. IsFiniteSet(chosen)
    <3>1. chosen \in SUBSET Strategies
      OBVIOUS
    <3>2. QED
      BY <2>1, <3>1, FS_Subset
  <2> HIDE DEF sum, share, whole, given
  <2>3. \A s \in chosen : score[s] \in Scores
    OBVIOUS
  <2>4. \A n \in Scores : n \in Nat /\ n > 0
    BY <2>1
  <2>5. QED
    BY <2>2, <2>3, <2>4
<1>5. sum \in Nat /\ sum > 0
  <2>1. sum = SumFunctionOnSet(score, chosen)
    BY DEF SumFunctionOnSet, FoldFunctionOnSet, FoldSet, MapThenFoldSet
  <2> HIDE DEF sum
  <2>2. sum \in Int /\ Cardinality(chosen) \in Nat /\ 1 * Cardinality(chosen) <= sum
    <3>1. SumFunctionOnSet(score, chosen) \in Int
      BY <1>4, SumType
    <3>2. Cardinality(chosen) \in Nat /\ 1 * Cardinality(chosen) <= SumFunctionOnSet([s \in chosen |-> 1], chosen)
      <4> DEFINE one == [s \in chosen |-> 1]
      <4>1. \A s \in chosen : one[s] \in Int /\ 1 <= one[s] /\ one[s] <= 1
        OBVIOUS
      <4> HIDE DEF one
      <4>2. QED
        <5>1. 1 * Cardinality(chosen) <= SumFunctionOnSet(one, chosen) /\ Cardinality(chosen) \in Nat
          <6>1. 1 \in Int
            OBVIOUS
          <6>2. QED
            BY <1>4, <4>1, <6>1, SumWithin
        <5>2. QED
          BY <5>1 DEF one
    <3>3. SumFunctionOnSet([s \in chosen |-> 1], chosen) <= SumFunctionOnSet(score, chosen)
      <4> DEFINE one == [s \in chosen |-> 1]
      <4>1. \A s \in chosen : one[s] \in Int /\ score[s] \in Int /\ one[s] <= score[s]
        BY <1>4
      <4> HIDE DEF one
      <4>2. QED
        BY <1>4, <4>1, SumMonotone DEF one
    <3>4. SumFunctionOnSet([s \in chosen |-> 1], chosen) \in Int
      <4> DEFINE one == [s \in chosen |-> 1]
      <4>1. \A s \in chosen : one[s] \in Int
        OBVIOUS
      <4> HIDE DEF one
      <4>2. QED
        BY <1>4, <4>1, SumType DEF one
    <3>5. QED
      BY <2>1, <3>1, <3>2, <3>3, <3>4
  <2>3. Cardinality(chosen) # 0
    <3>1. chosen # {}
      OBVIOUS
    <3>2. QED
      BY <1>4, <3>1, FS_EmptySet
  <2>4. QED
    BY <2>2, <2>3
<1>6. \A s \in chosen : share[s] \in 0 .. 30
  <2>1. TAKE s \in chosen
  <2> DEFINE piece == (150 * score[s]) \div sum
  <2>2. piece \in Nat
    <3> HIDE DEF sum
    <3>1. ASSUME NEW a \in Nat, NEW b \in Nat, b > 0 PROVE (150 * a) \div b \in Nat
      BY <3>1
    <3>2. QED
      BY <1>4, <1>5, <3>1
  <2>3. share[s] = Min({30, piece})
    OBVIOUS
  <2> HIDE DEF piece, share
  <2>4. Min({30, piece}) = IF 30 <= piece THEN 30 ELSE piece
    BY <2>2, SmallerOfTwo
  <2>5. QED
    BY <2>2, <2>3, <2>4
<1>7. whole \in Int
  <2>1. whole = SumFunctionOnSet(share, chosen)
    <3> HIDE DEF share
    <3>1. QED
      BY DEF SumFunctionOnSet, FoldFunctionOnSet, FoldSet, MapThenFoldSet
  <2> HIDE DEF share, whole
  <2>2. \A s \in chosen : share[s] \in Int
    BY <1>6
  <2>3. QED
    BY <1>4, <2>1, <2>2, SumType
<1>8. \A s \in chosen : given[s] \in 0 .. 30
  <2>1. TAKE s \in chosen
  <2> HIDE DEF share, whole
  <2>2. given[s] = IF whole > 100 THEN (100 * share[s]) \div whole ELSE share[s]
    OBVIOUS
  <2> HIDE DEF given
  <2>3. share[s] \in 0 .. 30
    BY <1>6
  <2>4. QED
    BY <1>7, <2>2, <2>3, Scaled
<1> HIDE DEF given
<1>9. current' \in [Strategies -> 0 .. 30]
  BY <1>3, <1>8 DEF SharesFit
<1>10. QED
  BY <1>9 DEF SharesFit

\* Fractions over money: the sum is under 30 for each strategy.
LEMMA NeverUtilized ==
  ASSUME SharesFit, NEW value \in PortfolioValues, Cardinality(Strategies) < value
  PROVE  Utilized(value) < 30
<1>1. IsFiniteSet(Strategies) /\ PortfolioValues \subseteq Nat \ {0}
  BY WatchAssumption
<1> DEFINE all == FoldSet(LAMBDA s, rest : current[s] + rest, 0, Strategies)
<1>2. all = SumFunctionOnSet(current, Strategies)
  BY DEF SumFunctionOnSet, FoldFunctionOnSet, FoldSet, MapThenFoldSet
<1>3. \A s \in Strategies : current[s] \in Int /\ 0 <= current[s] /\ current[s] <= 30
  BY DEF SharesFit
<1>4. /\ SumFunctionOnSet(current, Strategies) \in Int /\ Cardinality(Strategies) \in Nat
      /\ 0 * Cardinality(Strategies) <= SumFunctionOnSet(current, Strategies)
      /\ SumFunctionOnSet(current, Strategies) <= 30 * Cardinality(Strategies)
  BY <1>1, <1>3, SumWithin
<1>5. Utilized(value) = all \div value
  BY DEF Utilized
<1>6. ASSUME NEW a \in Nat, NEW v \in Nat, a < 30 * v PROVE a \div v < 30
  BY <1>6
<1> HIDE DEF all
<1>7. all \in Nat /\ all < 30 * value /\ value \in Nat
  BY <1>1, <1>2, <1>4
<1>8. QED
  BY <1>5, <1>6, <1>7

LEMMA CapitalStep ==
  ASSUME \A v \in PortfolioValues : Cardinality(Strategies) < v, CapitalInv, [WatchNext]_watchVars
  PROVE  CapitalInv'
<1>1. CASE Allocate
  BY <1>1, AllocateKeeps DEF CapitalInv, Allocate
<1>2. CASE CheckAllocation
  <2>1. PICK value \in PortfolioValues, position \in {0, 1} :
          /\ validity' = IF 100 * position > 30 * value THEN "concentrated"
                         ELSE IF Utilized(value) < 30 THEN "idle" ELSE "valid"
          /\ current' = current
    BY <1>2, Zenon DEF CheckAllocation
  <2>2. Utilized(value) < 30
    BY NeverUtilized DEF CapitalInv
  <2>3. validity' \in {"concentrated", "idle"}
    BY <2>1, <2>2, Zenon
  <2>4. QED
    BY <2>1, <2>3 DEF CapitalInv, SharesFit
<1>3. CASE UNCHANGED <<current, validity>>
  BY <1>3 DEF CapitalInv, SharesFit
<1>4. QED
  BY <1>1, <1>2, <1>3, WatchSteps

-----------------------------------------------------------------------------
(***************************************************************************)
(* The services together.                                                  *)
(***************************************************************************)

\* Each part takes its own steps, or none.
LEMMA EachPartSteps ==
  ASSUME [ServicesNext]_servicesVars
  PROVE  /\ [Next]_vars /\ [StoreNext]_storeVars /\ [ReplayNext]_replayVars
         /\ [OrderingNext]_orderingVars /\ [SupervisorNext]_supervisorVars
         /\ [SocketNext \/ Vote \/ MonitorNext]_liveVars
         /\ [RateNext \/ SyncNext]_schedulingVars
         /\ [AlertNext \/ HealNext \/ SurvivalNext \/ CapitalNext]_watchVars
BY Zenon DEF ServicesNext, servicesVars, busVars

\* What the stores and a replay keep holds while the other services run.
THEOREM StorageInvariance == ServicesSpec => [](EventsInv /\ SavesInv /\ ReplayInv)
<1>1. ServicesInit => EventsInv /\ SavesInv /\ ReplayInv
  BY EventsInit, SavesInit, ReplayInitial DEF ServicesInit
<1>2. EventsInv /\ SavesInv /\ ReplayInv /\ [ServicesNext]_servicesVars => EventsInv' /\ SavesInv' /\ ReplayInv'
  BY EachPartSteps, StoreAssumption, EventsStep, SavesStep, ReplayStep
<1>3. QED
  BY <1>1, <1>2, PTL DEF ServicesSpec

\* The file holds what was appended, once and in order, but for what it failed to
\* take; the table and Redis have nothing that did not go to the stores before them;
\* and a replay reads its table in order and
\* without gaps, but for rows that come in late (state/store.py, core/replay.py).
THEOREM StorageStaysFaithful == ServicesSpec => []StorageIsFaithful
<1>1. EventsInv /\ SavesInv /\ ReplayInv => StorageIsFaithful
  <2>1. EventsInv => LogInOrder /\ EventsAccounted /\ FileBeforeTable
    BY DEF EventsInv, InOrder, Rising, LogInOrder, LogIsAhead, FileBeforeTable
  <2>2. SavesInv => FallbackOnly
    BY DEF SavesInv
  <2>3. ReplayInv => ReplayedInOrder /\ NothingSkipped /\ SmallSnapshotCurrent
    BY DEF ReplayInv
  <2>4. QED
    BY <2>1, <2>2, <2>3 DEF StorageIsFaithful
<1>2. QED
  BY <1>1, StorageInvariance, PTL

\* What the request scheduler, the time synchronisation and the watchdogs keep.
LimitsInv == RateInv /\ SyncInv /\ AlertInv /\ ThrottleInv /\ HealInv /\ SurvivalInv /\ CapitalInv

\* LimitsInv is an invariant, under the two hypotheses of LimitsStayKept below.
THEOREM LimitsInvariance ==
  ASSUME AlertLimit <= AlertSlots, \A v \in PortfolioValues : Cardinality(Strategies) < v
  PROVE  ServicesSpec => []LimitsInv
<1>1. ServicesInit => LimitsInv
  <2>1. WatchInit => AlertInv /\ ThrottleInv /\ HealInv /\ SurvivalInv /\ CapitalInv
    BY AlertInitial, ThrottleInitial, HealInitial, SurvivalInitial, CapitalInitial
  <2>2. QED
    BY <2>1, RateInitial, SyncInitial DEF ServicesInit, LimitsInv
<1>2. LimitsInv /\ [ServicesNext]_servicesVars => LimitsInv'
  <2>1. SUFFICES ASSUME LimitsInv, [ServicesNext]_servicesVars PROVE LimitsInv'
    OBVIOUS
  <2>2. [WatchNext]_watchVars /\ [RateNext \/ SyncNext]_schedulingVars
    BY <2>1, EachPartSteps DEF WatchNext
  <2>3. RateInv' /\ SyncInv'
    BY <2>1, <2>2, RateStep, SyncStep DEF LimitsInv
  <2>4. AlertInv' /\ ThrottleInv' /\ HealInv' /\ SurvivalInv' /\ CapitalInv'
    BY <2>1, <2>2, AlertStep, ThrottleStep, HealStep, SurvivalStep, CapitalStep DEF LimitsInv
  <2>5. QED
    BY <2>3, <2>4 DEF LimitsInv
<1>3. QED
  BY <1>1, <1>2, PTL DEF ServicesSpec

\* The rate of requests is the one, and grants no more than the bucket holds and earns;
\* one outlier among the readings does not move the clock's offset out of the others; no
\* minute has more alerts than the limit, nor a cooldown two of a key; a check that keeps
\* failing is tried once in a recovery timeout; a strategy is never only warned; and no
\* allocation counts as utilized (engines/time_sync.py, monitoring/alerts.py,
\* engines/self_healing.py, engines/strategy_survival.py, engines/capital_efficiency.py).
\* The code guarantees neither hypothesis: a limit above the length of the deque is
\* never reached, and a portfolio is worth more than a unit of money per strategy in use.
THEOREM LimitsStayKept ==
  ASSUME AlertLimit <= AlertSlots, \A v \in PortfolioValues : Cardinality(Strategies) < v
  PROVE  ServicesSpec => []LimitsAreKept
<1>1. LimitsInv => LimitsAreKept
  <2>1. SUFFICES ASSUME LimitsInv PROVE LimitsAreKept
    OBVIOUS
  <2>2. RatesAgree
    <3>1. /\ lastRate = currentRate /\ granted \in Nat /\ tokens \in Nat /\ Burst \in Nat /\ earned \in Nat
          /\ granted + tokens = Burst + earned
          /\ second \in Nat /\ idle \in Nat /\ idle <= second /\ Rate \in Nat /\ earned <= Rate * (second - idle)
      BY <2>1, SchedulingAssumption DEF LimitsInv, RateInv
    <3>2. granted <= Burst + earned
      BY <3>1
    <3>3. Rate * (second - idle) <= Rate * second
      <4>1. ASSUME NEW r \in Nat, NEW n \in Nat, NEW m \in Nat, m <= n PROVE r * (n - m) <= r * n
        <5>1. r * (n - m) = r * n - r * m /\ r * m >= 0
          BY <4>1
        <5>2. r * n \in Nat /\ r * m \in Nat
          OBVIOUS
        <5>3. QED
          BY <5>1, <5>2
      <4>2. QED
        BY <3>1, <4>1
    <3>4. earned <= Rate * second
      <4>1. Rate * (second - idle) \in Int /\ Rate * second \in Int
        BY <3>1
      <4>2. QED
        BY <3>1, <3>3, <4>1
    <3>5. QED
      BY <3>1, <3>2, <3>4 DEF RatesAgree
  <2>3. OneOutlierIsIgnored
    BY <2>1, OutliersIgnored DEF LimitsInv
  <2>4. AlertsAreFew
    <3>1. FewPerMinute /\ ThrottleInv
      BY <2>1 DEF LimitsInv, AlertInv
    <3>2. QED
      BY <3>1, Zenon DEF AlertsAreFew, FewPerMinute, ThrottleInv
  <2>5. FailingIsLeftAlone
    BY <2>1, Zenon DEF LimitsInv, HealInv, BreakerInv, FailingIsLeftAlone
  <2>6. NeverOnlyWarned /\ NothingIsUtilized
    BY <2>1 DEF LimitsInv, SurvivalInv, CapitalInv, NothingIsUtilized
  <2>7. QED
    BY <2>2, <2>3, <2>4, <2>5, <2>6 DEF LimitsAreKept
<1>2. QED
  BY <1>1, LimitsInvariance, PTL

-----------------------------------------------------------------------------
(***************************************************************************)
(* What stays within its bounds: the stores, the reader of a replay, the   *)
(* order of events, the live data, and the watchdogs.                      *)
(***************************************************************************)

\* Everything that the stores know of was appended, and a task flushes for an event.
FlowFits ==
  /\ storage \in Deployments /\ storeUp \in {"up", "closing", "down"}
  /\ appended \in 0 .. MaxEvents /\ scheduled \in 0 .. appended
  /\ pending \in Seq(1 .. appended) /\ Len(pending) <= MaxBuffer
  /\ ToSet(eventLog) \cup eventTable \cup objects \cup dropped \cup unwritten \subseteq 1 .. appended
  /\ \A f \in inserting : f.batch \subseteq 1 .. appended

SavingFits ==
  saving \in [what : {"nothing", "position", "portfolio"}, value : Nat, at : {"postgres", "redis", "done"}]

LEMMA StoreFitsInitial == StoreInit => FlowFits /\ SavingFits
<1> SUFFICES ASSUME StoreInit PROVE FlowFits /\ SavingFits
  OBVIOUS
<1>1. MaxBuffer \in Nat /\ MaxEvents \in Nat /\ storage \in Deployments
  BY StoreAssumption DEF StoreInit, MaxEvents
<1>2. ToSet(<<>>) = {} /\ <<>> \in Seq(1 .. 0) /\ Len(<<>>) = 0
  BY DEF ToSet
<1>3. FlowFits
  BY <1>1, <1>2 DEF StoreInit, FlowFits
<1>4. SavingFits
  BY DEF StoreInit, SavingFits, Nothing
<1>5. QED
  BY <1>3, <1>4

\* What a sequence has, and nothing else, is among its elements.
LEMMA HasElements ==
  ASSUME NEW S, NEW s \in Seq(S)
  PROVE  /\ \A i \in 1 .. Len(s) : s[i] \in ToSet(s) /\ s[i] \in S
         /\ \A T : (\A i \in 1 .. Len(s) : s[i] \in T) => ToSet(s) \subseteq T
<1>1. ToSet(s) = {s[i] : i \in 1 .. Len(s)}
  BY ElementsOf
<1>2. \A i \in 1 .. Len(s) : s[i] \in S
  OBVIOUS
<1>3. \A i \in 1 .. Len(s) : s[i] \in ToSet(s)
  BY <1>1, Zenon
<1>4. ASSUME NEW T, \A i \in 1 .. Len(s) : s[i] \in T PROVE ToSet(s) \subseteq T
  BY <1>1, <1>4, Zenon
<1>5. QED
  BY <1>2, <1>3, <1>4

\* What a flush adds to the file was in the buffer.
LEMMA FileGetsBuffer ==
  ASSUME NEW log \in Seq(Nat), NEW batch \in Seq(Nat), NEW n \in 0 .. Len(batch)
  PROVE  ToSet(log \o SubSeq(batch, 1, n)) \subseteq ToSet(log) \cup ToSet(batch)
<1> DEFINE w == SubSeq(batch, 1, n)
           all == log \o w
<1>2. w \in Seq(Nat) /\ Len(w) = n /\ \A i \in 1 .. n : w[i] = batch[i]
  <2>1. \A i \in 1 .. n : batch[i] \in Nat
    OBVIOUS
  <2>2. QED
    BY <2>1, SubSeqProperties
<1>3. /\ all \in Seq(Nat) /\ Len(all) = Len(log) + n
      /\ \A i \in 1 .. Len(log) + n : all[i] = IF i <= Len(log) THEN log[i] ELSE batch[i - Len(log)]
  <2> HIDE DEF w
  <2>1. /\ all \in Seq(Nat) /\ Len(all) = Len(log) + Len(w)
        /\ \A i \in 1 .. Len(log) + Len(w) : all[i] = IF i <= Len(log) THEN log[i] ELSE w[i - Len(log)]
    BY <1>2, ConcatProperties
  <2>2. Len(log) \in Nat /\ n \in Nat
    OBVIOUS
  <2>3. \A i \in 1 .. Len(log) + n : ~ i <= Len(log) => i - Len(log) \in 1 .. n
    BY <2>2
  <2>4. QED
    BY <1>2, <2>1, <2>2, <2>3
<1> HIDE DEF all, w
<1>4. /\ \A i \in 1 .. Len(log) : log[i] \in ToSet(log)
      /\ \A i \in 1 .. Len(batch) : batch[i] \in ToSet(batch)
  BY HasElements
<1>5. ASSUME NEW i \in 1 .. Len(all) PROVE all[i] \in ToSet(log) \cup ToSet(batch)
  <2>1. CASE i <= Len(log)
    BY <1>3, <1>4, <2>1
  <2>2. CASE ~ (i <= Len(log))
    <3>1. i - Len(log) \in 1 .. Len(batch)
      BY <1>3, <2>2
    <3>2. QED
      BY <1>3, <1>4, <2>2, <3>1
  <2>3. QED
    BY <2>1, <2>2
<1>6. ToSet(all) \subseteq ToSet(log) \cup ToSet(batch)
  BY <1>3, <1>5, HasElements
<1>7. QED
  BY <1>6 DEF all, w

\* An event is appended to the buffer, which may drop its oldest.
LEMMA BufferFits ==
  ASSUME EventsInv, FlowFits, Buffer, UNCHANGED <<storage, storeUp>>, objects' \subseteq objects \cup {appended'}
  PROVE  FlowFits'
<1>1. /\ appended \in Nat /\ appended < MaxEvents /\ MaxEvents \in Nat /\ MaxEvents' = MaxEvents
      /\ scheduled \in 0 .. appended /\ MaxBuffer \in Nat \ {0} /\ pending \in Seq(1 .. appended)
      /\ Len(pending) \in Nat /\ Len(pending) <= MaxBuffer
  <2>1. storage \in Deployments /\ pending \in Seq(1 .. appended) /\ Len(pending) <= MaxBuffer
        /\ scheduled \in 0 .. appended /\ appended < MaxEvents
    BY DEF FlowFits, Buffer
  <2>2. appended \in Nat /\ MaxEvents \in Nat /\ MaxEvents' = MaxEvents /\ MaxBuffer \in Nat \ {0}
    BY <2>1, StoreAssumption DEF EventsInv, FlowTyped, MaxEvents
  <2>3. QED
    BY <2>1, <2>2
<1> DEFINE rest == IF Len(pending) = MaxBuffer THEN Tail(pending) ELSE pending
<1>2. /\ appended' = appended + 1 /\ pending' = Append(rest, appended')
      /\ dropped' = (IF Len(pending) = MaxBuffer THEN dropped \cup {Head(pending)} ELSE dropped)
      /\ scheduled' = scheduled \/ scheduled' = scheduled + 1
      /\ UNCHANGED <<inserting, eventLog, eventTable, unwritten>>
  BY DEF Buffer
<1>3. rest \in Seq(1 .. appended) /\ Len(rest) + 1 <= MaxBuffer /\ Len(rest) \in Nat
      /\ dropped' \subseteq dropped \cup 1 .. appended
  <2>1. CASE Len(pending) = MaxBuffer
    <3>1. pending # <<>>
      BY <1>1, <2>1
    <3>2. Head(pending) \in 1 .. appended /\ Tail(pending) \in Seq(1 .. appended)
          /\ Len(Tail(pending)) = Len(pending) - 1
      BY <1>1, <3>1, HeadTailProperties
    <3>3. rest = Tail(pending) /\ dropped' = dropped \cup {Head(pending)}
      BY <1>2, <2>1
    <3> HIDE DEF rest
    <3>4. QED
      BY <1>1, <2>1, <3>2, <3>3
  <2>2. CASE Len(pending) # MaxBuffer
    <3>1. rest = pending /\ dropped' = dropped
      BY <1>2, <2>2
    <3> HIDE DEF rest
    <3>2. QED
      BY <1>1, <2>2, <3>1
  <2>3. QED
    BY <2>1, <2>2
<1> HIDE DEF rest
<1>4. 1 .. appended \subseteq 1 .. appended' /\ appended' \in 1 .. appended'
  BY <1>1, <1>2
<1>5. pending' \in Seq(1 .. appended') /\ Len(pending') <= MaxBuffer
  <2>1. rest \in Seq(1 .. appended')
    BY <1>3, <1>4, SequenceOfMore
  <2>2. Append(rest, appended') \in Seq(1 .. appended') /\ Len(Append(rest, appended')) = Len(rest) + 1
    BY <1>4, <2>1
  <2>3. QED
    BY <1>2, <1>3, <2>2
<1>6. appended' \in 0 .. MaxEvents' /\ scheduled' \in 0 .. appended'
  BY <1>1, <1>2
<1>7. /\ ToSet(eventLog') \cup eventTable' \cup objects' \cup dropped' \cup unwritten' \subseteq 1 .. appended'
      /\ \A f \in inserting' : f.batch \subseteq 1 .. appended'
  BY <1>2, <1>3, <1>4 DEF FlowFits
<1>8. QED
  BY <1>5, <1>6, <1>7 DEF FlowFits

\* A flush empties the buffer, and what it leaves on the way was in the buffer.
LEMMA FlushFits ==
  ASSUME EventsInv, FlowFits, storage' = storage, storeUp' \in {"up", "closing", "down"},
         WriteToLog(pending), pending' = <<>>,
         \A f \in inserting' : f \in inserting \/ f.batch = ToSet(pending),
         eventTable' \subseteq eventTable \cup UNION {f.batch : f \in inserting},
         UNCHANGED <<appended, objects, dropped>>, scheduled' \in 0 .. appended
  PROVE  FlowFits'
<1>1. /\ pending \in Seq(1 .. appended) /\ eventLog \in Seq(Nat) /\ pending \in Seq(Nat)
      /\ MaxEvents' = MaxEvents /\ MaxBuffer \in Nat
  BY StoreAssumption DEF EventsInv, FlowTyped, FlowFits, MaxEvents
<1>2. ToSet(pending) \subseteq 1 .. appended
  <2>1. \A i \in 1 .. Len(pending) : pending[i] \in 1 .. appended
    BY <1>1, HasElements
  <2>2. QED
    BY <1>1, <2>1, HasElements
<1>3. /\ ToSet(eventLog') \subseteq ToSet(eventLog) \cup ToSet(pending)
      /\ unwritten' \subseteq unwritten \cup ToSet(pending)
  <2>1. PICK n \in 0 .. Len(pending) :
          /\ eventLog' = eventLog \o SubSeq(pending, 1, n)
          /\ unwritten' = unwritten \cup {pending[i] : i \in n + 1 .. Len(pending)}
    BY <1>1, WrittenIsPrefix
  <2>2. ToSet(eventLog') \subseteq ToSet(eventLog) \cup ToSet(pending)
    BY <1>1, <2>1, FileGetsBuffer
  <2>3. n + 1 .. Len(pending) \subseteq 1 .. Len(pending)
    BY <1>1
  <2>4. \A i \in 1 .. Len(pending) : pending[i] \in ToSet(pending)
    BY <1>1, HasElements
  <2>5. QED
    BY <2>1, <2>2, <2>3, <2>4
<1>4. <<>> \in Seq(1 .. appended) /\ Len(<<>>) <= MaxBuffer
  BY <1>1
<1>5. eventTable' \subseteq 1 .. appended
  BY DEF FlowFits
<1>6. QED
  BY <1>1, <1>2, <1>3, <1>4, <1>5 DEF FlowFits

LEMMA FlowFitsStep ==
  ASSUME EventsInv, FlowFits, [StoreNext]_storeVars
  PROVE  FlowFits'
<1>0. /\ appended \in Nat /\ scheduled \in 0 .. appended /\ storeUp \in {"up", "closing", "down"}
      /\ storage \in Deployments
  BY DEF EventsInv, FlowTyped, FlowFits
<1>1. CASE AppendEvent
  BY <1>1, BufferFits DEF AppendEvent
<1>2. CASE Recover
  BY <1>2, BufferFits DEF Recover
<1>3. CASE FlushTask
  <2>1. /\ WriteToLog(pending) /\ pending' = <<>>
        /\ \A f \in inserting' : f \in inserting \/ f = [who |-> "task", batch |-> ToSet(pending)]
        /\ UNCHANGED <<storage, storeUp, eventTable, appended, objects, dropped>>
    BY <1>3 DEF FlushTask, Flush
  <2>2. \A f \in inserting' : f \in inserting \/ f.batch = ToSet(pending)
    BY <2>1
  <2>3. scheduled' \in 0 .. appended
    BY <1>0, <1>3 DEF FlushTask
  <2>4. QED
    BY <1>0, <2>1, <2>2, <2>3, FlushFits
<1>4. CASE FlushLoop
  <2>1. PICK who \in {"flush loop", "checkpoint loop"} :
          /\ WriteToLog(pending) /\ pending' = <<>>
          /\ \A f \in inserting' : f \in inserting \/ f = [who |-> who, batch |-> ToSet(pending)]
          /\ UNCHANGED <<storage, storeUp, scheduled, eventTable, appended, objects, dropped>>
    BY <1>4 DEF FlushLoop, Flush
  <2>2. \A f \in inserting' : f \in inserting \/ f.batch = ToSet(pending)
    <3>1. [who |-> who, batch |-> ToSet(pending)].batch = ToSet(pending)
      OBVIOUS
    <3>2. QED
      BY <2>1, <3>1, Zenon
  <2>3. QED
    BY <1>0, <2>1, <2>2, FlushFits
<1>5. CASE Insert
  <2>1. PICK f \in inserting :
          /\ eventTable' \subseteq eventTable \cup f.batch /\ inserting' = inserting \ {f}
          /\ UNCHANGED <<storage, storeUp, pending, scheduled, eventLog, appended, objects, dropped, unwritten>>
    BY <1>5 DEF Insert
  <2>2. MaxEvents' = MaxEvents /\ ToSet(eventLog') = ToSet(eventLog)
    BY <2>1 DEF MaxEvents
  <2>3. QED
    BY <2>1, <2>2 DEF FlowFits
<1>6. CASE Disconnect
  <2> DEFINE cut == {f \in inserting : f.who # "task"}
             last == [who |-> "task", batch |-> ToSet(pending)]
  <2>1. /\ CutOff(cut) /\ \A f \in inserting' : f \in inserting \/ f = last
        /\ WriteToLog(pending) /\ pending' = <<>> /\ storeUp' = "closing"
        /\ UNCHANGED <<storage, scheduled, appended, objects, dropped>>
    BY <1>6 DEF Disconnect
  <2>2. eventTable' \subseteq eventTable \cup UNION {f.batch : f \in inserting}
    <3>1. PICK landed \in SUBSET cut : eventTable' = eventTable \cup UNION {f.batch : f \in landed}
      BY <2>1 DEF CutOff
    <3>2. landed \subseteq inserting
      OBVIOUS
    <3>3. QED
      BY <3>1, <3>2
  <2>3. \A f \in inserting' : f \in inserting \/ f.batch = ToSet(pending)
    BY <2>1
  <2>4. QED
    BY <1>0, <2>1, <2>2, <2>3, FlushFits
<1>7. CASE CrashStore
  <2>1. /\ CutOff(inserting) /\ inserting' = {} /\ storeUp' = "down"
        /\ dropped' = dropped \cup ToSet(pending) /\ pending' = <<>> /\ scheduled' = 0
        /\ UNCHANGED <<storage, eventLog, appended, objects, unwritten>>
    BY <1>7 DEF CrashStore
  <2>2. eventTable' \subseteq eventTable \cup UNION {f.batch : f \in inserting}
    <3>1. PICK landed \in SUBSET inserting : eventTable' = eventTable \cup UNION {f.batch : f \in landed}
      BY <2>1 DEF CutOff
    <3>2. QED
      BY <3>1
  <2>3. ToSet(pending) \subseteq 1 .. appended /\ eventTable' \subseteq 1 .. appended
    <3>1. pending \in Seq(1 .. appended)
      BY DEF FlowFits
    <3>2. ToSet(pending) \subseteq 1 .. appended
      <4>1. \A i \in 1 .. Len(pending) : pending[i] \in 1 .. appended
        BY <3>1, HasElements
      <4>2. QED
        BY <3>1, <4>1, HasElements
    <3>3. QED
      BY <2>2, <3>2 DEF FlowFits
  <2>4. <<>> \in Seq(1 .. appended) /\ Len(<<>>) <= MaxBuffer /\ MaxEvents' = MaxEvents
    BY <2>1, StoreAssumption DEF MaxEvents
  <2>5. pending' \in Seq(1 .. appended') /\ Len(pending') <= MaxBuffer /\ scheduled' \in 0 .. appended'
    BY <1>0, <2>1, <2>4
  <2>6. /\ ToSet(eventLog') \cup eventTable' \cup objects' \cup dropped' \cup unwritten' \subseteq 1 .. appended'
        /\ \A f \in inserting' : f.batch \subseteq 1 .. appended'
    BY <2>1, <2>3 DEF FlowFits
  <2>7. appended' \in 0 .. MaxEvents' /\ storeUp' \in {"up", "closing", "down"} /\ storage' \in Deployments
    BY <1>0, <2>1, <2>4 DEF FlowFits
  <2>8. QED
    BY <2>5, <2>6, <2>7 DEF FlowFits
<1>8. CASE UNCHANGED <<storage, events>> /\ storeUp' \in {"up", "closing", "down"}
  BY <1>8 DEF FlowFits, events, MaxEvents
<1>9. CASE Closed \/ Connect \/ ServerAnswers \/ \E what \in {"position", "portfolio"} : Save(what)
  BY <1>0, <1>8, <1>9 DEF Closed, Connect, ServerAnswers, Save
<1>10. CASE UNCHANGED storeVars
  BY <1>0, <1>8, <1>10 DEF storeVars
<1>11. QED
  BY <1>1, <1>2, <1>3, <1>4, <1>5, <1>6, <1>7, <1>9, <1>10 DEF StoreNext

\* A save goes from server to server.
LEMMA SavingFitsStep ==
  ASSUME SavingFits, SavesInv', [StoreNext]_storeVars
  PROVE  SavingFits'
<1>1. ASSUME NEW what \in {"position", "portfolio"}, Save(what) PROVE SavingFits'
  <2>1. /\ saving' = [what |-> what, value |-> saving'.value, at |-> FirstServer(what)]
        /\ saving' # Nothing
    BY <1>1 DEF Save, Nothing
  <2>2. saving'.value \in Nat
    BY <2>1 DEF SavesInv, FallbackRefused, Nothing
  <2>3. FirstServer(what) \in {"postgres", "redis", "done"}
    BY DEF FirstServer
  <2>4. QED
    BY <2>1, <2>2, <2>3 DEF SavingFits
<1>2. CASE ServerAnswers
  <2>1. PICK failing \in BOOLEAN :
          saving' = IF NextServer(failing) = "done" THEN Nothing ELSE [saving EXCEPT !.at = NextServer(failing)]
    BY <1>2 DEF ServerAnswers
  <2>2. NextServer(failing) \in {"postgres", "redis", "done"}
    BY DEF NextServer
  <2>3. QED
    BY <2>1, <2>2 DEF SavingFits, Nothing
<1>3. CASE saving' = saving
  BY <1>3 DEF SavingFits
<1>4. CASE CrashStore
  BY <1>4 DEF CrashStore, SavingFits, Nothing
<1>5. CASE AppendEvent \/ FlushTask \/ FlushLoop \/ Insert \/ Disconnect \/ Closed \/ Connect \/ Recover \/ UNCHANGED storeVars
  BY <1>3, <1>5 DEF AppendEvent, FlushTask, FlushLoop, Insert, Disconnect, Closed, Connect, Recover, storeVars, saves
<1>6. QED
  BY <1>1, <1>2, <1>4, <1>5 DEF StoreNext

LEMMA StoreTypes ==
  ASSUME EventsInv, FlowFits, SavingFits
  PROVE  StoreTypeOK
<1>1. /\ storage \in Deployments /\ MaxEvents \in Nat /\ appended \in 0 .. MaxEvents /\ scheduled \in 0 .. appended
      /\ MaxBuffer \in Nat
  BY StoreAssumption DEF FlowFits, MaxEvents
<1>2. pending \in BoundedSeq(1 .. MaxEvents, MaxBuffer)
  <2>1. 1 .. appended \subseteq 1 .. MaxEvents
    BY <1>1
  <2>2. pending \in Seq(1 .. appended) /\ Len(pending) <= MaxBuffer
    BY DEF FlowFits
  <2>3. pending \in Seq(1 .. MaxEvents)
    BY <2>1, <2>2, SequenceOfMore
  <2>4. QED
    BY <1>1, <2>2, <2>3, BoundedSequence
<1>3. scheduled \in 0 .. MaxEvents
  BY <1>1
<1>4. saving.at \in {"postgres", "redis", "done"}
  BY DEF SavingFits
<1>5. QED
  BY <1>2, <1>3, <1>4 DEF StoreTypeOK, FlowFits

-----------------------------------------------------------------------------
\* The reader asks what it was asked, and the table is no longer than its bound.
ReplayFits ==
  /\ request \in Requests /\ drawn \in 0 .. MaxOffset
  /\ reader \in {"fetch", "work", "done", "error"}

LEMMA ReplayFitsInitial == ReplayInit => ReplayFits
BY ReplayAssumption DEF ReplayInit, ReplayFits

LEMMA ReplayFitsStep == ReplayFits /\ [ReplayNext]_replayVars => ReplayFits'
<1> SUFFICES ASSUME ReplayFits, [ReplayNext]_replayVars PROVE ReplayFits'
  OBVIOUS
<1>1. CASE Draw
  BY <1>1, ReplayAssumption DEF Draw, ReplayFits, reading
<1>2. CASE CommitRow \/ BurnOffset \/ LatestOffset \/ TakeSnapshot
  BY <1>2 DEF CommitRow, BurnOffset, LatestOffset, TakeSnapshot, ReplayFits, reading, table
<1>3. CASE Fetch \/ Break \/ PageDone
  BY <1>3 DEF Fetch, Break, PageDone, ReplayFits, table
<1>4. CASE Process
  BY <1>4 DEF Process, ReplayFits, table
<1>5. CASE UNCHANGED replayVars
  BY <1>5 DEF replayVars, ReplayFits, reading, table
<1>6. QED
  BY <1>1, <1>2, <1>3, <1>4, <1>5 DEF ReplayNext

LEMMA ReplayTypes == ReplayInv /\ ReplayFits => ReplayTypeOK
<1> SUFFICES ASSUME ReplayInv, ReplayFits PROVE ReplayTypeOK
  OBVIOUS
<1>1. ToSet(page) \subseteq rows /\ ToSet(replayed) \subseteq rows
  <2>1. page \in Seq(rows) /\ replayed \in Seq(rows)
    BY DEF ReplayInv, PageIsNext, CursorAtLast
  <2>2. /\ \A i \in 1 .. Len(page) : page[i] \in rows
        /\ \A i \in 1 .. Len(replayed) : replayed[i] \in rows
    BY <2>1, HasElements
  <2>3. QED
    BY <2>1, <2>2, HasElements
<1>2. uncommitted \cup rows \subseteq 1 .. drawn /\ late \subseteq rows
  BY DEF ReplayInv, TableTyped
<1>3. cursor \in {0} \cup rows /\ failed \subseteq rows
  BY DEF ReplayInv, CursorAtLast
<1>4. QED
  BY <1>1, <1>2, <1>3 DEF ReplayTypeOK, ReplayFits

-----------------------------------------------------------------------------
(***************************************************************************)
(* EventOrderingEngine: the loop only waits for the lock of a callback.    *)
(***************************************************************************)

OrderingInv ==
  /\ callbacks \in Callbacks
  /\ sequences \in [Symbols -> [last : 0 .. MaxSequence, gap : BOOLEAN]]
  /\ notifying = Nobody \/ notifying \in [symbol : Symbols, sequence : 1 .. MaxSequence]
  /\ notifying # Nobody => callbacks # {}
  /\ loopBlocked \in BOOLEAN /\ (loopBlocked => notifying # Nobody)
  /\ delivered \in [Symbols -> Seq(1 .. MaxSequence)]

LEMMA OrderingInitial == OrderingInit => OrderingInv
<1> SUFFICES ASSUME OrderingInit PROVE OrderingInv
  OBVIOUS
<1>1. Fresh \in [last : 0 .. MaxSequence, gap : BOOLEAN] /\ <<>> \in Seq(1 .. MaxSequence)
  BY OrderingAssumption DEF Fresh
<1>2. sequences \in [Symbols -> [last : 0 .. MaxSequence, gap : BOOLEAN]]
  BY <1>1 DEF OrderingInit
<1>3. delivered \in [Symbols -> Seq(1 .. MaxSequence)]
  BY <1>1 DEF OrderingInit
<1>4. QED
  BY <1>2, <1>3 DEF OrderingInit, OrderingInv

\* A number that arrives is the last of its symbol, and of what is delivered.
LEMMA ArriveKeeps ==
  ASSUME OrderingInv, NEW s \in Symbols, NEW n \in 1 .. MaxSequence, Arrive(s, n)
  PROVE  /\ sequences' \in [Symbols -> [last : 0 .. MaxSequence, gap : BOOLEAN]]
         /\ delivered' \in [Symbols -> Seq(1 .. MaxSequence)]
<1>1. n \in 0 .. MaxSequence
  BY OrderingAssumption
<1>2. sequences' \in [Symbols -> [last : 0 .. MaxSequence, gap : BOOLEAN]]
  <2>1. sequences[s] \in [last : 0 .. MaxSequence, gap : BOOLEAN]
    BY DEF OrderingInv
  <2>2. /\ sequences[s].gap \in BOOLEAN /\ LargeGap(s, n) \in BOOLEAN
        /\ sequences[s] = [last |-> sequences[s].last, gap |-> sequences[s].gap]
    BY <2>1 DEF LargeGap
  <2> HIDE DEF LargeGap
  <2>3. sequences' = [sequences EXCEPT ![s] = sequences'[s]]
    BY DEF Arrive, OrderingInv
  <2>4. sequences'[s].last = n /\ sequences'[s].gap \in BOOLEAN /\ DOMAIN sequences'[s] = {"last", "gap"}
    BY <2>1, <2>2 DEF Arrive, OrderingInv
  <2>5. sequences'[s] \in [last : 0 .. MaxSequence, gap : BOOLEAN]
    BY <1>1, <2>2, <2>4 DEF Arrive, OrderingInv
  <2>6. QED
    BY <2>3, <2>5 DEF OrderingInv
<1>3. delivered' \in [Symbols -> Seq(1 .. MaxSequence)]
  <2>1. delivered[s] \in Seq(1 .. MaxSequence)
    BY DEF OrderingInv
  <2>2. Append(delivered[s], n) \in Seq(1 .. MaxSequence)
    BY <2>1
  <2>3. delivered' = [delivered EXCEPT ![s] = Append(delivered[s], n)]
    BY DEF Arrive
  <2>4. QED
    BY <2>2, <2>3 DEF OrderingInv
<1>4. QED
  BY <1>2, <1>3

LEMMA OrderingStep == OrderingInv /\ [OrderingNext]_orderingVars => OrderingInv'
<1> SUFFICES ASSUME OrderingInv, [OrderingNext]_orderingVars PROVE OrderingInv'
  OBVIOUS
<1>1. ASSUME NEW s \in Symbols, NEW n \in 1 .. MaxSequence, ProcessEvent(s, n)
      PROVE  OrderingInv'
  <2>1. ~ loopBlocked /\ notifying = Nobody /\ callbacks' = callbacks
        /\ loopBlocked' \in BOOLEAN /\ (loopBlocked' => notifying' # Nobody)
    BY <1>1 DEF ProcessEvent
  <2>2. CASE Duplicate(s, n) /\ UNCHANGED <<sequences, notifying, delivered>>
    BY <2>1, <2>2 DEF OrderingInv, Nobody
  <2>3. CASE Arrive(s, n) /\ UNCHANGED notifying
    BY <2>1, <2>3, ArriveKeeps DEF OrderingInv, Nobody
  <2>4. CASE /\ callbacks # {} /\ notifying' = [symbol |-> s, sequence |-> n]
             /\ UNCHANGED <<sequences, delivered>>
    BY <2>1, <2>4 DEF OrderingInv, Nobody
  <2>5. QED
    BY <1>1, <2>2, <2>3, <2>4 DEF ProcessEvent
<1>2. ASSUME NEW s \in Symbols, ResetSequence(s) PROVE OrderingInv'
  <2>1. Fresh \in [last : 0 .. MaxSequence, gap : BOOLEAN]
    BY OrderingAssumption DEF Fresh
  <2>2. sequences' \in [Symbols -> [last : 0 .. MaxSequence, gap : BOOLEAN]]
    BY <1>2, <2>1 DEF ResetSequence, OrderingInv
  <2>3. QED
    BY <1>2, <2>2 DEF ResetSequence, OrderingInv, Nobody
<1>3. CASE Notified
  <2>1. notifying \in [symbol : Symbols, sequence : 1 .. MaxSequence]
    BY <1>3 DEF Notified, OrderingInv
  <2>2. /\ sequences' \in [Symbols -> [last : 0 .. MaxSequence, gap : BOOLEAN]]
        /\ delivered' \in [Symbols -> Seq(1 .. MaxSequence)]
    <3>1. notifying.symbol \in Symbols /\ notifying.sequence \in 1 .. MaxSequence
      BY <2>1
    <3>2. Arrive(notifying.symbol, notifying.sequence)
      BY <1>3 DEF Notified
    <3>3. QED
      BY <3>1, <3>2, ArriveKeeps
  <2>3. QED
    BY <1>3, <2>2 DEF Notified, OrderingInv
<1>4. CASE Collide
  BY <1>4 DEF Collide, OrderingInv, Nobody
<1>5. CASE UNCHANGED orderingVars
  BY <1>5 DEF orderingVars, OrderingInv, Nobody
<1>6. QED
  BY <1>1, <1>2, <1>3, <1>4, <1>5 DEF OrderingNext

LEMMA OrderingTypes == OrderingInv => OrderingTypeOK /\ BlockedByCallback
<1> SUFFICES ASSUME OrderingInv PROVE OrderingTypeOK /\ BlockedByCallback
  OBVIOUS
<1>1. notifying.symbol \in Symbols \cup {"none"}
  BY DEF OrderingInv, Nobody
<1>2. QED
  BY <1>1 DEF OrderingInv, OrderingTypeOK, BlockedByCallback

-----------------------------------------------------------------------------
(***************************************************************************)
(* The sockets, the vote and the monitor of LiveData.                      *)
(***************************************************************************)

SocketStates == {"none", "opening", "open", "waiting", "closed", "given_up", "cancelled"}

SocketInv ==
  /\ feedRunning \in BOOLEAN /\ sock \in [Sockets -> SocketStates]
  /\ connected \in [Sockets -> BOOLEAN] /\ reconnects \in [Sockets -> 0 .. MaxReconnects]
  /\ SilentWhenStopped /\ GivenUpLast

LEMMA SocketInitial == LiveInit => SocketInv
<1> SUFFICES ASSUME LiveInit PROVE SocketInv
  OBVIOUS
<1>1. 0 \in 0 .. MaxReconnects
  BY LiveAssumption
<1>2. QED
  BY <1>1 DEF LiveInit, SocketInv, SocketStates, SilentWhenStopped, GivenUpLast

LEMMA SocketStep == SocketInv /\ [SocketNext \/ Vote \/ MonitorNext]_liveVars => SocketInv'
<1> SUFFICES ASSUME SocketInv, [SocketNext \/ Vote \/ MonitorNext]_liveVars PROVE SocketInv'
  OBVIOUS
<1> USE DEF SocketInv, SocketStates, SilentWhenStopped, GivenUpLast
<1>0. MaxReconnects \in Nat
  BY LiveAssumption
<1>1. CASE StartFeeds
  BY <1>1 DEF StartFeeds
<1>2. CASE StopFeeds
  BY <1>2 DEF StopFeeds
<1>3. ASSUME NEW e \in Sockets, Open(e) PROVE SocketInv'
  <2>1. feedRunning /\ 0 \in 0 .. MaxReconnects
    BY <1>0, <1>3 DEF Open
  <2>2. QED
    BY <1>3, <2>1 DEF Open
<1>4. ASSUME NEW e \in Sockets, CloseCleanly(e) PROVE SocketInv'
  <2>1. feedRunning
    BY <1>4 DEF CloseCleanly
  <2>2. QED
    BY <1>4, <2>1 DEF CloseCleanly
<1>5. ASSUME NEW e \in Sockets, Fail(e) PROVE SocketInv'
  <2>1. feedRunning /\ UNCHANGED feedRunning /\ connected' = [connected EXCEPT ![e] = FALSE]
    BY <1>5 DEF Fail
  <2>2. CASE reconnects[e] >= MaxReconnects /\ sock' = [sock EXCEPT ![e] = "given_up"] /\ UNCHANGED reconnects
    <3>1. reconnects[e] = MaxReconnects
      BY <1>0, <2>2
    <3>2. QED
      BY <2>1, <2>2, <3>1
  <2>3. CASE /\ ~ (reconnects[e] >= MaxReconnects) /\ sock' = [sock EXCEPT ![e] = "waiting"]
             /\ reconnects' = [reconnects EXCEPT ![e] = @ + 1]
    <3>1. reconnects[e] + 1 \in 0 .. MaxReconnects
      BY <1>0, <2>3
    <3>2. QED
      BY <2>1, <2>3, <3>1
  <2>4. QED
    BY <1>5, <2>2, <2>3 DEF Fail
<1>6. ASSUME NEW e \in Sockets, Reconnect(e) PROVE SocketInv'
  <2>1. feedRunning
    BY <1>6 DEF Reconnect
  <2>2. QED
    BY <1>6, <2>1 DEF Reconnect
<1>7. CASE Vote \/ MonitorNext
  <2>1. UNCHANGED socketVars
    BY <1>7 DEF Vote, MonitorNext, Age, ForgetJumps, ResetMonitor, RecordPrice
  <2>2. QED
    BY <2>1 DEF socketVars
<1>8. CASE UNCHANGED liveVars
  BY <1>8 DEF liveVars, socketVars
<1>9. QED
  BY <1>1, <1>2, <1>3, <1>4, <1>5, <1>6, <1>7, <1>8 DEF SocketNext

MonitorInv == points \in 0 .. WindowSize /\ gaps \in 0 .. GapLimit /\ dataAge \in 0 .. 4

LEMMA MonitorInitial == LiveInit => MonitorInv
BY LiveAssumption DEF LiveInit, MonitorInv

LEMMA MonitorStep == MonitorInv /\ [SocketNext \/ Vote \/ MonitorNext]_liveVars => MonitorInv'
<1> SUFFICES ASSUME MonitorInv, [SocketNext \/ Vote \/ MonitorNext]_liveVars PROVE MonitorInv'
  OBVIOUS
<1>0. WindowSize \in Nat /\ GapLimit \in Nat
  BY LiveAssumption
<1>1. CASE SocketNext \/ Vote
  BY <1>1 DEF SocketNext, StartFeeds, StopFeeds, Open, CloseCleanly, Fail, Reconnect, Vote, monitorVars, MonitorInv
<1>2. CASE Age \/ ForgetJumps \/ ResetMonitor
  BY <1>0, <1>2 DEF Age, ForgetJumps, ResetMonitor, MonitorInv
<1>3. ASSUME NEW jumped \in BOOLEAN, RecordPrice(jumped) PROVE MonitorInv'
  BY <1>0, <1>3 DEF RecordPrice, MonitorInv
<1>4. CASE UNCHANGED liveVars
  BY <1>4 DEF liveVars, monitorVars, MonitorInv
<1>5. QED
  BY <1>1, <1>2, <1>3, <1>4 DEF MonitorNext

LEMMA LiveTypes == SocketInv /\ MonitorInv => LiveTypeOK
<1> SUFFICES ASSUME SocketInv, MonitorInv PROVE LiveTypeOK
  OBVIOUS
<1>1. \A e \in Sockets : connected[e] \in BOOLEAN /\ reconnects[e] \in 0 .. MaxReconnects
  BY DEF SocketInv
<1>2. {feedRunning} \cup {connected[e] : e \in Sockets} \subseteq BOOLEAN
  BY <1>1, Zenon DEF SocketInv
<1>3. QED
  BY <1>1, <1>2 DEF SocketInv, SocketStates, MonitorInv, LiveTypeOK

\* What has been silent for so long is worth 61 of the 70 hundredths at most.
LEMMA QuietIsIll == MonitorInv => QuietIsUnhealthy
<1> SUFFICES ASSUME MonitorInv, dataAge >= 3, MonitorHealthy PROVE FALSE
  BY DEF QuietIsUnhealthy
<1>1. dataAge = 3
  BY DEF MonitorInv, MonitorHealthy
<1> DEFINE lossy == points >= MinPoints /\ jumps * 100 > points
           accurate == IF lossy THEN 0 ELSE 20
<1>2. 0 + 21 + accurate + 20 >= 70
  BY <1>1 DEF MonitorHealthy
<1>3. accurate \in {0, 20}
  OBVIOUS
<1> HIDE DEF accurate
<1>4. QED
  BY <1>2, <1>3

-----------------------------------------------------------------------------
\* One of the quotes is the k-th, and so the median is a number.
LEMMA MedianIsNumber ==
  ASSUME NEW S, IsFiniteSet(S), S # {}, NEW quotes \in [S -> Nat]
  PROVE  MedianTwice(quotes) \in Int
<1> DEFINE below(s) == Cardinality({t \in S : quotes[t] < quotes[s]})
           upTo(s) == Cardinality({t \in S : quotes[t] <= quotes[s]})
           n == Cardinality(S)
           at(k) == quotes[CHOOSE s \in S : below(s) < k /\ k <= upTo(s)]
<1>1. n \in Nat \ {0} /\ DOMAIN quotes = S
  BY FS_CardinalityType, FS_EmptySet
<1>2. ASSUME NEW k \in 1 .. n PROVE at(k) \in Int
  <2>1. k - 1 \in Nat /\ k - 1 < Cardinality(S) /\ quotes \in [S -> Int]
    BY <1>1
  <2>2. PICK s \in S : \E under, among \in SUBSET S :
          /\ \A t \in S : (t \in under <=> quotes[t] < quotes[s]) /\ (t \in among <=> quotes[t] <= quotes[s])
          /\ Cardinality(under) <= k - 1 /\ k - 1 < Cardinality(among)
    <3> HIDE DEF n
    <3>1. QED
      BY <2>1, OrderStatistic
  <2>3. PICK under \in SUBSET S, among \in SUBSET S :
          /\ \A t \in S : (t \in under <=> quotes[t] < quotes[s]) /\ (t \in among <=> quotes[t] <= quotes[s])
          /\ Cardinality(under) <= k - 1 /\ k - 1 < Cardinality(among)
    BY <2>2
  <2>4. under = {t \in S : quotes[t] < quotes[s]} /\ among = {t \in S : quotes[t] <= quotes[s]}
    BY <2>3
  <2>5. Cardinality(under) \in Nat /\ Cardinality(among) \in Nat
    BY FS_Subset, FS_CardinalityType
  <2>6. Cardinality(under) < k /\ k <= Cardinality(among)
    BY <2>3, <2>5
  <2>7. below(s) < k /\ k <= upTo(s)
    BY <2>4, <2>6
  <2>8. (CHOOSE t \in S : below(t) < k /\ k <= upTo(t)) \in S
    <3> HIDE DEF below, upTo
    <3>1. QED
      BY <2>7
  <2> HIDE DEF below, upTo
  <2>9. QED
    BY <2>8
<1>3. (n + 1) \div 2 \in 1 .. n /\ (n \div 2) + 1 \in 1 .. n
  <2> HIDE DEF n
  <2>1. QED
    BY <1>1
<1>4. MedianTwice(quotes) = at((n + 1) \div 2) + at((n \div 2) + 1)
  BY <1>1 DEF MedianTwice
<1>5. at((n + 1) \div 2) \in Int /\ at((n \div 2) + 1) \in Int
  <2> HIDE DEF at, n
  <2>1. QED
    BY <1>2, <1>3
<1> HIDE DEF at, n
<1>6. QED
  BY <1>4, <1>5

\* The prices of sources lie between two of them.
LEMMA QuotesSpan ==
  ASSUME NEW U, IsFiniteSet(U), U # {}, NEW f, \A s \in U : f[s] \in Nat
  PROVE  LET all == {f[s] : s \in U} IN
         /\ Min(all) \in all /\ Max(all) \in all /\ all \subseteq Nat
         /\ \A s \in U : Min(all) <= f[s] /\ f[s] <= Max(all)
<1> DEFINE all == {f[s] : s \in U}
<1>1. all \in SUBSET Int /\ IsFiniteSet(all) /\ all # {} /\ all \subseteq Nat
  BY FiniteImage
<1>2. \A s \in U : f[s] \in all
  OBVIOUS
<1> HIDE DEF all
<1>3. /\ Min(all) \in all /\ Max(all) \in all
      /\ \A n \in all : Min(all) <= n /\ n <= Max(all)
  BY <1>1, Extremes
<1>4. QED
  BY <1>1, <1>2, <1>3 DEF all

\* A weighted mean lies between what it is a mean of.
LEMMA MeanIsBetween ==
  ASSUME NEW U, IsFiniteSet(U), U # {}, NEW w, NEW f, \A s \in U : w[s] \in Nat \ {0} /\ f[s] \in Nat
  PROVE  LET all == {f[s] : s \in U}
             total == SumFunctionOnSet(w, U)
             sum == SumFunctionOnSet([s \in U |-> w[s] * f[s]], U)
         IN  total * Min(all) <= sum /\ sum <= total * Max(all)
<1> DEFINE all == {f[s] : s \in U}
           total == SumFunctionOnSet(w, U)
           parts == [s \in U |-> w[s] * f[s]]
           low == Min(all)
           high == Max(all)
           lows == [s \in U |-> w[s] * low]
           highs == [s \in U |-> w[s] * high]
<1>1. low \in Nat /\ high \in Nat /\ \A s \in U : low <= f[s] /\ f[s] <= high
  BY QuotesSpan
<1> HIDE DEF low, high
<1>2. \A a, b, c \in Nat : a * b \in Int /\ (b <= c => a * b <= a * c)
  OBVIOUS
<1>3. \A s \in U : /\ lows[s] \in Int /\ parts[s] \in Int /\ highs[s] \in Int
                   /\ lows[s] <= parts[s] /\ parts[s] <= highs[s]
  BY <1>1, <1>2
<1>4. \A s \in U : w[s] \in Int /\ lows[s] = w[s] * low /\ highs[s] = w[s] * high
  OBVIOUS
<1> HIDE DEF parts, lows, highs
<1>5. SumFunctionOnSet(lows, U) <= SumFunctionOnSet(parts, U) /\ SumFunctionOnSet(parts, U) <= SumFunctionOnSet(highs, U)
  BY <1>3, SumMonotone
<1>6. SumFunctionOnSet(lows, U) = total * low /\ SumFunctionOnSet(highs, U) = total * high
  BY <1>1, <1>4, SumScaled
<1>7. QED
  BY <1>5, <1>6 DEF parts, low, high

\* Every source but the heaviest adds to the weight of the heaviest.
LEMMA OthersWeigh ==
  ASSUME NEW U, IsFiniteSet(U), U # {}, NEW w, \A s \in U : w[s] \in Nat \ {0}
  PROVE  /\ Max({w[s] : s \in U}) \in Nat \ {0} /\ SumFunctionOnSet(w, U) \in Int
         /\ Cardinality(U) \in Nat \ {0}
         /\ SumFunctionOnSet(w, U) >= Max({w[s] : s \in U}) + (Cardinality(U) - 1)
<1> DEFINE top == Max({w[s] : s \in U})
<1>1. \E s \in U : top = w[s]
  BY QuotesSpan
<1> HIDE DEF top
<1>2. PICK s \in U : top = w[s]
  BY <1>1
<1> DEFINE rest == U \ {s}
<1>3. IsFiniteSet(rest) /\ Cardinality(rest) = Cardinality(U) - 1 /\ Cardinality(U) \in Nat \ {0}
      /\ Cardinality(rest) \in Nat
  BY FS_RemoveElement, FS_CardinalityType, FS_EmptySet
<1>4. SumFunctionOnSet(w, U) = w[s] + SumFunctionOnSet(w, rest) /\ SumFunctionOnSet(w, U) \in Int
  BY SumWithout, SumType
<1>5. SumFunctionOnSet(w, rest) \in Int /\ SumFunctionOnSet(w, rest) >= Cardinality(rest)
  <2> DEFINE ones == [x \in rest |-> 1]
  <2>1. \A x \in rest : ones[x] \in Int /\ w[x] \in Int /\ ones[x] <= w[x] /\ ones[x] = 1
    OBVIOUS
  <2> HIDE DEF ones, rest
  <2>2. SumFunctionOnSet(ones, rest) <= SumFunctionOnSet(w, rest) /\ SumFunctionOnSet(w, rest) \in Int
    BY <1>3, <2>1, SumMonotone, SumType
  <2>3. \A x \in rest : ones[x] \in Int /\ 1 <= ones[x] /\ ones[x] <= 1
    BY <2>1
  <2>4. /\ SumFunctionOnSet(ones, rest) \in Int
        /\ 1 * Cardinality(rest) <= SumFunctionOnSet(ones, rest)
    BY <1>3, <2>3, SumWithin
  <2>5. QED
    BY <1>3, <2>2, <2>4
<1> HIDE DEF rest
<1>6. top \in Nat \ {0} /\ SumFunctionOnSet(w, U) >= top + (Cardinality(U) - 1)
  BY <1>2, <1>3, <1>4, <1>5
<1>7. QED
  BY <1>3, <1>4, <1>6 DEF top

\* Fewer than three sources are worth 0.433 and 0.567 at most, and more divide the weight.
LEMMA NeverConfident ==
  ASSUME NEW n \in Nat \ {0}, NEW outliers \in Nat, NEW top \in Nat \ {0}, NEW total \in Int,
         total >= top + (n - 1)
  PROVE  ~ Confident(n, outliers, top, total)
<1>1. total \in Nat \ {0} /\ total >= top /\ (n >= 2 => total > top)
  OBVIOUS
<1>2. 450 * outliers * total \in Nat
  <2>1. \A a, b \in Nat : a * b \in Nat
    OBVIOUS
  <2>2. QED
    BY <1>1, <2>1
<1> DEFINE penalty == 450 * outliers * total
<1>3. penalty \in Nat
  BY <1>2
<1>4. Confident(n, outliers, top, total) <=>
        (IF n < 3 THEN n ELSE 3) * 400 * total + 900 * total >= 2100 * total + penalty + 600 * (total - top)
  BY DEF Confident
<1> HIDE DEF penalty
<1>5. CASE n = 1
  BY <1>1, <1>3, <1>4, <1>5
<1>6. CASE n = 2
  BY <1>1, <1>3, <1>4, <1>6
<1>7. CASE n >= 3
  <2>1. (IF n < 3 THEN n ELSE 3) = 3
    BY <1>7
  <2>2. QED
    BY <1>1, <1>3, <1>4, <1>7, <2>1
<1>8. QED
  BY <1>5, <1>6, <1>7

\* Every vote keeps to its sources, and none is confident.
LEMMA ConsensusHolds ==
  ASSUME NEW S \in SUBSET Sources, S # {}, NEW quotes \in [S -> Quotes], NEW weights \in [S -> SourceWeights],
         agreed = Consensus(quotes, weights)
  PROVE  PriceIsBetween /\ NoVoteIsValid
<1> DEFINE median == MedianTwice(quotes)
           near == {s \in S : 2 * OutlierBps >= Apart(2 * quotes[s], median)}
           used == IF near = {} THEN S ELSE near
           w == IF near = {} THEN [s \in S |-> 1] ELSE weights
           total == WeightOf(w, used)
<1>1. /\ DOMAIN quotes = S /\ quotes \in [S -> Nat] /\ IsFiniteSet(S) /\ OutlierBps \in Nat
      /\ \A s \in S : quotes[s] \in Nat /\ weights[s] \in Nat \ {0}
  BY LiveAssumption, FS_Subset
<1>2. median \in Int
  BY <1>1, MedianIsNumber
<1>3. /\ agreed.quotes = quotes /\ agreed.total = total /\ agreed.used = used /\ agreed.dropped = S \ used
      /\ agreed.sum = SumFunctionOnSet([s \in used |-> w[s] * quotes[s]], used)
      /\ agreed.valid = Confident(Cardinality(used), Cardinality(S \ used), Max({w[s] : s \in used}), total)
  BY <1>1, Zenon DEF Consensus
<1>4. /\ used \subseteq S /\ used # {} /\ IsFiniteSet(used) /\ IsFiniteSet(S \ used)
  <2>1. used \subseteq S /\ used # {} /\ S \ used \subseteq S
    OBVIOUS
  <2> HIDE DEF used
  <2>2. QED
    BY <1>1, <2>1, FS_Subset
<1>5. \A s \in used : w[s] \in Nat \ {0} /\ quotes[s] \in Nat
  BY <1>1, <1>4
<1>6. S \ used # {} => \A s \in used : 2 * OutlierBps >= Apart(2 * quotes[s], median)
  BY DEF used
<1>t. total = SumFunctionOnSet(w, used)
  BY DEF WeightOf
<1> HIDE DEF near, used, w, median, total
<1>7. total * Min({quotes[s] : s \in used}) <= agreed.sum /\ agreed.sum <= total * Max({quotes[s] : s \in used})
  <2> DEFINE all == {quotes[s] : s \in used}
             sum == SumFunctionOnSet([s \in used |-> w[s] * quotes[s]], used)
  <2>1. SumFunctionOnSet(w, used) * Min(all) <= sum /\ sum <= SumFunctionOnSet(w, used) * Max(all)
    BY <1>4, <1>5, MeanIsBetween
  <2>2. QED
    BY <1>3, <1>t, <2>1
<1>8. ASSUME S \ used # {} PROVE Max({quotes[s] : s \in used}) - Min({quotes[s] : s \in used}) <= 2 * OutlierBps
  <2> DEFINE all == {quotes[s] : s \in used}
  <2>1. Min(all) \in all /\ Max(all) \in all
    BY <1>4, <1>5, QuotesSpan
  <2>2. PICK s \in used, t \in used : Min(all) = quotes[s] /\ Max(all) = quotes[t]
    <3> HIDE DEF used
    <3>1. QED
      BY <2>1
  <2>3. quotes[s] \in Nat /\ quotes[t] \in Nat
    BY <1>5
  <2>4. 2 * OutlierBps >= Apart(2 * quotes[s], median) /\ 2 * OutlierBps >= Apart(2 * quotes[t], median)
    BY <1>6, <1>8
  <2>5. quotes[t] - quotes[s] <= 2 * OutlierBps
    BY <1>1, <1>2, <2>3, <2>4 DEF Apart
  <2>6. QED
    BY <2>2, <2>5
<1>9. PriceIsBetween
  BY <1>3, <1>7, <1>8 DEF PriceIsBetween
<1>10. ~ Confident(Cardinality(used), Cardinality(S \ used), Max({w[s] : s \in used}), total)
  <2>1. /\ Max({w[s] : s \in used}) \in Nat \ {0} /\ total \in Int /\ Cardinality(used) \in Nat \ {0}
        /\ total >= Max({w[s] : s \in used}) + (Cardinality(used) - 1)
    <3>1. \A s \in used : w[s] \in Nat \ {0}
      BY <1>5
    <3>2. /\ Max({w[s] : s \in used}) \in Nat \ {0} /\ SumFunctionOnSet(w, used) \in Int
          /\ Cardinality(used) \in Nat \ {0}
          /\ SumFunctionOnSet(w, used) >= Max({w[s] : s \in used}) + (Cardinality(used) - 1)
      BY <1>4, <3>1, OthersWeigh
    <3>3. QED
      BY <1>t, <3>2
  <2>2. Cardinality(S \ used) \in Nat
    BY <1>4, FS_CardinalityType
  <2>3. QED
    BY <2>1, <2>2, NeverConfident
<1>11. QED
  BY <1>3, <1>9, <1>10, Zenon DEF NoVoteIsValid

VoteInv ==
  agreed = NoVote \/ \E S \in SUBSET Sources : S # {} /\
    \E quotes \in [S -> Quotes], weights \in [S -> SourceWeights] : agreed = Consensus(quotes, weights)

LEMMA VoteStep == VoteInv /\ [SocketNext \/ Vote \/ MonitorNext]_liveVars => VoteInv'
<1> SUFFICES ASSUME VoteInv, [SocketNext \/ Vote \/ MonitorNext]_liveVars PROVE VoteInv'
  OBVIOUS
<1>1. CASE Vote
  BY <1>1, Zenon DEF Vote, VoteInv
<1>2. CASE SocketNext \/ MonitorNext \/ UNCHANGED liveVars
  <2>1. agreed' = agreed
    BY <1>2 DEF SocketNext, StartFeeds, StopFeeds, Open, CloseCleanly, Fail, Reconnect, liveVars,
                MonitorNext, Age, ForgetJumps, ResetMonitor, RecordPrice
  <2>2. QED
    BY <2>1 DEF VoteInv
<1>3. QED
  BY <1>1, <1>2

LEMMA VotesHold == VoteInv => PriceIsBetween /\ NoVoteIsValid
<1> SUFFICES ASSUME VoteInv PROVE PriceIsBetween /\ NoVoteIsValid
  OBVIOUS
<1>1. CASE agreed = NoVote
  BY <1>1 DEF NoVote, PriceIsBetween, NoVoteIsValid
<1>2. QED
  BY <1>1, ConsensusHolds DEF VoteInv

-----------------------------------------------------------------------------
(***************************************************************************)
(* The services together, contained.                                       *)
(***************************************************************************)

LEMMA SchedulingTypes == RateInv /\ SyncInv => SchedulingTypeOK
<1> SUFFICES ASSUME RateInv, SyncInv PROVE SchedulingTypeOK
  OBVIOUS
<1>1. samples \in BoundedSeq(Readings, 2 * SyncSamples)
  <2>1. 2 * SyncSamples \in Nat
    BY SchedulingAssumption
  <2>2. samples \in Seq(Readings) /\ Len(samples) <= 2 * SyncSamples
    BY DEF SyncInv
  <2>3. QED
    BY <2>1, <2>2, BoundedSequence
<1>2. QED
  BY <1>1 DEF SchedulingTypeOK, RateInv, SyncInv

\* What the watchdogs keep without asking for the limits to fit the deque.
WatchInv ==
  /\ AlertsTyped /\ HealInv /\ SurvivalInv /\ SharesFit
  /\ validity \in {"unknown", "concentrated", "idle", "valid"}

LEMMA WatchInitial == WatchInit => WatchInv
<1> SUFFICES ASSUME WatchInit PROVE WatchInv
  OBVIOUS
<1>1. AlertsTyped /\ HealInv /\ SurvivalInv /\ SharesFit
  BY AlertInitial, HealInitial, SurvivalInitial, CapitalInitial DEF AlertInv, CapitalInv
<1>2. QED
  BY <1>1 DEF WatchInv, WatchInit

LEMMA WatchStep == WatchInv /\ [WatchNext]_watchVars => WatchInv'
<1> SUFFICES ASSUME WatchInv, [WatchNext]_watchVars PROVE WatchInv'
  OBVIOUS
<1>1. AlertsTyped' /\ HealInv' /\ SurvivalInv'
  BY AlertsTypedStep, HealStep, SurvivalStep DEF WatchInv
<1>2. CASE Allocate
  <2>1. SharesFit'
    BY <1>2, AllocateKeeps DEF WatchInv
  <2>2. validity' = validity
    BY <1>2 DEF Allocate
  <2>3. QED
    BY <1>1, <2>1, <2>2 DEF WatchInv
<1>3. CASE CheckAllocation
  <2>1. current' = current /\ validity' \in {"unknown", "concentrated", "idle", "valid"}
    BY <1>3 DEF CheckAllocation
  <2>2. SharesFit'
    BY <2>1 DEF WatchInv, SharesFit
  <2>3. QED
    BY <1>1, <2>1, <2>2 DEF WatchInv
<1>4. CASE UNCHANGED <<current, validity>>
  BY <1>1, <1>4 DEF WatchInv, SharesFit
<1>5. QED
  BY <1>2, <1>3, <1>4, WatchSteps

LEMMA WatchTypes == WatchInv => WatchTypeOK
<1> SUFFICES ASSUME WatchInv PROVE WatchTypeOK
  OBVIOUS
<1>1. MaxWatchTime \in Nat /\ AlertSlots \in Nat /\ SurvivalWindow \in Nat
  BY WatchAssumption
<1>2. attempts \in BoundedSeq(0 .. MaxWatchTime, AlertSlots)
  <2>1. /\ attempts \in Seq(Nat) /\ Len(attempts) <= AlertSlots /\ watchTime \in 0 .. MaxWatchTime
        /\ \A i \in DOMAIN attempts : attempts[i] <= watchTime
    BY DEF WatchInv, AlertsTyped
  <2>2. /\ DOMAIN attempts = 1 .. Len(attempts) /\ Len(attempts) \in Nat
        /\ \A i \in DOMAIN attempts : attempts[i] \in 0 .. MaxWatchTime
    BY <1>1, <2>1
  <2>3. attempts \in Seq(0 .. MaxWatchTime)
    BY <2>1, <2>2, SequenceType
  <2>4. QED
    BY <1>1, <2>1, <2>3, BoundedSequence
<1>3. pnls \in BoundedSeq({-2, 0, 3}, SurvivalWindow)
  <2>1. pnls \in Seq({-2, 0, 3}) /\ Len(pnls) <= SurvivalWindow
    BY DEF WatchInv, SurvivalInv
  <2>2. QED
    BY <1>1, <2>1, BoundedSequence
<1>4. \A c \in Monitored : breakers[c].state \in {"closed", "open", "half_open"}
  BY DEF WatchInv, HealInv, BreakerInv
<1>5. QED
  BY <1>2, <1>3, <1>4 DEF WatchInv, AlertsTyped, SurvivalInv, SharesFit, WatchTypeOK

\* Everything that the services keep, each by itself.
CoreInv == BusInv /\ EventsInv /\ SavesInv /\ FlowFits /\ SavingFits /\ ReplayInv /\ ReplayFits
DataInv == OrderingInv /\ SupervisorInv /\ SocketInv /\ MonitorInv /\ VoteInv
EnginesInv == RateInv /\ SyncInv /\ WatchInv

\* They keep it together, as no service writes the state of another.
THEOREM ServicesInvariance == ServicesSpec => [](CoreInv /\ DataInv /\ EnginesInv)
<1>1. ServicesInit => CoreInv /\ DataInv /\ EnginesInv
  <2> SUFFICES ASSUME ServicesInit PROVE CoreInv /\ DataInv /\ EnginesInv
    OBVIOUS
  <2>1. /\ Init /\ StoreInit /\ ReplayInit /\ OrderingInit /\ SupervisorInit /\ LiveInit
        /\ RateInit /\ SyncInit /\ WatchInit
    BY DEF ServicesInit
  <2>2. CoreInv
    BY <2>1, BusInitial, EventsInit, SavesInit, StoreFitsInitial, ReplayInitial, ReplayFitsInitial DEF CoreInv
  <2>3. VoteInv
    BY <2>1 DEF LiveInit, VoteInv
  <2>4. DataInv
    BY <2>1, <2>3, OrderingInitial, SupervisorInitial, SocketInitial, MonitorInitial DEF DataInv
  <2>5. EnginesInv
    BY <2>1, RateInitial, SyncInitial, WatchInitial DEF EnginesInv
  <2>6. QED
    BY <2>2, <2>4, <2>5
<1>2. ASSUME CoreInv, [ServicesNext]_servicesVars PROVE CoreInv'
  <2>1. [Next]_vars /\ [StoreNext]_storeVars /\ [ReplayNext]_replayVars
    BY <1>2, EachPartSteps
  <2>2. BusInv' /\ ReplayInv' /\ ReplayFits'
    BY <1>2, <2>1, BusStep, ReplayStep, ReplayFitsStep DEF CoreInv
  <2>3. EventsInv' /\ SavesInv'
    BY <1>2, <2>1, StoreAssumption, EventsStep, SavesStep DEF CoreInv
  <2>4. FlowFits' /\ SavingFits'
    BY <1>2, <2>1, <2>3, FlowFitsStep, SavingFitsStep DEF CoreInv
  <2>5. QED
    BY <2>2, <2>3, <2>4 DEF CoreInv
<1>3. ASSUME DataInv, [ServicesNext]_servicesVars PROVE DataInv'
  <2>1. /\ [OrderingNext]_orderingVars /\ [SupervisorNext]_supervisorVars
        /\ [SocketNext \/ Vote \/ MonitorNext]_liveVars
    BY <1>3, EachPartSteps
  <2>2. OrderingInv' /\ SupervisorInv'
    BY <1>3, <2>1, OrderingStep, SupervisorStep DEF DataInv
  <2>3. SocketInv' /\ MonitorInv' /\ VoteInv'
    BY <1>3, <2>1, SocketStep, MonitorStep, VoteStep DEF DataInv
  <2>4. QED
    BY <2>2, <2>3 DEF DataInv
<1>4. ASSUME EnginesInv, [ServicesNext]_servicesVars PROVE EnginesInv'
  <2>1. [RateNext \/ SyncNext]_schedulingVars /\ [WatchNext]_watchVars
    BY <1>4, EachPartSteps DEF WatchNext
  <2>2. RateInv' /\ SyncInv' /\ WatchInv'
    BY <1>4, <2>1, RateStep, SyncStep, WatchStep DEF EnginesInv
  <2>3. QED
    BY <2>2 DEF EnginesInv
<1>5. QED
  BY <1>1, <1>2, <1>3, <1>4, PTL DEF ServicesSpec

\* Every service keeps its state within its bounds; the shared connection has a listener;
\* the supervisor has no second instance of a component that it could stop, and no restart
\* beyond max_restart_attempts; feeds that are stopped are silent, and one is given up only
\* after all its attempts; the price that is voted for lies between those of its sources,
\* but the confidence never reaches the threshold; what is silent for long is not called
\* healthy; and the loop is blocked by nothing but a callback that suspends under the lock or takes it again
\* (core/, data/, engines/).
THEOREM ServicesStayContained == ServicesSpec => []ServicesAreContained
<1>1. CoreInv => TypeOK /\ StoreTypeOK /\ ReplayTypeOK /\ SomeoneListens
  <2> SUFFICES ASSUME CoreInv PROVE TypeOK /\ StoreTypeOK /\ ReplayTypeOK /\ SomeoneListens
    OBVIOUS
  <2>1. TypeOK /\ SomeoneListens
    BY BusTypes DEF CoreInv, BusInv
  <2>2. StoreTypeOK /\ ReplayTypeOK
    BY StoreTypes, ReplayTypes DEF CoreInv
  <2>3. QED
    BY <2>1, <2>2
<1>2. DataInv => /\ OrderingTypeOK /\ BlockedByCallback
                 /\ SupervisorTypeOK /\ NoSecondInstance /\ RestartsBounded
                 /\ LiveTypeOK /\ SilentWhenStopped /\ GivenUpLast /\ QuietIsUnhealthy
                 /\ PriceIsBetween /\ NoVoteIsValid
  <2>1. OrderingInv => OrderingTypeOK /\ BlockedByCallback
    BY OrderingTypes
  <2>2. SupervisorInv => SupervisorTypeOK /\ NoSecondInstance /\ RestartsBounded
    BY SupervisorAssumption
       DEF SupervisorInv, SupervisorTyped, SupervisorTypeOK, NoSecondInstance, RestartsBounded
  <2>3. SocketInv /\ MonitorInv => LiveTypeOK /\ SilentWhenStopped /\ GivenUpLast /\ QuietIsUnhealthy
    <3>1. SocketInv => SilentWhenStopped /\ GivenUpLast
      BY DEF SocketInv
    <3>2. QED
      BY <3>1, LiveTypes, QuietIsIll
  <2>4. QED
    BY <2>1, <2>2, <2>3, VotesHold DEF DataInv
<1>3. EnginesInv => SchedulingTypeOK /\ WatchTypeOK
  BY SchedulingTypes, WatchTypes DEF EnginesInv
<1>4. CoreInv /\ DataInv /\ EnginesInv => ServicesAreContained
  BY <1>1, <1>2, <1>3 DEF ServicesAreContained, ServicesTypeOK
<1>5. QED
  BY <1>4, ServicesInvariance, PTL
===============================================================================
