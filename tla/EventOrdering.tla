---------------------------- MODULE EventOrdering ----------------------------
(***************************************************************************)
(* EventOrderingEngine of core/event_ordering.py: the sequence numbers of  *)
(* each symbol.  process_event holds a threading.Lock while it awaits the  *)
(* callbacks for violations; a second call on the same event loop, be it   *)
(* one of the callback itself, then blocks the thread that would have to   *)
(* release it.                                                             *)
(***************************************************************************)
EXTENDS Naturals, Sequences, SequencesExt

CONSTANTS
  Symbols,
  MaxSequence,   \* bound on the sequence numbers of the feed
  MaxSequenceGap,\* max_sequence_gap
  MaxArrivals,   \* bound on the calls
  Callbacks      \* what callbacks may do: subsets of {"suspend", "reset"}

ASSUME OrderingAssumption == MaxSequence \in Nat

VARIABLES
  callbacks,     \* what the registered callbacks do
  sequences,     \* per symbol: last_sequence and gap_detected
  notifying,     \* the call that awaits a callback, under the lock
  loopBlocked,   \* the event loop's thread waits for the lock
  arrived,       \* history per symbol: sequence numbers of all calls
  delivered      \* history per symbol: what the calls returned

orderingVars == <<callbacks, sequences, notifying, loopBlocked, arrived, delivered>>

Nobody == [symbol |-> "none", sequence |-> 0]
Fresh == [last |-> 0, gap |-> FALSE]

OrderingInit ==
  /\ callbacks \in Callbacks
  /\ sequences = [s \in Symbols |-> Fresh]
  /\ notifying = Nobody /\ loopBlocked = FALSE
  /\ arrived = [s \in Symbols |-> <<>>] /\ delivered = [s \in Symbols |-> <<>>]

-----------------------------------------------------------------------------
Arrivals == FoldFunction(LAMBDA q, n : Len(q) + n, 0, arrived)

LargeGap(s, n) == sequences[s].last > 0 /\ n > sequences[s].last + 1 + MaxSequenceGap

Arrive(s, n) ==
  /\ sequences' = [sequences EXCEPT ![s].last = n, ![s].gap = @ \/ LargeGap(s, n)]
  /\ delivered' = [delivered EXCEPT ![s] = Append(@, n)]

Duplicate(s, n) == n = sequences[s].last

\* process_event, up to its first callback that suspends or, synchronous or not, takes
\* the lock its caller holds, by reset_sequence; whether the timestamp
\* drifted is left open.  A number below the last one is counted as buffered, and
\* delivered.
ProcessEvent(s, n) ==
  /\ ~ loopBlocked /\ notifying = Nobody /\ Arrivals < MaxArrivals
  /\ arrived' = [arrived EXCEPT ![s] = Append(@, n)]
  /\ \/ Duplicate(s, n) /\ UNCHANGED <<sequences, notifying, delivered>>
     \/ ~ Duplicate(s, n) /\ Arrive(s, n) /\ UNCHANGED notifying
     \/ /\ ~ Duplicate(s, n) /\ callbacks # {}
        /\ LargeGap(s, n) \/ sequences[s].last > 0
        /\ notifying' = [symbol |-> s, sequence |-> n]
        /\ UNCHANGED <<sequences, delivered>>
  /\ loopBlocked' = ("reset" \in callbacks /\ notifying' # Nobody)
  /\ UNCHANGED callbacks

\* The callbacks are done.
Notified ==
  /\ ~ loopBlocked /\ notifying # Nobody
  /\ Arrive(notifying.symbol, notifying.sequence)
  /\ notifying' = Nobody
  /\ UNCHANGED <<callbacks, loopBlocked, arrived>>

\* Another call, or reset_sequence, while the lock is held.
Collide ==
  /\ notifying # Nobody /\ loopBlocked' = TRUE
  /\ UNCHANGED <<callbacks, sequences, notifying, arrived, delivered>>

ResetSequence(s) ==
  /\ ~ loopBlocked /\ notifying = Nobody /\ sequences[s] # Fresh
  /\ sequences' = [sequences EXCEPT ![s] = Fresh]
  /\ UNCHANGED <<callbacks, notifying, loopBlocked, arrived, delivered>>

OrderingNext ==
  \/ \E s \in Symbols : ResetSequence(s) \/ \E n \in 1 .. MaxSequence : ProcessEvent(s, n)
  \/ Notified \/ Collide

-----------------------------------------------------------------------------
OrderingTypeOK ==
  /\ callbacks \in Callbacks /\ loopBlocked \in BOOLEAN
  /\ sequences \in [Symbols -> [last : 0 .. MaxSequence, gap : BOOLEAN]]
  /\ notifying.symbol \in Symbols \cup {"none"}
  /\ \A s \in Symbols : delivered[s] \in Seq(1 .. MaxSequence)

\* A feed whose numbers never fall is delivered in strict order, each number
\* once, if nobody resets the sequence.
OrderedFeedStaysOrdered ==
  [][\A s \in Symbols :
       LET q == arrived'[s] IN
       (\A i, j \in DOMAIN q : i < j => q[i] <= q[j]) /\ sequences[s].last > 0
       /\ delivered'[s] # delivered[s]
         => Last(delivered'[s]) > sequences[s].last]_orderingVars

\* Only a callback that suspends, or asks for the lock, can block the event loop, and
\* the loop is only blocked while a callback is under way.
BlockedByCallback == loopBlocked => callbacks # {} /\ notifying # Nobody

(* What the code says of itself; TLC refutes it. *)

\* "Processed event if valid, None if duplicate/gap": no number is delivered twice.
DuplicatesFiltered ==
  \A s \in Symbols : \A i, j \in DOMAIN delivered[s] :
    i # j => delivered[s][i] # delivered[s][j]
=============================================================================
