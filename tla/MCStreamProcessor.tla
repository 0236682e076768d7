-------------------------- MODULE MCStreamProcessor --------------------------
(* Processors as the repository configures them. *)
EXTENDS StreamProcessor

\* Restarted once, and fed by a bus that repeats events.
Restarted == [types |-> 1, starts |-> 2, copies |-> 2, invalid |-> {2},
              high |-> FALSE, swallows |-> FALSE, oneReader |-> TRUE]

\* A BaseProcessor with two event types on the channel.
TwoTypes == [types |-> 2, starts |-> 1, copies |-> 1, invalid |-> {},
             high |-> FALSE, swallows |-> TRUE, oneReader |-> FALSE]

\* High priority, with one event type and with two.
HighPriority == [types |-> 1, starts |-> 1, copies |-> 1, invalid |-> {},
                 high |-> TRUE, swallows |-> FALSE, oneReader |-> TRUE]
HighTwoTypes == [HighPriority EXCEPT !.types = 2]

MCDeployments == {Restarted, TwoTypes, HighPriority, HighTwoTypes}
=============================================================================
