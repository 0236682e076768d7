------------------------- MODULE MCDistributedState -------------------------
(* Three ways to use a key, by three tasks. *)
EXTENDS DistributedState, TLC

CONSTANTS t1, t2, t3, p1, p2

Together == [t \in Tasks |-> p1]
Apart == (t1 :> p1) @@ (t2 :> p1) @@ (t3 :> p2)

\* Updates and reads of an existing key in one process.
Careful == [processOf |-> Together, ops |-> {"get", "update"},
            faults |-> {"redis", "postgres", "expiry", "crash"}, present |-> TRUE]

\* Updates and deletions in two processes.
Mixed == [processOf |-> Apart, ops |-> {"update", "delete"},
          faults |-> {"redis", "expiry"}, present |-> TRUE]

\* Pessimistic updates, a key that comes and goes, and a failing database.
Pessimistic == [processOf |-> Together, ops |-> {"locked", "set", "delete"},
                faults |-> {"redis", "postgres", "crash"}, present |-> FALSE]

\* Updates of a key that does not exist, and nothing fails.
Creating == [processOf |-> Together, ops |-> {"update"},
             faults |-> {}, present |-> FALSE]

MCUses == {Careful, Mixed, Pessimistic}
MCCreating == {Creating}
=============================================================================
