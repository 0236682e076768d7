----------------------------- MODULE MCEventBus -----------------------------
(* Instances of EventBus: three tasks on two processes, or one task alone. *)
EXTENDS EventBus, TLC

CONSTANTS e1, e2, t1, t2, t3, b1, b2

MCBusOf == (t1 :> b1) @@ (t2 :> b1) @@ (t3 :> b2)
MCBusOfOne == t1 :> b1
=============================================================================
