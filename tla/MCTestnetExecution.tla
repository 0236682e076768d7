------------------------- MODULE MCTestnetExecution -------------------------
(* A limit order to buy and a market order to sell. *)
EXTENDS TestnetExecution, TLC

CONSTANTS o1, o2

MCSide == (o1 :> 1) @@ (o2 :> -1)
MCKind == (o1 :> "limit") @@ (o2 :> "market")
=============================================================================
