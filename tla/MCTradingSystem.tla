--------------------------- MODULE MCTradingSystem ---------------------------
(* Daily results of the instances of TradingSystem: a .cfg has no negative
   numbers. *)
EXTENDS TradingSystem

NoResult == {0}
AnyResult == {-2, -1, 0, 2}
=============================================================================
