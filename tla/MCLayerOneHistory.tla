-------------------------- MODULE MCLayerOneHistory --------------------------
(***************************************************************************)
(* The instance of LayerOneHistory in which the first budget after a lock  *)
(* is above the cap: the lock is released while the index is more than 20% *)
(* under its high, so that nothing can be bought; by the next week opening *)
(* the high has left the 252 days the drawdown looks back, or the index    *)
(* has risen.                                                              *)
(***************************************************************************)
EXTENDS LayerOneHistory

Bottom == [ratio |-> 9800, vol |-> 2000, indexDrawdown |-> -2050]
Recovering == [ratio |-> 10400, vol |-> 2500, indexDrawdown |-> -1450]

SomeFeatures == {Bottom, Recovering}
SomeReturns == {-2000, 0}
=============================================================================
