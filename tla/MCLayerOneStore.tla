-------------------------- MODULE MCLayerOneStore --------------------------
(***************************************************************************)
(* Instances of LayerOneStore for TLC.                                     *)
(***************************************************************************)
EXTENDS LayerOneStore, TLC

Calm == [ratio |-> 10400, vol |-> 1800, indexDrawdown |-> -900, accountDrawdown |-> -900]
LockDrawdown == [Calm EXCEPT !.accountDrawdown = -1800]
CalmAndLock == {Calm, LockDrawdown}
LockOnly == {LockDrawdown}

Day0 == {[from |-> 0, through |-> 0]}

\* No quota is reached before the bound on sessions is.
NoQuota ==
    [kind \in {"initialize", "evidence", "ceiling", "unlock", "decision"} |-> Attempts]

ClientNames == Permutations(Clients)
=============================================================================
