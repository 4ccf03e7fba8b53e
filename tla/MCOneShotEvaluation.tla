------------------------ MODULE MCOneShotEvaluation ------------------------
(***************************************************************************)
(* Instances of OneShotEvaluation for TLC.                                 *)
(***************************************************************************)
EXTENDS OneShotEvaluation, TLC

CONSTANTS v1, v2

Good == [preflight |-> TRUE, signal |-> TRUE, runs |-> TRUE, passes |-> Gates, calendar |-> 1]

\* The data of the authorized snapshot and of another one that may be imported.
World(a, b) == [v \in Versions |-> IF v = v1 THEN a ELSE b]
SomeWorlds ==
    {World(Good, [Good EXCEPT !.passes = Gates \ {"sharpe"}, !.signal = FALSE]),
     World([Good EXCEPT !.runs = FALSE], [Good EXCEPT !.preflight = FALSE, !.signal = FALSE])}

\* The other snapshot has the same days and fails one deciding gate.
Twins == {World([Good EXCEPT !.passes = Gates \ {"sharpe"}], Good)}
=============================================================================
