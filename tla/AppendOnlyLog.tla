--------------------------- MODULE AppendOnlyLog ---------------------------
(***************************************************************************)
(* What an append-only ledger of daily records promises: entries are added *)
(* at the end, one at a time, each for a later day than the last, and none *)
(* is ever changed, moved or taken back.                                   *)
(***************************************************************************)
EXTENDS Naturals, Sequences

VARIABLE log

Init == log = << >>

Add ==
    /\ Len(log') = Len(log) + 1
    /\ SubSeq(log', 1, Len(log)) = log
    /\ log # << >> => log'[Len(log')].day > log[Len(log)].day

Spec == Init /\ [][Add]_log
=============================================================================
