-------------------------- MODULE StagedCollection --------------------------
(***************************************************************************)
(* What a resumable collection promises: each part is held once, with a    *)
(* content that is never replaced, and when all are held they are sealed   *)
(* as they are, once.                                                      *)
(***************************************************************************)
CONSTANTS
    Parts,
    Missing         \* no content, no seal

VARIABLES
    held,           \* per part its content
    sealed          \* the contents that were sealed

stagedVars == <<held, sealed>>

Init ==
    /\ held = [p \in Parts |-> Missing]
    /\ sealed = Missing

Hold(p) ==
    /\ held[p] = Missing
    /\ sealed = Missing
    /\ held'[p] # Missing
    /\ held' = [held EXCEPT ![p] = held'[p]]
    /\ UNCHANGED sealed

Seal ==
    /\ sealed = Missing
    /\ \A p \in Parts : held[p] # Missing
    /\ sealed' = held
    /\ UNCHANGED held

Next == (\E p \in Parts : Hold(p)) \/ Seal

Spec == Init /\ [][Next]_stagedVars
=============================================================================
