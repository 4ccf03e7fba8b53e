------------------------ MODULE OneShotAuthorization ------------------------
(***************************************************************************)
(* What a one-shot authorization promises: it is consumed by one report,   *)
(* which nothing changes afterwards, and acknowledged at most once, by a   *)
(* receipt for that report.                                                *)
(***************************************************************************)
CONSTANT Nothing

VARIABLES
    report,         \* the report that consumed the authorization
    receipt         \* the report its receipt speaks of

authorizationVars == <<report, receipt>>

Init ==
    /\ report = Nothing
    /\ receipt = Nothing

Consume ==
    /\ report = Nothing
    /\ report' # Nothing
    /\ UNCHANGED receipt

Acknowledge ==
    /\ report # Nothing
    /\ receipt = Nothing
    /\ receipt' = report
    /\ UNCHANGED report

Next == Consume \/ Acknowledge

Spec == Init /\ [][Next]_authorizationVars
=============================================================================
