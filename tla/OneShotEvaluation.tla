------------------------- MODULE OneShotEvaluation -------------------------
(***************************************************************************)
(* The one-shot out-of-sample evaluation of a portfolio                    *)
(* (app/research/portfolio_oos_evaluation.py, portfolio_oos_authorization  *)
(* .py) over a market snapshot that importers may replace while it runs.   *)
(*                                                                         *)
(* An evaluator finds the authorization unused, opens and verifies the     *)
(* authorized snapshot, runs the preflight and three backtests, each by    *)
(* queries that read the snapshot's path again, classifies the outcome,    *)
(* and publishes a directory with the report and then, in a second step,   *)
(* the receipt that marks the authorization consumed.  The output          *)
(* directory alone already bars another evaluation.                        *)
(***************************************************************************)
EXTENDS SnapshotPublication

CONSTANTS
    Authorized,     \* the snapshot the authorization names
    Worlds,         \* what its data makes the evaluation find, per snapshot
    Nothing         \* no report, no receipt

(* The gates a scenario is judged by. *)
BaselineEvaluability == {"closed_trades", "open_positions", "finite", "pnl_reconciliation"}
SevereEvaluability == {"severe_open_positions", "severe_finite"}
BaselineDeciding == {"total_return", "sharpe", "max_drawdown", "largest_loss"}
SevereDeciding == {"severe_total_return"}
Gates == BaselineEvaluability \cup SevereEvaluability \cup BaselineDeciding \cup SevereDeciding

ASSUME EvaluationConstants ==
    /\ Authorized \in Versions
    /\ Worlds \subseteq [Versions -> [preflight : BOOLEAN, signal : BOOLEAN, runs : BOOLEAN,
                                      passes : SUBSET Gates, calendar : Nat]]

VARIABLES
    facts,          \* the one of Worlds that holds
    evaluation,     \* per evaluator: its step and the report it is making
    output,         \* the published report
    receipt         \* the published receipt: the report it speaks of

evaluationVars == <<facts, evaluation, output, receipt>>
vars == <<publicationVars, evaluationVars>>

Evaluators == Readers
Scenarios == {"baseline", "moderate", "severe"}

-----------------------------------------------------------------------------
(* Reports *)

NoResults == [s \in Scenarios |-> None]

Drafts == [stage : {"none", "preflight", "scenario"}, error : Versions \cup {None},
           results : [Scenarios -> Versions \cup {None}], described : Versions \cup {None}, clean : BOOLEAN]
Reports == [draft : Drafts, outcome : {"not_evaluable", "no_go", "conditional_go"}]

ASSUME NothingIsNoReport == Nothing \notin Reports

\* results: the snapshot each scenario's backtest read its prices from (the
\* scores are kept from the first one); described: the one the descriptive
\* summary was made from; error: the one a data error speaks of.
\* clean (history): every read found the authorized snapshot.
Blank == [stage |-> "none", error |-> None, results |-> NoResults, described |-> None, clean |-> TRUE]
Idle == [pc |-> "idle", draft |-> Blank]

\* classify_portfolio_oos_outcome: a failed stage, then the completeness
\* gates, then the deciding ones.
Outcome(draft) ==
    LET passed(s) == facts[draft.results[s]].passes IN
    IF draft.stage # "none" THEN "not_evaluable"
    ELSE IF ~(BaselineEvaluability \subseteq passed("baseline") /\ SevereEvaluability \subseteq passed("severe"))
         THEN "not_evaluable"
    ELSE IF ~(BaselineDeciding \subseteq passed("baseline") /\ SevereDeciding \subseteq passed("severe"))
         THEN "no_go"
    ELSE "conditional_go"

Report(e) == [draft |-> evaluation[e].draft, outcome |-> Outcome(evaluation[e].draft)]

Unused == output = Nothing /\ receipt = Nothing

-----------------------------------------------------------------------------
(* evaluate_and_write_portfolio_oos_one_shot *)

\* What the evaluator goes on with, having read what stands at the path.
Proceed(e, pc, draft) ==
    evaluation' = [evaluation EXCEPT ![e] = [pc |-> pc, draft |-> [draft EXCEPT !.clean = @ /\ dest = Authorized]]]

\* An error that is none of the data errors: nothing is consumed.
GiveUp(e) == evaluation' = [evaluation EXCEPT ![e] = Idle]

\* assert_authorization_paths_unused
BeginEvaluation(e) ==
    /\ evaluation[e].pc = "idle"
    /\ Unused
    /\ evaluation' = [evaluation EXCEPT ![e] = [Idle EXCEPT !.pc = "loading"]]
    /\ UNCHANGED <<publicationVars, facts, output, receipt>>

LoadSnapshot(e) ==
    /\ evaluation[e].pc = "loading"
    /\ OpenStep(e)
    /\ IF reader'[e].pc = "shut" THEN GiveUp(e) ELSE UNCHANGED evaluation
    /\ UNCHANGED <<dest, importer, orphans, imports, faults, facts, output, receipt>>

\* _load_authorized_composite_store: the ids must be the authorized ones.
BindSnapshot(e) ==
    /\ evaluation[e].pc = "loading"
    /\ reader[e].pc = "open"
    /\ IF reader[e].manifest = Authorized
       THEN evaluation' = [evaluation EXCEPT ![e].pc = "preflight"]
       ELSE GiveUp(e)
    /\ reader' = [reader EXCEPT ![e] = Shut]
    /\ UNCHANGED <<dest, importer, orphans, imports, faults, facts, output, receipt>>

\* preflight_research; a missing directory reads as missing data (or fails
\* otherwise when it goes in the middle of a query), and a data error is an
\* outcome of its own.
Preflight(e) ==
    LET draft == evaluation[e].draft IN
    /\ evaluation[e].pc = "preflight"
    /\ IF dest # None /\ facts[dest].preflight
       THEN Proceed(e, "signal", draft)
       ELSE Proceed(e, "writing", [draft EXCEPT !.stage = "preflight", !.error = dest])
            \/ (dest = None /\ GiveUp(e))
    /\ UNCHANGED <<publicationVars, facts, output, receipt>>

\* The first signal must fall on the authorized day; otherwise the run is
\* refused and nothing is consumed.
FirstSignal(e) ==
    /\ evaluation[e].pc = "signal"
    /\ IF dest # None /\ facts[dest].signal
       THEN Proceed(e, "baseline", evaluation[e].draft)
       ELSE GiveUp(e)
    /\ UNCHANGED <<publicationVars, facts, output, receipt>>

AfterScenario == [baseline |-> "moderate", moderate |-> "severe", severe |-> "describing"]

\* Plausible bug: the failure of a scenario is sealed as one of the preflight.
ScenarioFailsAsPreflight(e) ==
    Proceed(e, "writing", [Blank EXCEPT !.stage = "preflight", !.error = dest,
                                        !.clean = evaluation[e].draft.clean])

\* A data error in a scenario drops all results; the rest of the stages are skipped.
ScenarioFails(e) ==
    Proceed(e, "writing", [Blank EXCEPT !.stage = "scenario", !.error = dest,
                                        !.clean = evaluation[e].draft.clean])

\* _run_authorized_scenarios, one backtest.  Queries on a missing directory
\* end in a data error or in another one.
RunScenario(e, s) ==
    LET draft == evaluation[e].draft IN
    /\ evaluation[e].pc = s
    /\ IF dest # None /\ facts[dest].runs
       THEN Proceed(e, AfterScenario[s], [draft EXCEPT !.results[s] = dest])
       ELSE ScenarioFails(e) \/ (dest = None /\ GiveUp(e))
    /\ UNCHANGED <<publicationVars, facts, output, receipt>>

\* _build_descriptive_summary, inside the same try.
Describe(e) ==
    LET draft == evaluation[e].draft IN
    /\ evaluation[e].pc = "describing"
    /\ IF dest # None
       THEN Proceed(e, "writing", [draft EXCEPT !.described = dest])
       ELSE ScenarioFails(e) \/ GiveUp(e)
    /\ UNCHANGED <<publicationVars, facts, output, receipt>>

-----------------------------------------------------------------------------
(* write_portfolio_oos_evaluation_atomically *)

\* Both paths must still be free; the files are then written to a temporary
\* directory.
WriteFiles(e) ==
    /\ evaluation[e].pc = "writing"
    /\ IF Unused
       THEN evaluation' = [evaluation EXCEPT ![e].pc = "publishing"]
       ELSE GiveUp(e)
    /\ UNCHANGED <<publicationVars, facts, output, receipt>>

\* A move that replaces what is there.
PublishOutputReplacing(e) ==
    /\ evaluation[e].pc = "publishing"
    /\ output' = Report(e)
    /\ evaluation' = [evaluation EXCEPT ![e].pc = "receipting"]
    /\ UNCHANGED <<publicationVars, facts, receipt>>

\* temporary.rename(destination): fails on a directory another run published.
PublishOutput(e) ==
    /\ evaluation[e].pc = "publishing"
    /\ IF output = Nothing
       THEN /\ output' = Report(e)
            /\ evaluation' = [evaluation EXCEPT ![e].pc = "receipting"]
       ELSE GiveUp(e) /\ UNCHANGED output
    /\ UNCHANGED <<publicationVars, facts, receipt>>

\* A receipt for the evaluations that came to a verdict only.
PublishReceiptOfVerdicts(e) ==
    /\ evaluation[e].pc = "receipting"
    /\ receipt' = IF Outcome(evaluation[e].draft) = "not_evaluable" THEN receipt ELSE Report(e)
    /\ GiveUp(e)
    /\ UNCHANGED <<publicationVars, facts, output>>

\* receipt_temporary.rename(receipt_destination): a file replaces a file.
PublishReceipt(e) ==
    /\ evaluation[e].pc = "receipting"
    /\ receipt' = Report(e)
    /\ GiveUp(e)
    /\ UNCHANGED <<publicationVars, facts, output>>

\* The process stops, or a write or rename of its own fails: what it has
\* published stays, its temporary files are of no consequence.
EvaluatorStops(e) ==
    /\ evaluation[e].pc # "idle"
    /\ faults < MaxFaults
    /\ faults' = faults + 1
    /\ GiveUp(e)
    /\ reader' = [reader EXCEPT ![e] = Shut]
    /\ UNCHANGED <<dest, importer, orphans, imports, facts, output, receipt>>

-----------------------------------------------------------------------------

\* A snapshot has been imported, or nothing could have been authorized.
Init ==
    /\ PublicationInit
    /\ dest \in Versions
    /\ facts \in Worlds
    /\ evaluation = [e \in Evaluators |-> Idle]
    /\ output = Nothing
    /\ receipt = Nothing

EvaluatorStep(e) ==
    \/ BeginEvaluation(e) \/ LoadSnapshot(e) \/ BindSnapshot(e)
    \/ Preflight(e) \/ FirstSignal(e)
    \/ \E s \in Scenarios : RunScenario(e, s)
    \/ Describe(e)
    \/ WriteFiles(e) \/ PublishOutput(e) \/ PublishReceipt(e)
    \/ EvaluatorStops(e)

Next ==
    \/ ImportNext /\ UNCHANGED evaluationVars
    \/ \E e \in Evaluators : EvaluatorStep(e)

\* An import that is under way goes on until it ends, fails or crashes; nothing
\* obliges anybody to begin one, or an evaluator to go on.
Spec == Init /\ [][Next]_vars /\ \A i \in Importers : WF_vars(ImportStep(i) /\ UNCHANGED evaluationVars)

-----------------------------------------------------------------------------
(* verify_sealed_portfolio_oos_one_shot *)

\* The three states an evaluator can seal (_assert_failure_stage_consistency).
StageConsistent(draft) ==
    \/ draft.stage \in {"preflight", "scenario"} /\ draft.results = NoResults
    \/ draft.stage = "none" /\ \A s \in Scenarios : draft.results[s] # None

\* The read-only verifier loads the authorized snapshot, replays the
\* preflight, the first signal, the calendar of each result, the descriptive
\* summary and the classification, and does not run a backtest.
VerifierAccepts ==
    LET sealed == facts[Authorized] IN
    /\ output # Nothing /\ receipt # Nothing
    /\ dest = Authorized
    /\ receipt = output
    /\ StageConsistent(output.draft)
    /\ sealed.preflight = (output.draft.stage # "preflight")
    /\ output.draft.stage = "preflight" => output.draft.error = Authorized
    /\ output.draft.stage # "preflight" => sealed.signal
    /\ output.outcome = Outcome(output.draft)
    /\ output.draft.stage = "none" =>
         /\ \A s \in Scenarios : facts[output.draft.results[s]].calendar = sealed.calendar
         /\ output.draft.described = Authorized

-----------------------------------------------------------------------------
(* Properties *)

\* The types of the state, and what an evaluator holds at each step.
OneShotTypeOK ==
    /\ PublicationTypeOK
    /\ facts \in Worlds
    /\ output \in Reports \cup {Nothing}
    /\ \A e \in Evaluators :
         /\ evaluation[e].draft \in Drafts
         /\ evaluation[e].pc = "idle" => evaluation[e] = Idle /\ reader[e] = Shut
         /\ evaluation[e].pc \in {"publishing", "receipting"} => StageConsistent(evaluation[e].draft)

\* However imports interleave, fail or crash between their two renames, a whole
\* snapshot stands at the path or is still in a directory moved aside: the
\* error handler of one import never removes the last one.
NothingLost ==
    \/ dest # None
    \/ orphans # {}
    \/ \E i \in Importers : importer[i].backup # None

\* A gap that an import has opened at the path closes, by it, by its handler or
\* by another import, unless the process that opened it dies in it.
GapCloses ==
    (dest = None /\ \E i \in Importers : importer[i].backup # None /\ importer[i].pc # "dropping")
        ~> (dest # None \/ \E i \in Importers : importer[i].pc = "crashed")

\* Runs that both found the authorization unused consume it once: the output
\* directory is published once and never changed, and the receipt is that run's.
Authorization == INSTANCE OneShotAuthorization WITH report <- output, receipt <- receipt
RefinesOneShot == Authorization!Spec

\* An output without a receipt, which later runs take as consumed, is there
\* only while its own run still has the receipt to write, or after a fault.
UnreceiptedOutputHasAFault ==
    output # Nothing /\ receipt = Nothing =>
        \/ faults > 0
        \/ \E e \in Evaluators : evaluation[e].pc = "receipting" /\ Report(e) = output

\* What an undisturbed evaluation seals, whatever its outcome, the read-only
\* verifier accepts while the authorized snapshot is at the path.
CleanEvaluationVerifies ==
    (output # Nothing /\ receipt # Nothing /\ dest = Authorized) =>
        (output.draft.clean => VerifierAccepts)

\* A report the verifier accepts was computed from the snapshot it is labelled
\* with (README.md:75: scores, backtests and API carry one snapshot id, and a
\* manifest that differs from the content fails directly).
VerifiedResultsComeFromTheNamedSnapshot ==
    VerifierAccepts =>
        \A s \in Scenarios : output.draft.results[s] \in {None, Authorized}
=============================================================================
