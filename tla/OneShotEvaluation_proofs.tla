---------------------- MODULE OneShotEvaluation_proofs ----------------------
(***************************************************************************)
(* The one-shot evaluation, for any number of evaluators and importers,    *)
(* any snapshots and any bounds.                                           *)
(*                                                                         *)
(* Importers and evaluators meet in one variable, dest, that evaluators    *)
(* only read; so the two halves are proved apart.                          *)
(*   - PublicationInv: a snapshot that has been moved aside counts as kept *)
(*     until its importer has put another in its place.                    *)
(*   - Knows: what an evaluator's draft says at each step, and, if all its *)
(*     reads found the authorized snapshot, what it says about that.       *)
(*   - OutputInv: the run that is between its two publications is the one  *)
(*     whose report stands there; since the output directory is created    *)
(*     only where there is none, there is one such run.                    *)
(***************************************************************************)
EXTENDS OneShotEvaluation, TLAPS

-----------------------------------------------------------------------------
(* The snapshot directory *)

Importing == [pc : {"idle", "staged", "replacing", "entering", "dropping", "failing", "restoring", "crashed"},
              new : Versions \cup {None}, backup : Versions \cup {None}]

ImporterInv(m) ==
    /\ m \in Importing
    /\ m.pc \in {"idle", "crashed"} => m.backup = None
    /\ m.pc \notin {"idle", "crashed"} => m.new \in Versions
    /\ m.pc = "restoring" => m.backup # None

\* A snapshot stands at the path, or somebody still keeps one for it.
Kept ==
    \/ dest # None
    \/ orphans # {}
    \/ \E i \in Importers : importer[i].backup # None /\ importer[i].pc # "dropping"

PublicationInv ==
    /\ dest \in Versions \cup {None}
    /\ importer \in [Importers -> Importing]
    /\ \A i \in Importers : ImporterInv(importer[i])
    /\ orphans \subseteq Versions
    /\ imports \in 0..MaxImports
    /\ faults \in 0..MaxFaults
    /\ Kept

\* A step of one importer that leaves its record sound keeps a snapshot if its
\* own part of Kept is kept, or another's stays.
LEMMA ImporterMoves ==
    ASSUME PublicationInv, NEW i \in Importers, NEW m, ImporterInv(m),
           importer' = [importer EXCEPT ![i] = m],
           dest' \in Versions \cup {None}, orphans \subseteq orphans', orphans' \subseteq Versions,
           imports' \in 0..MaxImports, faults' \in 0..MaxFaults,
           dest' = None =>
              /\ dest # None => m.backup # None /\ m.pc # "dropping"
              /\ (importer[i].backup # None /\ importer[i].pc # "dropping") =>
                    (m.backup # None /\ m.pc # "dropping") \/ orphans' # {}
    PROVE  PublicationInv'
<1>1. importer' \in [Importers -> Importing]
  BY DEF PublicationInv, ImporterInv
<1>2. importer'[i] = m /\ \A j \in Importers \ {i} : importer'[j] = importer[j]
  BY DEF PublicationInv
<1>3. \A j \in Importers : ImporterInv(importer'[j])
  BY <1>2 DEF PublicationInv
<1>4. \A j \in Importers : ImporterInv(importer[j])'
  BY <1>3 DEF ImporterInv, Importing
<1>5. Kept'
  <2>1. CASE dest' # None
    BY <2>1 DEF Kept
  <2>2. CASE dest' = None /\ dest # None
    BY <1>2, <2>2 DEF Kept
  <2>3. CASE dest' = None /\ dest = None /\ orphans # {}
    BY <2>3 DEF Kept
  <2>4. CASE dest' = None /\ dest = None /\ orphans = {}
    <3>1. PICK j \in Importers : importer[j].backup # None /\ importer[j].pc # "dropping"
      BY <2>4 DEF Kept, PublicationInv
    <3>2. CASE j = i
      BY <1>2, <2>4, <3>1, <3>2 DEF Kept
    <3>3. CASE j # i
      <4>1. importer'[j].backup # None /\ importer'[j].pc # "dropping"
        BY <1>2, <3>1, <3>3
      <4> QED BY <4>1 DEF Kept
    <3> QED BY <3>2, <3>3
  <2> QED BY <2>1, <2>2, <2>3, <2>4
<1> QED
  BY <1>1, <1>4, <1>5 DEF PublicationInv

LEMMA Gone ==
    /\ Resting \in Importing /\ Resting.pc = "idle" /\ Resting.backup = None /\ Resting.new = None
    /\ ImporterInv(Resting)
    /\ ImporterInv([Resting EXCEPT !.pc = "crashed"])
BY DEF Resting, Importing, ImporterInv

LEMMA ImportKeeps ==
    ASSUME PublicationInv, ImportNext
    PROVE  PublicationInv'
<1>0. PICK i \in Importers :
          \/ \E v \in Versions : BeginImport(i, v)
          \/ ImportStep(i) \/ OperationFails(i) \/ ImporterCrashes(i) \/ RunAgain(i)
  BY DEF ImportNext
<1> DEFINE r == importer[i]
<1>t. /\ r \in Importing /\ ImporterInv(r)
      /\ dest \in Versions \cup {None} /\ None \notin Versions
      /\ orphans \subseteq Versions
      /\ imports \in 0..MaxImports /\ faults \in 0..MaxFaults
      /\ MaxImports \in Nat /\ MaxFaults \in Nat
      /\ importer \in [Importers -> Importing]
  BY SnapshotConstants DEF PublicationInv
<1>1. ASSUME NEW v \in Versions, BeginImport(i, v) PROVE PublicationInv'
  <2> DEFINE m == [Resting EXCEPT !.pc = "staged", !.new = v]
  <2>1. ImporterInv(m)
    BY DEF Resting, Importing, ImporterInv
  <2>2. r.backup = None
    BY <1>1, <1>t DEF BeginImport, ImporterInv
  <2>3. importer' = [importer EXCEPT ![i] = m] /\ imports' \in 0..MaxImports
    BY <1>1, <1>t DEF BeginImport
  <2> QED BY <1>1, <1>t, <2>1, <2>2, <2>3, ImporterMoves DEF BeginImport
<1>2. CASE LookAtDest(i)
  <2> DEFINE m == [r EXCEPT !.pc = IF dest = None THEN "entering" ELSE "replacing"]
  <2>1. ImporterInv(m) /\ m.backup = r.backup /\ m.pc # "dropping"
    BY <1>2, <1>t DEF LookAtDest, Importing, ImporterInv
  <2>2. importer' = [importer EXCEPT ![i] = m]
    BY <1>2, <1>t DEF LookAtDest, Goto
  <2> QED BY <1>2, <1>t, <2>1, <2>2, ImporterMoves DEF LookAtDest
<1>3. CASE MoveAside(i)
  <2>1. CASE dest = None
    <3> DEFINE m == [r EXCEPT !.pc = "failing"]
    <3>1. ImporterInv(m) /\ m.backup = r.backup /\ m.pc # "dropping"
      BY <1>3, <1>t DEF MoveAside, Importing, ImporterInv
    <3>2. importer' = [importer EXCEPT ![i] = m] /\ dest' = dest
      BY <1>3, <1>t, <2>1 DEF MoveAside, Goto
    <3> QED BY <1>3, <1>t, <2>1, <3>1, <3>2, ImporterMoves DEF MoveAside
  <2>2. CASE dest # None
    <3> DEFINE m == [r EXCEPT !.pc = "entering", !.backup = dest]
    <3>1. ImporterInv(m) /\ m.backup = dest /\ m.pc # "dropping"
      BY <1>3, <1>t, <2>2 DEF MoveAside, Importing, ImporterInv
    <3>2. importer' = [importer EXCEPT ![i] = m] /\ dest' = None
      BY <1>3, <1>t, <2>2 DEF MoveAside
    <3> QED BY <1>3, <1>t, <2>2, <3>1, <3>2, ImporterMoves DEF MoveAside
  <2> QED BY <2>1, <2>2
<1>4. CASE MoveIn(i)
  <2>1. CASE dest # None
    <3> DEFINE m == [r EXCEPT !.pc = "failing"]
    <3>1. ImporterInv(m)
      BY <1>4, <1>t DEF MoveIn, Importing, ImporterInv
    <3>2. importer' = [importer EXCEPT ![i] = m] /\ dest' = dest
      BY <1>4, <1>t, <2>1 DEF MoveIn, Goto
    <3> QED BY <1>4, <1>t, <2>1, <3>1, <3>2, ImporterMoves DEF MoveIn
  <2>2. CASE dest = None
    <3> DEFINE m == [r EXCEPT !.pc = "dropping"]
    <3>1. ImporterInv(m) /\ r.new \in Versions
      BY <1>4, <1>t, <2>2 DEF MoveIn, Importing, ImporterInv
    <3>2. importer' = [importer EXCEPT ![i] = m] /\ dest' = r.new
      BY <1>4, <1>t, <2>2 DEF MoveIn, Goto
    <3> QED BY <1>4, <1>t, <2>2, <3>1, <3>2, ImporterMoves DEF MoveIn
  <2> QED BY <2>1, <2>2
<1>5. CASE DropBackup(i)
  BY <1>5, <1>t, Gone, ImporterMoves DEF DropBackup
<1>6. CASE Rescue(i)
  <2>1. CASE r.backup # None /\ dest = None
    <3> DEFINE m == [r EXCEPT !.pc = "restoring"]
    <3>1. ImporterInv(m) /\ m.backup = r.backup /\ m.pc # "dropping"
      BY <1>6, <1>t, <2>1 DEF Rescue, Importing, ImporterInv
    <3>2. importer' = [importer EXCEPT ![i] = m]
      BY <1>6, <1>t, <2>1 DEF Rescue, Goto
    <3> QED BY <1>6, <1>t, <2>1, <3>1, <3>2, ImporterMoves DEF Rescue
  <2>2. CASE ~(r.backup # None /\ dest = None)
    BY <1>6, <1>t, <2>2, Gone, ImporterMoves DEF Rescue
  <2> QED BY <2>1, <2>2
<1>7. CASE Restore(i)
  <2>1. r.backup \in Versions
    BY <1>7, <1>t DEF Restore, Importing, ImporterInv
  <2>2. importer' = [importer EXCEPT ![i] = Resting]
    BY <1>7 DEF Restore
  <2>3. CASE dest = None
    BY <1>7, <1>t, <2>1, <2>2, <2>3, Gone, ImporterMoves DEF Restore
  <2>4. CASE dest # None
    BY <1>7, <1>t, <2>1, <2>2, <2>4, Gone, ImporterMoves DEF Restore
  <2> QED BY <2>3, <2>4
<1>8. CASE OperationFails(i)
  <2> DEFINE m == [r EXCEPT !.pc = "failing"]
  <2>1. ImporterInv(m) /\ m.backup = r.backup /\ m.pc # "dropping"
    BY <1>8, <1>t DEF OperationFails, Importing, ImporterInv
  <2>2. importer' = [importer EXCEPT ![i] = m] /\ faults' \in 0..MaxFaults
    BY <1>8, <1>t DEF OperationFails, Goto
  <2> QED BY <1>8, <1>t, <2>1, <2>2, ImporterMoves DEF OperationFails
<1>9. CASE ImporterCrashes(i)
  <2>1. r.backup \in Versions \cup {None} /\ faults' \in 0..MaxFaults
    BY <1>9, <1>t DEF ImporterCrashes, Importing
  <2>2. orphans \subseteq orphans' /\ orphans' \subseteq Versions
    BY <1>9, <1>t, <2>1 DEF ImporterCrashes
  <2>3. r.backup # None /\ r.pc # "dropping" => orphans' # {}
    BY <1>9 DEF ImporterCrashes
  <2> QED BY <1>9, <1>t, <2>1, <2>2, <2>3, Gone, ImporterMoves DEF ImporterCrashes
<1>10. CASE RunAgain(i)
  <2>1. r.backup = None
    BY <1>10, <1>t DEF RunAgain, ImporterInv
  <2> QED BY <1>10, <1>t, <2>1, Gone, ImporterMoves DEF RunAgain
<1> QED
  BY <1>0, <1>1, <1>2, <1>3, <1>4, <1>5, <1>6, <1>7, <1>8, <1>9, <1>10 DEF ImportStep

-----------------------------------------------------------------------------
(* One evaluator *)

Finished == {"writing", "publishing", "receipting"}
Scenes == {"baseline", "moderate", "severe", "describing"}

Evaluation == [pc : {"idle", "loading", "preflight", "signal"} \cup Scenes \cup Finished, draft : Drafts]

\* What a finished draft says of the authorized snapshot, if all its reads found that.
Sound(d) ==
    /\ \A s \in Scenarios : d.results[s] \in {None, Authorized}
    /\ d.stage = "preflight" => d.error = Authorized /\ ~facts[Authorized].preflight
    /\ d.stage # "preflight" => facts[Authorized].preflight /\ facts[Authorized].signal
    /\ d.stage = "none" => d.described = Authorized

\* What an evaluator has, having got as far as it has.
Knows(r) ==
    /\ r.pc = "idle" => r = Idle
    /\ r.pc \in {"loading", "preflight"} => r.draft = Blank
    /\ r.pc \in {"signal", "baseline"} => r.draft.stage = "none" /\ r.draft.results = NoResults
    /\ r.pc \in Scenes => r.draft.stage = "none"
    /\ r.pc \in {"moderate", "severe", "describing"} => r.draft.results["baseline"] # None
    /\ r.pc \in {"severe", "describing"} => r.draft.results["moderate"] # None
    /\ r.pc = "describing" => r.draft.results["severe"] # None
    /\ r.pc \in Finished => StageConsistent(r.draft)
    /\ r.draft.clean =>
         /\ r.pc \in {"signal"} \cup Scenes => facts[Authorized].preflight
         /\ r.pc \in Scenes => /\ facts[Authorized].signal
                               /\ \A s \in Scenarios : r.draft.results[s] \in {None, Authorized}
         /\ r.pc \in Finished => Sound(r.draft)

EvaluatorsInv ==
    /\ facts \in Worlds
    /\ evaluation \in [Evaluators -> Evaluation]
    /\ \A e \in Evaluators : Knows(evaluation[e])

\* The world's facts about a snapshot are Booleans.
LEMMA FactsAre ==
    ASSUME facts \in Worlds, NEW v \in Versions
    PROVE  /\ facts[v].preflight \in BOOLEAN /\ facts[v].signal \in BOOLEAN /\ facts[v].runs \in BOOLEAN
           /\ Authorized \in Versions /\ None \notin Versions
BY EvaluationConstants, SnapshotConstants

LEMMA BlankIsADraft ==
    /\ Blank \in Drafts /\ Blank.stage = "none" /\ Blank.results = NoResults /\ Blank.described = None
    /\ Idle \in Evaluation /\ Knows(Idle)
    /\ \A s \in Scenarios : NoResults[s] = None
<1>1. NoResults \in [Scenarios -> Versions \cup {None}] /\ \A s \in Scenarios : NoResults[s] = None
  BY DEF NoResults
<1>2. Blank \in Drafts /\ Blank.stage = "none" /\ Blank.results = NoResults /\ Blank.described = None
  BY <1>1 DEF Blank, Drafts
<1>3. Idle \in Evaluation
  BY <1>2 DEF Idle, Evaluation
<1>4. Knows(Idle)
  BY DEF Idle, Knows, Scenes, Finished
<1> QED BY <1>1, <1>2, <1>3, <1>4

\* A step that changes the record of one evaluator only.
LEMMA EvaluatorMoves ==
    ASSUME EvaluatorsInv, NEW e \in Evaluators, NEW r \in Evaluation, Knows(r),
           evaluation' = [evaluation EXCEPT ![e] = r], facts' = facts
    PROVE  EvaluatorsInv'
<1>1. evaluation' \in [Evaluators -> Evaluation] /\ facts' \in Worlds
  BY DEF EvaluatorsInv
<1>2. \A f \in Evaluators : evaluation'[f] = IF f = e THEN r ELSE evaluation[f]
  BY DEF EvaluatorsInv
<1>3. ASSUME NEW f \in Evaluators PROVE Knows(evaluation[f])'
  <2>1. Knows(evaluation'[f])
    BY <1>2 DEF EvaluatorsInv
  <2> QED BY <2>1 DEF Knows, Sound, StageConsistent
<1> QED BY <1>1, <1>3 DEF EvaluatorsInv

LEMMA GivingUp ==
    ASSUME EvaluatorsInv, NEW e \in Evaluators, GiveUp(e), facts' = facts
    PROVE  EvaluatorsInv'
BY EvaluatorMoves, BlankIsADraft DEF GiveUp

\* The draft an evaluator goes on with.
Noted(d) == [d EXCEPT !.clean = @ /\ dest = Authorized]

LEMMA NotedDraft ==
    ASSUME NEW d \in Drafts
    PROVE  /\ Noted(d) \in Drafts
           /\ Noted(d).stage = d.stage /\ Noted(d).error = d.error
           /\ Noted(d).results = d.results /\ Noted(d).described = d.described
           /\ Noted(d).clean => d.clean /\ dest = Authorized
BY DEF Noted, Drafts

LEMMA Proceeding ==
    ASSUME EvaluatorsInv, NEW e \in Evaluators, NEW pc, NEW d \in Drafts, Proceed(e, pc, d), facts' = facts,
           [pc |-> pc, draft |-> Noted(d)] \in Evaluation, Knows([pc |-> pc, draft |-> Noted(d)])
    PROVE  EvaluatorsInv'
BY EvaluatorMoves DEF Proceed, Noted

\* The drafts of the two ways in which a data error is sealed.
FailedPreflight(d) == [d EXCEPT !.stage = "preflight", !.error = dest]
FailedScenario(d) == [Blank EXCEPT !.stage = "scenario", !.error = dest, !.clean = d.clean]

LEMMA FailingScenario ==
    ASSUME EvaluatorsInv, dest \in Versions \cup {None}, NEW e \in Evaluators,
           evaluation[e].pc \in Scenes, ScenarioFails(e), facts' = facts
    PROVE  EvaluatorsInv'
<1> DEFINE d == evaluation[e].draft
           f == FailedScenario(d)
           r == [pc |-> "writing", draft |-> Noted(f)]
<1>1. d \in Drafts /\ Knows(evaluation[e])
  BY DEF EvaluatorsInv, Evaluation
<1>2. /\ f \in Drafts /\ f.stage = "scenario" /\ f.results = NoResults /\ f.described = None
      /\ f.error = dest /\ f.clean = d.clean
  BY <1>1, BlankIsADraft DEF FailedScenario, Drafts
<1>3. r \in Evaluation
  BY <1>2, NotedDraft DEF Evaluation, Finished
<1>4. StageConsistent(Noted(f))
  BY <1>2, NotedDraft DEF StageConsistent
<1>5. Noted(f).clean => Sound(Noted(f))
  BY <1>1, <1>2, NotedDraft, BlankIsADraft DEF Knows, Sound, Scenes
<1>6. Knows(r)
  BY <1>4, <1>5 DEF Knows, Scenes, Finished
<1> QED
  BY <1>2, <1>3, <1>6, Proceeding DEF ScenarioFails, FailedScenario

LEMMA EvaluatorKnows ==
    ASSUME EvaluatorsInv, dest \in Versions \cup {None}, NEW e \in Evaluators, EvaluatorStep(e)
    PROVE  EvaluatorsInv'
<1> DEFINE r == evaluation[e]
           d == evaluation[e].draft
<1>t. /\ r \in Evaluation /\ Knows(r) /\ d \in Drafts /\ r = [pc |-> r.pc, draft |-> d]
      /\ facts \in Worlds /\ Authorized \in Versions /\ None \notin Versions
      /\ d.results \in [Scenarios -> Versions \cup {None}]
  BY EvaluationConstants, SnapshotConstants DEF EvaluatorsInv, Evaluation, Drafts
<1>u. facts' = facts
  BY DEF EvaluatorStep, BeginEvaluation, LoadSnapshot, BindSnapshot, Preflight, FirstSignal, RunScenario,
     Describe, WriteFiles, PublishOutput, PublishReceipt, EvaluatorStops
<1>1. CASE BeginEvaluation(e)
  <2> DEFINE n == [pc |-> "loading", draft |-> Blank]
  <2>1. n \in Evaluation /\ Knows(n)
    BY BlankIsADraft DEF Evaluation, Knows, Scenes, Finished
  <2>2. [Idle EXCEPT !.pc = "loading"] = n
    BY DEF Idle
  <2>3. evaluation' = [evaluation EXCEPT ![e] = n]
    BY <1>1, <2>2 DEF BeginEvaluation
  <2> QED BY <1>u, <2>1, <2>3, EvaluatorMoves
<1>2. CASE LoadSnapshot(e)
  <2>1. CASE GiveUp(e)
    BY <1>u, <2>1, GivingUp
  <2>2. CASE UNCHANGED evaluation
    BY <1>u, <2>2 DEF EvaluatorsInv, Knows, Sound, StageConsistent
  <2> QED BY <1>2, <2>1, <2>2 DEF LoadSnapshot
<1>3. CASE BindSnapshot(e)
  <2>1. CASE GiveUp(e)
    BY <1>u, <2>1, GivingUp
  <2>2. CASE evaluation' = [evaluation EXCEPT ![e].pc = "preflight"]
    <3> DEFINE n == [pc |-> "preflight", draft |-> Blank]
    <3>1. d = Blank
      BY <1>3, <1>t DEF BindSnapshot, Knows
    <3>2. [r EXCEPT !.pc = "preflight"] = n
      BY <1>t, <3>1 DEF Evaluation
    <3>4. evaluation' = [evaluation EXCEPT ![e] = n]
      BY <2>2, <3>2 DEF EvaluatorsInv
    <3>3. n \in Evaluation /\ Knows(n)
      BY BlankIsADraft DEF Evaluation, Knows, Scenes, Finished
    <3> QED BY <1>u, <3>3, <3>4, EvaluatorMoves
  <2> QED BY <1>3, <2>1, <2>2 DEF BindSnapshot
<1>4. CASE Preflight(e)
  <2>0. d = Blank
    BY <1>4, <1>t DEF Preflight, Knows
  <2>1. CASE dest # None /\ facts[dest].preflight
    <3> DEFINE n == [pc |-> "signal", draft |-> Noted(d)]
    <3>1. n \in Evaluation
      BY <1>t, NotedDraft DEF Evaluation
    <3>2. Knows(n)
      BY <1>t, <2>0, <2>1, NotedDraft, BlankIsADraft DEF Knows, Scenes, Finished
    <3> QED BY <1>4, <1>t, <1>u, <2>1, <3>1, <3>2, Proceeding DEF Preflight
  <2>2. CASE ~(dest # None /\ facts[dest].preflight) /\ GiveUp(e)
    BY <1>u, <2>2, GivingUp
  <2>3. CASE ~(dest # None /\ facts[dest].preflight) /\ Proceed(e, "writing", FailedPreflight(d))
    <3> DEFINE f == FailedPreflight(d)
               n == [pc |-> "writing", draft |-> Noted(f)]
    <3>1. f \in Drafts /\ f.stage = "preflight" /\ f.error = dest /\ f.results = NoResults
      BY <1>t, <2>0, BlankIsADraft DEF FailedPreflight, Drafts
    <3>2. n \in Evaluation
      BY <3>1, NotedDraft DEF Evaluation, Finished
    <3>3. StageConsistent(Noted(f))
      BY <3>1, NotedDraft DEF StageConsistent
    <3>4. Noted(f).clean => Sound(Noted(f))
      BY <1>t, <2>3, <3>1, NotedDraft, BlankIsADraft DEF Sound
    <3>5. Knows(n)
      BY <3>3, <3>4 DEF Knows, Scenes, Finished
    <3> QED BY <1>u, <2>3, <3>1, <3>2, <3>5, Proceeding
  <2> QED BY <1>4, <2>1, <2>2, <2>3 DEF Preflight, FailedPreflight
<1>5. CASE FirstSignal(e)
  <2>1. CASE dest # None /\ facts[dest].signal
    <3> DEFINE n == [pc |-> "baseline", draft |-> Noted(d)]
    <3>1. n \in Evaluation
      BY <1>t, NotedDraft DEF Evaluation, Scenes
    <3>2. Knows(n)
      BY <1>5, <1>t, <2>1, NotedDraft, BlankIsADraft DEF FirstSignal, Knows, Scenes, Finished
    <3> QED BY <1>5, <1>t, <1>u, <2>1, <3>1, <3>2, Proceeding DEF FirstSignal
  <2>2. CASE ~(dest # None /\ facts[dest].signal)
    BY <1>5, <1>u, <2>2, GivingUp DEF FirstSignal
  <2> QED BY <2>1, <2>2
<1>6. ASSUME NEW s \in Scenarios, RunScenario(e, s) PROVE EvaluatorsInv'
  <2>0. r.pc = s /\ s \in Scenes
    BY <1>6 DEF RunScenario, Scenarios, Scenes
  <2>1. CASE dest # None /\ facts[dest].runs
    <3> DEFINE f == [d EXCEPT !.results[s] = dest]
               n == [pc |-> AfterScenario[s], draft |-> Noted(f)]
    <3>1. /\ f \in Drafts /\ f.stage = d.stage /\ f.clean = d.clean
          /\ f.results[s] = dest
          /\ \A x \in Scenarios \ {s} : f.results[x] = d.results[x]
      BY <1>t, <2>1 DEF Drafts
    <3>2. n \in Evaluation
      BY <3>1, NotedDraft DEF Evaluation, AfterScenario, Scenarios, Scenes
    <3>3. AfterScenario[s] \in Scenes
      BY DEF AfterScenario, Scenarios, Scenes
    <3>4. d.stage = "none" /\ \A x \in Scenarios : d.clean => d.results[x] \in {None, Authorized}
      BY <1>t, <2>0, BlankIsADraft DEF Knows
    <3>5. d.clean => facts[Authorized].preflight /\ facts[Authorized].signal
      BY <1>t, <2>0 DEF Knows
    <3>6. Noted(f).clean => \A x \in Scenarios : Noted(f).results[x] \in {None, Authorized}
      <4>1. /\ Noted(f).results = f.results
            /\ Noted(f).clean => f.clean /\ dest = Authorized
        BY <3>1, NotedDraft
      <4>2. SUFFICES ASSUME Noted(f).clean, NEW x \in Scenarios PROVE f.results[x] \in {None, Authorized}
        BY <4>1
      <4>3. CASE x = s
        BY <3>1, <4>1, <4>2, <4>3
      <4>4. CASE x # s
        BY <3>1, <3>4, <4>1, <4>2, <4>4
      <4> QED BY <4>3, <4>4
    <3>7. /\ AfterScenario[s] \in {"moderate", "severe", "describing"}
          /\ Noted(f).results["baseline"] # None
          /\ AfterScenario[s] \in {"severe", "describing"} => Noted(f).results["moderate"] # None
          /\ AfterScenario[s] = "describing" => Noted(f).results["severe"] # None
      <4>1. Noted(f).results = f.results
        BY <3>1, NotedDraft
      <4>2. CASE s = "baseline"
        BY <2>1, <3>1, <4>1, <4>2 DEF AfterScenario, Scenarios
      <4>3. CASE s = "moderate"
        BY <1>t, <2>0, <2>1, <3>1, <4>1, <4>3 DEF AfterScenario, Scenarios, Knows
      <4>4. CASE s = "severe"
        BY <1>t, <2>0, <2>1, <3>1, <4>1, <4>4 DEF AfterScenario, Scenarios, Knows
      <4> QED BY <4>2, <4>3, <4>4 DEF Scenarios
    <3>8. Knows(n)
      BY <3>1, <3>3, <3>4, <3>5, <3>6, <3>7, NotedDraft DEF Knows, Scenes, Finished
    <3> QED BY <1>6, <1>u, <2>1, <3>1, <3>2, <3>8, Proceeding DEF RunScenario
  <2>2. CASE ~(dest # None /\ facts[dest].runs) /\ ScenarioFails(e)
    BY <1>u, <2>0, <2>2, FailingScenario
  <2>3. CASE ~(dest # None /\ facts[dest].runs) /\ GiveUp(e)
    BY <1>u, <2>3, GivingUp
  <2> QED BY <1>6, <2>1, <2>2, <2>3 DEF RunScenario
<1>7. CASE Describe(e)
  <2>0. r.pc = "describing" /\ r.pc \in Scenes
    BY <1>7 DEF Describe, Scenes
  <2>1. CASE dest # None
    <3> DEFINE f == [d EXCEPT !.described = dest]
               n == [pc |-> "writing", draft |-> Noted(f)]
    <3>1. f \in Drafts /\ f.stage = d.stage /\ f.clean = d.clean /\ f.results = d.results /\ f.described = dest
      BY <1>t DEF Drafts
    <3>2. n \in Evaluation
      BY <3>1, NotedDraft DEF Evaluation, Finished
    <3>3. StageConsistent(Noted(f))
      BY <1>t, <2>0, <3>1, NotedDraft DEF StageConsistent, Knows, Scenarios
    <3>4. Noted(f).clean => Sound(Noted(f))
      BY <1>t, <2>0, <3>1, NotedDraft DEF Sound, Knows
    <3>5. Knows(n)
      BY <3>3, <3>4 DEF Knows, Scenes, Finished
    <3> QED BY <1>7, <1>u, <2>1, <3>1, <3>2, <3>5, Proceeding DEF Describe
  <2>2. CASE dest = None /\ ScenarioFails(e)
    BY <1>u, <2>0, <2>2, FailingScenario
  <2>3. CASE dest = None /\ GiveUp(e)
    BY <1>u, <2>3, GivingUp
  <2> QED BY <1>7, <2>1, <2>2, <2>3 DEF Describe
<1>8. CASE WriteFiles(e)
  <2>1. CASE Unused
    <3> DEFINE n == [pc |-> "publishing", draft |-> d]
    <3>1. n \in Evaluation
      BY <1>t DEF Evaluation, Finished
    <3>2. Knows(n)
      BY <1>8, <1>t DEF WriteFiles, Knows, Scenes, Finished
    <3>3. evaluation' = [evaluation EXCEPT ![e] = n]
      BY <1>8, <1>t, <2>1 DEF WriteFiles, EvaluatorsInv, Evaluation
    <3> QED BY <1>u, <3>1, <3>2, <3>3, EvaluatorMoves
  <2>2. CASE ~Unused
    BY <1>8, <1>u, <2>2, GivingUp DEF WriteFiles
  <2> QED BY <2>1, <2>2
<1>9. CASE PublishOutput(e)
  <2>1. CASE output = Nothing
    <3> DEFINE n == [pc |-> "receipting", draft |-> d]
    <3>1. n \in Evaluation
      BY <1>t DEF Evaluation, Finished
    <3>2. Knows(n)
      BY <1>9, <1>t DEF PublishOutput, Knows, Scenes, Finished
    <3>3. evaluation' = [evaluation EXCEPT ![e] = n]
      BY <1>9, <1>t, <2>1 DEF PublishOutput, EvaluatorsInv, Evaluation
    <3> QED BY <1>u, <3>1, <3>2, <3>3, EvaluatorMoves
  <2>2. CASE output # Nothing
    BY <1>9, <1>u, <2>2, GivingUp DEF PublishOutput
  <2> QED BY <2>1, <2>2
<1>10. CASE PublishReceipt(e)
  BY <1>10, <1>u, GivingUp DEF PublishReceipt
<1>11. CASE EvaluatorStops(e)
  BY <1>11, <1>u, GivingUp DEF EvaluatorStops
<1> QED
  BY <1>1, <1>2, <1>3, <1>4, <1>5, <1>6, <1>7, <1>8, <1>9, <1>10, <1>11 DEF EvaluatorStep

-----------------------------------------------------------------------------
(* Readers *)

ReaderRecord == [pc : {"shut", "reading", "open"}, manifest : Versions \cup {None}, tables : Seq(Versions)]

ReaderInv ==
    /\ reader \in [Readers -> ReaderRecord]
    /\ \A e \in Evaluators : evaluation[e].pc # "loading" => reader[e] = Shut

LEMMA Opening ==
    ASSUME dest \in Versions \cup {None}, reader \in [Readers -> ReaderRecord], NEW e \in Readers, OpenStep(e)
    PROVE  reader' \in [Readers -> ReaderRecord] /\ \A f \in Readers \ {e} : reader'[f] = reader[f]
<1>1. Shut \in ReaderRecord
  BY DEF Shut, ReaderRecord
<1>2. CASE ReadManifest(e)
  BY <1>1, <1>2 DEF ReadManifest, ReaderRecord, Shut
<1>3. CASE ReadTable(e)
  <2>1. CASE dest = None
    BY <1>1, <1>3, <2>1 DEF ReadTable
  <2>2. CASE dest # None
    <3> DEFINE n == IF dest = None THEN Shut ELSE [reader[e] EXCEPT !.tables = Append(@, dest)]
    <3>0. reader' = [reader EXCEPT ![e] = n]
      BY <1>3 DEF ReadTable
    <3>1. n = [reader[e] EXCEPT !.tables = Append(reader[e].tables, dest)]
      BY <2>2
    <3>2. reader[e].tables \in Seq(Versions) /\ dest \in Versions
      BY <2>2 DEF ReaderRecord
    <3>3. Append(reader[e].tables, dest) \in Seq(Versions)
      BY <3>2
    <3>4. [reader[e] EXCEPT !.tables = Append(reader[e].tables, dest)] \in ReaderRecord
      BY <3>3 DEF ReaderRecord
    <3> QED BY <3>0, <3>1, <3>4
  <2> QED BY <2>1, <2>2
<1>4. CASE VerifyContent(e)
  BY <1>1, <1>4 DEF VerifyContent, ReaderRecord, Shut
<1> QED BY <1>2, <1>3, <1>4 DEF OpenStep

-----------------------------------------------------------------------------
(* The output and the receipt *)

\* What stands there is a report as an evaluator has made it.
ReportStands ==
    output # Nothing => /\ output.outcome = Outcome(output.draft)
                        /\ StageConsistent(output.draft)
                        /\ output.draft.clean => Sound(output.draft)

\* At most one run is between its two publications, the one whose report stands there.
OneBetween ==
    /\ \A e \in Evaluators : evaluation[e].pc = "receipting" => output = Report(e) /\ receipt = Nothing
    /\ \A e, f \in Evaluators :
         evaluation[e].pc = "receipting" /\ evaluation[f].pc = "receipting" => e = f

OutputInv ==
    /\ output \in Reports \cup {Nothing}
    /\ receipt \in {Nothing, output}
    /\ ReportStands
    /\ OneBetween
    /\ UnreceiptedOutputHasAFault

LEMMA ReportsAre ==
    ASSUME EvaluatorsInv, NEW e \in Evaluators
    PROVE  /\ Report(e) \in Reports /\ Report(e) # Nothing
           /\ Report(e).draft = evaluation[e].draft /\ Report(e).outcome = Outcome(evaluation[e].draft)
<1>1. evaluation[e].draft \in Drafts
  BY DEF EvaluatorsInv, Evaluation
<1>2. Outcome(evaluation[e].draft) \in {"not_evaluable", "no_go", "conditional_go"}
  BY DEF Outcome
<1>3. Report(e) \in Reports
  BY <1>1, <1>2 DEF Report, Reports
<1> QED BY <1>3, NothingIsNoReport DEF Report

\* What is published is judged by the facts, which do not change.
LEMMA FactsStay ==
    ASSUME facts' = facts
    PROVE  /\ \A d \in Drafts : Outcome(d)' = Outcome(d)
           /\ \A d \in Drafts : Sound(d)' = Sound(d)
           /\ \A d \in Drafts : StageConsistent(d)' = StageConsistent(d)
BY DEF Outcome, Sound, StageConsistent

\* An evaluator that publishes nothing, and does not give up between its two
\* publications, unless by a fault.
LEMMA NothingPublished ==
    ASSUME EvaluatorsInv, OutputInv, NEW e \in Evaluators, NEW r \in Evaluation,
           evaluation' = [evaluation EXCEPT ![e] = r], r.pc # "receipting",
           UNCHANGED <<facts, output, receipt>>,
           evaluation[e].pc = "receipting" => faults' > 0,
           faults \in Nat, faults' \in Nat, faults' >= faults
    PROVE  OutputInv'
<1>1. \A f \in Evaluators : evaluation'[f] = IF f = e THEN r ELSE evaluation[f]
  BY DEF EvaluatorsInv
<1>2. \A f \in Evaluators : evaluation'[f].pc = "receipting" => f # e /\ evaluation'[f] = evaluation[f]
  BY <1>1
<1>3. ASSUME NEW f \in Evaluators, f # e PROVE Report(f)' = Report(f)
  <2>1. evaluation'[f] = evaluation[f]
    BY <1>1, <1>3
  <2> QED BY <2>1 DEF Report, Outcome
<1>4. \A f \in Evaluators : (evaluation[f].pc = "receipting")' => output' = Report(f)' /\ receipt' = Nothing
  BY <1>2, <1>3 DEF OutputInv, OneBetween
<1>5. \A f, g \in Evaluators : evaluation'[f].pc = "receipting" /\ evaluation'[g].pc = "receipting" => f = g
  BY <1>2 DEF OutputInv, OneBetween
<1>6. UnreceiptedOutputHasAFault'
  <2> SUFFICES ASSUME output # Nothing, receipt = Nothing, ~(faults' > 0)
               PROVE  \E f \in Evaluators : (evaluation[f].pc = "receipting")' /\ Report(f)' = output'
    BY DEF UnreceiptedOutputHasAFault
  <2>1. PICK f \in Evaluators : evaluation[f].pc = "receipting" /\ Report(f) = output
    BY DEF OutputInv, UnreceiptedOutputHasAFault
  <2>2. f # e
    BY <2>1
  <2> QED BY <1>1, <1>3, <2>1, <2>2
<1>7. output' \in Reports \cup {Nothing} /\ receipt' \in {Nothing, output'}
  BY DEF OutputInv
<1>8. ReportStands'
  BY DEF OutputInv, ReportStands, Outcome, Sound, StageConsistent
<1>9. OneBetween'
  BY <1>4, <1>5 DEF OneBetween
<1> QED
  BY <1>6, <1>7, <1>8, <1>9 DEF OutputInv

LEMMA OutputMoves ==
    ASSUME EvaluatorsInv, EvaluatorsInv', OutputInv, faults \in 0..MaxFaults, faults' \in 0..MaxFaults,
           NEW e \in Evaluators, EvaluatorStep(e)
    PROVE  OutputInv'
<1> DEFINE r == evaluation[e]
           d == evaluation[e].draft
<1>f. faults \in Nat /\ faults' \in Nat
  BY SnapshotConstants
<1>t. /\ evaluation \in [Evaluators -> Evaluation] /\ evaluation' \in [Evaluators -> Evaluation]
      /\ r \in Evaluation /\ Knows(r) /\ d \in Drafts
      /\ \A n : [evaluation EXCEPT ![e] = n][e] = n
  BY DEF EvaluatorsInv, Evaluation
<1>1. CASE PublishOutput(e) /\ output = Nothing
  <2>1. /\ output' = Report(e) /\ evaluation' = [evaluation EXCEPT ![e].pc = "receipting"]
        /\ UNCHANGED <<facts, receipt>>
    BY <1>1 DEF PublishOutput
  <2>2. receipt = Nothing /\ \A f \in Evaluators : evaluation[f].pc # "receipting"
    BY <1>1, ReportsAre DEF OutputInv, OneBetween
  <2>3. evaluation'[e].draft = d /\ \A f \in Evaluators \ {e} : evaluation'[f] = evaluation[f]
    BY <1>t, <2>1 DEF Evaluation
  <2>4. Report(e)' = Report(e)
    BY <2>1, <2>3 DEF Report, Outcome
  <2>5. output' \in Reports /\ output'.draft = d /\ output'.outcome = Outcome(d)
    BY <2>1, ReportsAre
  <2>6. StageConsistent(d) /\ (d.clean => Sound(d))
    BY <1>1, <1>t DEF PublishOutput, Knows, Finished
  <2>7. Outcome(d)' = Outcome(d) /\ Sound(d)' = Sound(d) /\ StageConsistent(d)' = StageConsistent(d)
    BY <1>t, <2>1, <2>3, FactsStay DEF Outcome, Sound, StageConsistent
  <2>8. /\ output'.outcome = Outcome(output.draft)' /\ StageConsistent(output.draft)'
        /\ output'.draft.clean => Sound(output.draft)'
    BY <2>1, <2>5, <2>6 DEF Outcome, Sound, StageConsistent
  <2>9. \A f \in Evaluators : evaluation'[f].pc = "receipting" => f = e
    BY <2>2, <2>3
  <2>10. \A f \in Evaluators : (evaluation[f].pc = "receipting")' => output' = Report(f)' /\ receipt' = Nothing
    BY <2>1, <2>2, <2>4, <2>9
  <2>11. UnreceiptedOutputHasAFault'
    <3>1. evaluation'[e].pc = "receipting"
      BY <1>t, <2>1 DEF Evaluation
    <3> QED BY <2>1, <2>4, <3>1 DEF UnreceiptedOutputHasAFault
  <2> QED BY <2>1, <2>2, <2>5, <2>8, <2>9, <2>10, <2>11 DEF OutputInv, ReportStands, OneBetween
<1>2. CASE PublishReceipt(e)
  <2>1. /\ receipt' = Report(e) /\ evaluation' = [evaluation EXCEPT ![e] = Idle]
        /\ UNCHANGED <<facts, output>>
    BY <1>2 DEF PublishReceipt, GiveUp
  <2>2. output = Report(e) /\ output # Nothing
    BY <1>2, ReportsAre DEF PublishReceipt, OutputInv, OneBetween
  <2>3. \A f \in Evaluators : evaluation'[f].pc # "receipting"
    <3>1. Idle.pc # "receipting"
      BY DEF Idle
    <3>2. \A f \in Evaluators : evaluation'[f] = IF f = e THEN Idle ELSE evaluation[f]
      BY <1>t, <2>1
    <3> QED BY <1>2, <3>1, <3>2 DEF PublishReceipt, OutputInv, OneBetween
  <2>4. output.draft \in Drafts
    BY <2>2 DEF OutputInv, Reports
  <2>5. /\ output'.outcome = Outcome(output.draft)' /\ StageConsistent(output.draft)'
        /\ output'.draft.clean => Sound(output.draft)'
    BY <2>1, <2>2, <2>4, FactsStay DEF OutputInv, ReportStands, OneBetween
  <2>6. UnreceiptedOutputHasAFault'
    BY <2>1, <2>2 DEF UnreceiptedOutputHasAFault
  <2> QED BY <2>1, <2>2, <2>3, <2>5, <2>6 DEF OutputInv, ReportStands, OneBetween
<1>3. CASE EvaluatorStops(e)
  <2>1. faults' > 0 /\ faults' >= faults
    BY <1>3, <1>f DEF EvaluatorStops
  <2>2. Idle \in Evaluation /\ Idle.pc # "receipting"
    BY BlankIsADraft DEF Idle
  <2> QED BY <1>3, <1>f, <2>1, <2>2, NothingPublished DEF EvaluatorStops, GiveUp
<1>4. CASE ~(PublishOutput(e) /\ output = Nothing) /\ ~PublishReceipt(e) /\ ~EvaluatorStops(e)
  <2>1. UNCHANGED <<facts, output, receipt, faults>>
    BY <1>4 DEF EvaluatorStep, BeginEvaluation, LoadSnapshot, BindSnapshot, Preflight, FirstSignal, RunScenario,
       Describe, WriteFiles, PublishOutput, publicationVars
  <2>2. r.pc # "receipting"
    BY <1>4 DEF EvaluatorStep, BeginEvaluation, LoadSnapshot, BindSnapshot, Preflight, FirstSignal, RunScenario,
       Describe, WriteFiles, PublishOutput, Scenarios
  <2>3. \E n \in Evaluation : evaluation' = [evaluation EXCEPT ![e] = n] /\ n.pc # "receipting"
    <3>1. \A n : evaluation' = [evaluation EXCEPT ![e] = n] => n = evaluation'[e] /\ n \in Evaluation
      BY <1>t
    <3>2. Idle.pc # "receipting" /\ [Idle EXCEPT !.pc = "loading"].pc # "receipting"
      BY DEF Idle
    <3>3. /\ [evaluation EXCEPT ![e] = r] = evaluation
          /\ [r EXCEPT !.pc = "preflight"].pc # "receipting"
          /\ [r EXCEPT !.pc = "publishing"].pc # "receipting"
      BY <1>t DEF Evaluation
    <3>4. \A s \in Scenarios : AfterScenario[s] # "receipting"
      BY DEF Scenarios, AfterScenario
    <3>5. CASE BeginEvaluation(e)
      BY <3>1, <3>2, <3>5 DEF BeginEvaluation
    <3>6. CASE LoadSnapshot(e)
      BY <1>t, <2>2, <3>1, <3>2, <3>3, <3>6 DEF LoadSnapshot, GiveUp
    <3>7. CASE BindSnapshot(e)
      BY <3>1, <3>2, <3>3, <3>7 DEF BindSnapshot, GiveUp
    <3>8. CASE Preflight(e) \/ FirstSignal(e) \/ Describe(e)
      BY <3>1, <3>2, <3>8 DEF Preflight, FirstSignal, Describe, Proceed, ScenarioFails, GiveUp
    <3>9. ASSUME NEW s \in Scenarios, RunScenario(e, s)
          PROVE  \E n \in Evaluation : evaluation' = [evaluation EXCEPT ![e] = n] /\ n.pc # "receipting"
      BY <3>1, <3>2, <3>4, <3>9 DEF RunScenario, Proceed, ScenarioFails, GiveUp
    <3>10. CASE WriteFiles(e)
      BY <3>1, <3>2, <3>3, <3>10 DEF WriteFiles, GiveUp
    <3>11. CASE PublishOutput(e)
      BY <1>4, <3>1, <3>2, <3>11 DEF PublishOutput, GiveUp
    <3> QED BY <1>4, <3>5, <3>6, <3>7, <3>8, <3>9, <3>10, <3>11 DEF EvaluatorStep
  <2>4. faults' >= faults
    BY <1>f, <2>1
  <2> QED BY <1>f, <2>1, <2>2, <2>3, <2>4, NothingPublished
<1> QED BY <1>1, <1>2, <1>3, <1>4

-----------------------------------------------------------------------------
(* The invariant *)

Inv == PublicationInv /\ EvaluatorsInv /\ ReaderInv /\ OutputInv

LEMMA InitInv == ASSUME Init PROVE Inv
<1>1. PublicationInv
  BY Gone, SnapshotConstants DEF Init, PublicationInit, PublicationInv, Kept
<1>2. EvaluatorsInv
  BY BlankIsADraft DEF Init, EvaluatorsInv
<1>3. ReaderInv
  BY DEF Init, PublicationInit, ReaderInv, ReaderRecord, Shut, Evaluators
<1>4. OutputInv
  <2>1. \A e \in Evaluators : evaluation[e].pc # "receipting"
    BY DEF Init, Idle
  <2> QED BY <2>1 DEF Init, OutputInv, ReportStands, OneBetween, UnreceiptedOutputHasAFault
<1> QED BY <1>1, <1>2, <1>3, <1>4 DEF Inv

\* Imports leave evaluators alone.
LEMMA ImportStepInv == ASSUME Inv, ImportNext, UNCHANGED evaluationVars PROVE Inv'
<1>1. PublicationInv'
  BY ImportKeeps DEF Inv
<1>2. UNCHANGED <<facts, evaluation, output, receipt, reader>> /\ faults' \in Nat /\ faults \in Nat /\ faults' >= faults
  <2>1. UNCHANGED <<facts, evaluation, output, receipt>>
    BY DEF evaluationVars
  <2>2. UNCHANGED reader
    BY DEF ImportNext, BeginImport, ImportStep, LookAtDest, MoveAside, MoveIn, DropBackup, Rescue, Restore,
       OperationFails, ImporterCrashes, RunAgain
  <2>3. faults \in Nat
    BY SnapshotConstants DEF Inv, PublicationInv
  <2>4. faults' = faults \/ faults' = faults + 1
    BY DEF ImportNext, BeginImport, ImportStep, LookAtDest, MoveAside, MoveIn, DropBackup, Rescue, Restore,
       OperationFails, ImporterCrashes, RunAgain
  <2> QED BY <2>1, <2>2, <2>3, <2>4
<1>3. EvaluatorsInv'
  BY <1>2 DEF Inv, EvaluatorsInv, Knows, Sound, StageConsistent
<1>4. ReaderInv'
  BY <1>2 DEF Inv, ReaderInv
<1>5. OutputInv'
  <2>1. \A e \in Evaluators : Report(e)' = Report(e)
    BY <1>2 DEF Report, Outcome
  <2>2. ReportStands'
    BY <1>2 DEF Inv, OutputInv, ReportStands, Outcome, Sound, StageConsistent
  <2>3. OneBetween'
    BY <1>2, <2>1 DEF Inv, OutputInv, OneBetween
  <2>4. UnreceiptedOutputHasAFault'
    BY <1>2, <2>1 DEF Inv, OutputInv, UnreceiptedOutputHasAFault
  <2> QED BY <1>2, <2>2, <2>3, <2>4 DEF Inv, OutputInv
<1> QED BY <1>1, <1>3, <1>4, <1>5 DEF Inv

LEMMA EvaluatorStepInv == ASSUME Inv, NEW e \in Evaluators, EvaluatorStep(e) PROVE Inv'
<1>1. UNCHANGED <<dest, importer, orphans, imports>> /\ faults' \in 0..MaxFaults
  <2>1. UNCHANGED <<dest, importer, orphans, imports>>
    BY DEF EvaluatorStep, BeginEvaluation, LoadSnapshot, BindSnapshot, Preflight, FirstSignal, RunScenario, Describe,
       WriteFiles, PublishOutput, PublishReceipt, EvaluatorStops, publicationVars
  <2>2. faults' = faults \/ (faults < MaxFaults /\ faults' = faults + 1)
    BY DEF EvaluatorStep, BeginEvaluation, LoadSnapshot, BindSnapshot, Preflight, FirstSignal, RunScenario, Describe,
       WriteFiles, PublishOutput, PublishReceipt, EvaluatorStops, publicationVars
  <2>3. faults \in 0..MaxFaults
    BY DEF Inv, PublicationInv
  <2> QED BY <2>1, <2>2, <2>3, SnapshotConstants
<1>2. PublicationInv'
  BY <1>1 DEF Inv, PublicationInv, ImporterInv, Kept
<1>3. EvaluatorsInv'
  BY EvaluatorKnows DEF Inv, PublicationInv
<1>4. ReaderInv'
  <2>0. Shut \in ReaderRecord /\ e \in Readers
    BY DEF Shut, ReaderRecord, Evaluators
  <2>1. \A f \in Evaluators \ {e} : evaluation'[f] = evaluation[f]
    BY DEF Inv, EvaluatorsInv, EvaluatorStep, BeginEvaluation, LoadSnapshot, BindSnapshot, Preflight, FirstSignal,
       RunScenario, Describe, WriteFiles, PublishOutput, PublishReceipt, EvaluatorStops, GiveUp, Proceed, ScenarioFails
  <2>2. CASE LoadSnapshot(e)
    <3>1. reader' \in [Readers -> ReaderRecord] /\ \A f \in Readers \ {e} : reader'[f] = reader[f]
      BY <2>0, <2>2, Opening DEF Inv, PublicationInv, ReaderInv, LoadSnapshot
    <3>2. evaluation'[e].pc # "loading" => reader'[e] = Shut
      <4>1. CASE reader'[e].pc = "shut"
        <5>0. reader \in [Readers -> ReaderRecord] /\ Shut.pc = "shut"
          BY DEF Inv, ReaderInv, Shut
        <5>1. CASE ReadManifest(e)
          BY <2>0, <4>1, <5>0, <5>1 DEF ReadManifest, Shut
        <5>2. CASE ReadTable(e)
          <6>1. \A t : [reader[e] EXCEPT !.tables = t].pc = reader[e].pc
            BY <2>0, <5>0 DEF ReaderRecord
          <6>2. reader'[e] = Shut \/ \E t : reader'[e] = [reader[e] EXCEPT !.tables = t]
            BY <2>0, <5>0, <5>2 DEF ReadTable
          <6> QED BY <4>1, <5>2, <6>1, <6>2 DEF ReadTable
        <5>3. CASE VerifyContent(e)
          BY <2>0, <4>1, <5>0, <5>3 DEF VerifyContent, Shut
        <5> QED BY <2>2, <5>1, <5>2, <5>3 DEF LoadSnapshot, OpenStep
      <4>2. CASE reader'[e].pc # "shut"
        BY <2>2, <4>2 DEF LoadSnapshot
      <4> QED BY <4>1, <4>2
    <3> QED BY <2>1, <3>1, <3>2 DEF Inv, ReaderInv, Evaluators
  <2>3. CASE BindSnapshot(e) \/ EvaluatorStops(e)
    <3>1. reader' = [reader EXCEPT ![e] = Shut]
      BY <2>3 DEF BindSnapshot, EvaluatorStops
    <3> QED BY <2>0, <2>1, <3>1 DEF Inv, ReaderInv, Evaluators
  <2>4. CASE ~LoadSnapshot(e) /\ ~BindSnapshot(e) /\ ~EvaluatorStops(e)
    <3>1. reader' = reader /\ (evaluation'[e].pc # "loading" /\ ~BeginEvaluation(e) => evaluation[e].pc # "loading")
      BY <2>4 DEF EvaluatorStep, BeginEvaluation, Preflight, FirstSignal, RunScenario, Describe, WriteFiles,
         PublishOutput, PublishReceipt, publicationVars, Scenarios
    <3>2. BeginEvaluation(e) => evaluation[e].pc # "loading"
      BY DEF BeginEvaluation
    <3> QED BY <2>1, <3>1, <3>2 DEF Inv, ReaderInv, Evaluators
  <2> QED BY <2>2, <2>3, <2>4
<1>5. OutputInv'
  BY <1>1, <1>3, OutputMoves DEF Inv, PublicationInv
<1> QED BY <1>2, <1>3, <1>4, <1>5 DEF Inv

LEMMA StutterInv == ASSUME Inv, UNCHANGED vars PROVE Inv'
<1>1. UNCHANGED <<dest, importer, orphans, reader, imports, faults, facts, evaluation, output, receipt>>
  BY DEF vars, publicationVars, evaluationVars
<1>2. PublicationInv'
  BY <1>1 DEF Inv, PublicationInv, ImporterInv, Kept
<1>3. EvaluatorsInv' /\ ReaderInv'
  BY <1>1 DEF Inv, EvaluatorsInv, ReaderInv, Knows, Sound, StageConsistent
<1>4. OutputInv'
  <2>1. \A e \in Evaluators : Report(e)' = Report(e)
    BY <1>1 DEF Report, Outcome
  <2>2. ReportStands'
    BY <1>1 DEF Inv, OutputInv, ReportStands, Outcome, Sound, StageConsistent
  <2>3. OneBetween' /\ UnreceiptedOutputHasAFault'
    BY <1>1, <2>1 DEF Inv, OutputInv, OneBetween, UnreceiptedOutputHasAFault
  <2> QED BY <1>1, <2>2, <2>3 DEF Inv, OutputInv
<1> QED BY <1>2, <1>3, <1>4 DEF Inv

LEMMA SafeSpec == Spec => Init /\ [][Next]_vars
BY PTL DEF Spec

LEMMA Invariance == Spec => []Inv
<1>1. Init => Inv
  BY InitInv
<1>2. Inv /\ [Next]_vars => Inv'
  BY ImportStepInv, EvaluatorStepInv, StutterInv DEF Next
<1> QED BY <1>1, <1>2, SafeSpec, PTL

-----------------------------------------------------------------------------
(* Theorems *)

\* The state has the types the code gives it, and evaluators hold what their
\* step says (evaluate_portfolio_oos_one_shot).
THEOREM TypesHold == Spec => []OneShotTypeOK
<1>1. Inv => OneShotTypeOK
  BY DEF Inv, PublicationInv, EvaluatorsInv, ReaderInv, OutputInv, OneShotTypeOK, PublicationTypeOK, Importing,
     Evaluation, Knows, Finished
<1> QED BY <1>1, Invariance, PTL

\* However many imports run into one directory, and wherever they fail or
\* crash, a whole snapshot remains (write_snapshot_atomically).
THEOREM NoSnapshotIsLost == Spec => []NothingLost
<1>1. Inv => NothingLost
  BY DEF Inv, PublicationInv, Kept, NothingLost
<1> QED BY <1>1, Invariance, PTL

\* Without a fault, an output lacks its receipt only while its own run is about
\* to write it (write_portfolio_oos_evaluation_atomically).
THEOREM OutputsGetReceipts == Spec => []UnreceiptedOutputHasAFault
<1>1. Inv => UnreceiptedOutputHasAFault
  BY DEF Inv, OutputInv
<1> QED BY <1>1, Invariance, PTL

\* The read-only verifier accepts every outcome of an evaluation whose reads all
\* found the authorized snapshot (verify_sealed_portfolio_oos_one_shot).
THEOREM CleanRunsVerify == Spec => []CleanEvaluationVerifies
<1>1. Inv => CleanEvaluationVerifies
  <2> SUFFICES ASSUME Inv, output # Nothing, receipt # Nothing, dest = Authorized, output.draft.clean
               PROVE  VerifierAccepts
    BY DEF CleanEvaluationVerifies
  <2> DEFINE d == output.draft
  <2>1. receipt = output /\ output.outcome = Outcome(d) /\ StageConsistent(d) /\ Sound(d)
    BY DEF Inv, OutputInv, ReportStands
  <2>2. facts \in Worlds /\ d \in Drafts
    BY DEF Inv, EvaluatorsInv, OutputInv, Reports
  <2>3. facts[Authorized].preflight \in BOOLEAN /\ facts[Authorized].signal \in BOOLEAN
    BY <2>2, FactsAre, EvaluationConstants
  <2>4. facts[Authorized].preflight = (d.stage # "preflight")
    BY <2>1, <2>3 DEF Sound
  <2>5. d.stage = "none" => \A s \in Scenarios : facts[d.results[s]].calendar = facts[Authorized].calendar
    <3>1. d.stage = "none" => \A s \in Scenarios : d.results[s] = Authorized
      BY <2>1, <2>2 DEF Sound, StageConsistent
    <3> QED BY <3>1
  <2> QED BY <2>1, <2>4, <2>5 DEF VerifierAccepts, Sound
<1> QED BY <1>1, Invariance, PTL

\* However many runs found the authorization unused, it is consumed by one
\* report that nothing changes, and receipted for that report at most once
\* (write_portfolio_oos_evaluation_atomically).
THEOREM ConsumedOnce == Spec => RefinesOneShot
<1>1. Init => Authorization!Init
  BY DEF Init, Authorization!Init
<1>2. ASSUME Inv, Inv', Next PROVE [Authorization!Next]_(Authorization!authorizationVars)
  <2>1. CASE UNCHANGED <<output, receipt>>
    BY <2>1 DEF Authorization!authorizationVars
  <2>2. ASSUME NEW e \in Evaluators, PublishOutput(e), output = Nothing PROVE Authorization!Consume
    BY <1>2, <2>2, ReportsAre DEF Inv, PublishOutput, Authorization!Consume
  <2>3. ASSUME NEW e \in Evaluators, PublishReceipt(e) PROVE Authorization!Acknowledge
    BY <1>2, <2>3, ReportsAre DEF Inv, OutputInv, OneBetween, PublishReceipt, Authorization!Acknowledge
  <2> QED
    BY <1>2, <2>1, <2>2, <2>3 DEF Next, evaluationVars, EvaluatorStep, BeginEvaluation, LoadSnapshot, BindSnapshot,
       Preflight, FirstSignal, RunScenario, Describe, WriteFiles, PublishOutput, EvaluatorStops,
       Authorization!Next
<1>3. ASSUME UNCHANGED vars PROVE UNCHANGED Authorization!authorizationVars
  BY <1>3 DEF vars, evaluationVars, Authorization!authorizationVars
<1>4. Inv /\ Inv' /\ [Next]_vars => [Authorization!Next]_(Authorization!authorizationVars)
  BY <1>2, <1>3
<1> QED BY <1>1, <1>4, Invariance, SafeSpec, PTL DEF RefinesOneShot, Authorization!Spec
=============================================================================
