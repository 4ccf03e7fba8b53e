------------------------ MODULE LayerOneLedger_proofs ------------------------
(***************************************************************************)
(* Proofs about the layer-one ledger, for all values of its constants.     *)
(***************************************************************************)
EXTENDS LayerOneLedger, SequenceTheorems, TLAPS

-----------------------------------------------------------------------------
(* Types *)

DecisionRequest ==
    [kind : {"decision"}, at : Stamps, revision : Nat, prior : RegimeState,
     auth : Nat, ceiling : Budgets, unlock : UnlockRequest \cup {NoUnlock},
     target : Days, obs : Observations]

Request ==
    InitializeRequest \cup EvidenceRequest \cup CeilingRequest
        \cup UnlockRequest \cup DecisionRequest

Audit == [req : Request, state : RegimeState, priorCeiling : Budgets,
          triggered : BOOLEAN]

Row == [revision : Nat, state : RegimeState, ceiling : Budgets, auth : Nat,
        stageStart : Nat, snapshot : Snapshots \cup {"none"},
        lastTarget : Nat \cup {NoDay}, updatedAt : Nat]

TypeInv ==
    /\ current \in Row
    /\ audits \in Seq(Audit)
    /\ current.revision = Len(audits)
    /\ current.auth \in 0..Len(audits)
    /\ consumedBy \in [UnlockIds -> 0..Len(audits)]

-----------------------------------------------------------------------------
(* The regime engine stays within its types *)

\* The raw target is one of the budget levels, and never above the ceiling.
LEMMA RawTargetBounds ==
    ASSUME NEW obs \in [ratio : Int, vol : Int, indexDrawdown : Int, accountDrawdown : Int],
           NEW ceiling \in Budgets
    PROVE  RawTarget(obs, ceiling) \in Budgets /\ RawTarget(obs, ceiling) <= ceiling
<1>1. /\ TrendBase(MapTrendRegime(obs.ratio)) \in Budgets
      /\ MapVolatilityCap(obs.vol) \in Budgets
      /\ MapIndexDrawdownCap(obs.indexDrawdown) \in Budgets
      /\ MapAccountDrawdownCap(obs.accountDrawdown) \in Budgets
  BY DEF TrendBase, MapTrendRegime, MapVolatilityCap, MapIndexDrawdownCap,
         MapAccountDrawdownCap, Budgets
<1>2. \A a, b \in Budgets : /\ Smaller(a, b) \in Budgets
                            /\ Smaller(a, b) <= a /\ Smaller(a, b) <= b
  BY DEF Smaller, Budgets
<1> DEFINE account == Smaller(MapAccountDrawdownCap(obs.accountDrawdown), ceiling)
           index == Smaller(MapIndexDrawdownCap(obs.indexDrawdown), account)
           volatility == Smaller(MapVolatilityCap(obs.vol), index)
<1>3. account \in Budgets /\ account <= ceiling
  BY <1>1, <1>2
<1>4. index \in Budgets /\ index <= account
  BY <1>1, <1>2, <1>3
<1>5. volatility \in Budgets /\ volatility <= index
  BY <1>1, <1>2, <1>4
<1>6. RawTarget(obs, ceiling) = Smaller(TrendBase(MapTrendRegime(obs.ratio)), volatility)
  BY DEF RawTarget
<1> HIDE DEF account, index, volatility
<1>7. RawTarget(obs, ceiling) \in Budgets /\ RawTarget(obs, ceiling) <= volatility
  BY <1>1, <1>2, <1>5, <1>6
<1> QED
  BY <1>3, <1>4, <1>5, <1>7 DEF Budgets

\* An evaluation whose inputs are sound yields a state of the regime, whose
\* budget is within the ceiling or the budget it started from.
LEMMA EvaluationType ==
    ASSUME NEW prior \in RegimeState,
           NEW obs \in [ratio : Int, vol : Int, indexDrawdown : Int, accountDrawdown : Int],
           NEW ceiling \in Budgets, NEW unlock, NEW target \in Nat, NEW at,
           Evaluable(prior, target)
    PROVE  LET s == EvaluateRegime(prior, obs, ceiling, unlock, target, at)
           IN  s \in RegimeState /\ s.applied <= ceiling
<1> DEFINE raw == RawTarget(obs, ceiling)
           locked == StaysOrBecomesLocked(prior, obs, unlock, target, at)
           s == EvaluateRegime(prior, obs, ceiling, unlock, target, at)
<1>1. raw \in Budgets /\ raw <= ceiling
  BY RawTargetBounds
<1>2. s.applied = IF locked THEN 0 ELSE WeeklyAdjustment(raw, prior.applied, target)
  BY DEF EvaluateRegime
<1>3. WeeklyAdjustment(raw, prior.applied, target) \in Budgets
      /\ WeeklyAdjustment(raw, prior.applied, target) <= raw
  <2> HIDE DEF raw
  <2> QED BY <1>1 DEF WeeklyAdjustment, RegimeState, Budgets
<1>4. s.applied \in Budgets /\ s.applied <= ceiling
  BY <1>1, <1>2, <1>3 DEF Budgets
<1>5. s.locked \in BOOLEAN /\ s.redLine \in BOOLEAN
  <2>1. locked \in BOOLEAN
    BY DEF StaysOrBecomesLocked, TriggersRiskLock, Unlocks
  <2>2. (prior.redLine \/ CrossesRedLine(obs)) \in BOOLEAN
    BY DEF CrossesRedLine
  <2>3. s.locked = locked /\ s.redLine = (prior.redLine \/ CrossesRedLine(obs))
    BY DEF EvaluateRegime
  <2> QED BY <2>1, <2>2, <2>3
<1>6. s.lockedAsOf \in Nat \cup {NoDay}
  <2>1. s.lockedAsOf = IF ~locked THEN NoDay
                       ELSE IF prior.locked THEN prior.lockedAsOf ELSE target - 1
    BY DEF EvaluateRegime
  <2>2. target - 1 \in Nat
    BY DEF Evaluable
  <2>3. prior.lockedAsOf \in Nat \cup {NoDay}
    BY DEF RegimeState
  <2> QED BY <2>1, <2>2, <2>3
<1>7. s = [applied |-> s.applied, locked |-> s.locked, lockedAsOf |-> s.lockedAsOf,
           redLine |-> s.redLine]
  BY DEF EvaluateRegime
<1> HIDE DEF s
<1>8. s \in RegimeState
  BY <1>4, <1>5, <1>6, <1>7 DEF RegimeState
<1> QED BY <1>4, <1>8 DEF s

-----------------------------------------------------------------------------
(* Every step appends one well-typed audit *)

\* A decision built from the current row is a request like any other.
LEMMA RequestType ==
    ASSUME TypeInv
    PROVE  DecisionRequestAgainst(current) \subseteq Request
<1> SUFFICES ASSUME NEW req \in DecisionRequestAgainst(current) PROVE req \in DecisionRequest
  BY DEF Request
<1>1. /\ current.revision \in Nat /\ current.state \in RegimeState
      /\ current.auth \in Nat /\ current.ceiling \in Budgets
  BY DEF TypeInv, Row
<1> QED BY <1>1 DEF DecisionRequestAgainst, DecisionRequest

\* The fields all requests share.
LEMMA RequestFields ==
    ASSUME NEW req \in Request
    PROVE  /\ req.at \in Stamps /\ req.at \in Nat
           /\ req.kind \in {"initialize", "evidence", "ceiling", "unlock", "decision"}
           /\ req.kind \in Authorizing => req.snapshot \in Snapshots
           /\ CeilingOf(req) \in Budgets
           /\ req.kind = "initialize" <=> req \in InitializeRequest
           /\ req.kind = "evidence" <=> req \in EvidenceRequest
           /\ req.kind = "ceiling" <=> req \in CeilingRequest
           /\ req.kind = "unlock" <=> req \in UnlockRequest
           /\ req.kind = "decision" <=> req \in DecisionRequest
<1>1. ASSUME req \in InitializeRequest
      PROVE  /\ req.kind = "initialize" /\ req.at \in Stamps
             /\ req.snapshot \in Snapshots
  BY <1>1 DEF InitializeRequest
<1>2. ASSUME req \in EvidenceRequest
      PROVE  req.kind = "evidence" /\ req.at \in Stamps
  BY <1>2 DEF EvidenceRequest
<1>3. ASSUME req \in CeilingRequest
      PROVE  /\ req.kind = "ceiling" /\ req.at \in Stamps
             /\ req.snapshot \in Snapshots /\ req.bp \in Ceilings
  BY <1>3 DEF CeilingRequest
<1>4. ASSUME req \in UnlockRequest
      PROVE  req.kind = "unlock" /\ req.at \in Stamps
  BY <1>4 DEF UnlockRequest
<1>5. ASSUME req \in DecisionRequest
      PROVE  req.kind = "decision" /\ req.at \in Stamps
  BY <1>5 DEF DecisionRequest
<1>6. Stamps \subseteq Nat /\ Ceilings \subseteq Budgets /\ 0 \in Budgets
  BY LedgerConstants DEF Budgets
<1>7. CeilingOf(req) \in Budgets
  BY <1>1, <1>2, <1>3, <1>4, <1>5, <1>6 DEF CeilingOf, Request
<1> QED BY <1>1, <1>2, <1>3, <1>4, <1>5, <1>6, <1>7 DEF Request, Authorizing

\* What an accepted request writes has its type.
LEMMA WrittenTypes ==
    ASSUME TypeInv, NEW req \in Request,
           Accepted(req, current, audits, consumedBy)
    PROVE  /\ StateAfter(req, current) \in RegimeState
           /\ AuditOf(req, current) \in Audit
           /\ RowAfter(req, current) \in Row
           /\ RowAfter(req, current).revision = current.revision + 1
           /\ RowAfter(req, current).auth \in 0..(current.revision + 1)
           /\ ConsumedAfter(req, current, consumedBy)
                 \in [UnlockIds -> 0..(current.revision + 1)]
<1> USE RequestFields
<1>1. /\ current \in Row /\ current.revision \in Nat /\ current.state \in RegimeState
      /\ current.ceiling \in Budgets /\ current.auth \in 0..current.revision
      /\ current.stageStart \in Nat /\ current.snapshot \in Snapshots \cup {"none"}
      /\ current.lastTarget \in Nat \cup {NoDay}
      /\ consumedBy \in [UnlockIds -> 0..current.revision]
  BY DEF TypeInv, Row
<1>2. StateAfter(req, current) \in RegimeState
  <2>1. CASE req.kind # "decision"
    BY <1>1, <2>1 DEF StateAfter
  <2>2. CASE req.kind = "decision"
    <3>1. req \in DecisionRequest
      BY <2>2
    <3>2. /\ req.prior \in RegimeState /\ req.ceiling \in Budgets /\ req.target \in Nat
          /\ req.obs \in [ratio : Int, vol : Int, indexDrawdown : Int, accountDrawdown : Int]
      BY <3>1, LedgerConstants DEF DecisionRequest
    <3>3. Evaluable(req.prior, req.target)
      BY <2>2 DEF Accepted, DecisionAccepted
    <3>4. EvaluateRegime(req.prior, req.obs, req.ceiling, req.unlock, req.target, req.at)
             \in RegimeState
      BY <3>2, <3>3, EvaluationType
    <3> QED BY <2>2, <3>4 DEF StateAfter
  <2> QED BY <2>1, <2>2
<1>3. AuditOf(req, current) \in Audit
  <2>1. (/\ req.kind = "decision" /\ ~req.prior.locked
         /\ TriggersRiskLock(req.obs)) \in BOOLEAN
    BY DEF TriggersRiskLock
  <2> QED BY <1>1, <1>2, <2>1 DEF AuditOf, Audit
<1>4. RowAfter(req, current) \in Row
  <2>1. req.kind = "decision" => req.target \in Nat
    BY LedgerConstants DEF DecisionRequest
  <2> QED BY <1>1, <1>2, <2>1 DEF RowAfter, Row
<1>5. /\ RowAfter(req, current).revision = current.revision + 1
      /\ RowAfter(req, current).auth \in 0..(current.revision + 1)
  BY <1>1 DEF RowAfter
<1>6. ConsumedAfter(req, current, consumedBy) \in [UnlockIds -> 0..(current.revision + 1)]
  <2>1. current.revision + 1 \in 0..(current.revision + 1)
    BY <1>1
  <2>2. consumedBy \in [UnlockIds -> 0..(current.revision + 1)]
    BY <1>1
  <2>3. \A id : [consumedBy EXCEPT ![id] = current.revision + 1]
                   \in [UnlockIds -> 0..(current.revision + 1)]
    BY <2>1, <2>2
  <2> QED BY <2>2, <2>3 DEF ConsumedAfter
<1> QED BY <1>2, <1>3, <1>4, <1>5, <1>6

\* What one step does to the ledger: some well-typed request is accepted, its
\* audit is appended and the row follows it.
LEMMA StepAppends ==
    ASSUME TypeInv, Next
    PROVE  \E req \in Request :
              /\ Apply(req)
              /\ Len(audits') = Len(audits) + 1
              /\ DOMAIN audits' = 1..(Len(audits) + 1)
              /\ DOMAIN audits = 1..Len(audits)
              /\ \A i \in 1..Len(audits) : audits'[i] = audits[i]
              /\ audits'[Len(audits) + 1] = AuditOf(req, current)
              /\ audits' \in Seq(Audit)
<1>1. PICK req \in Request : Apply(req)
  BY RequestType DEF Next, Initialize, RegisterDeploymentEvidence, AuthorizeManualCeiling,
                     SubmitUnlockRequest, CommitDecision, Request
<1>2. AuditOf(req, current) \in Audit
  BY <1>1, WrittenTypes DEF Apply
<1>3. audits \in Seq(Audit) /\ audits' = Append(audits, AuditOf(req, current))
  BY <1>1 DEF Apply, TypeInv
<1>4. /\ Len(audits') = Len(audits) + 1
      /\ DOMAIN audits' = 1..(Len(audits) + 1)
      /\ DOMAIN audits = 1..Len(audits)
      /\ \A i \in 1..Len(audits) : audits'[i] = audits[i]
      /\ audits'[Len(audits) + 1] = AuditOf(req, current)
      /\ audits' \in Seq(Audit)
  BY <1>2, <1>3
<1> QED BY <1>1, <1>4

LEMMA TypeInvInitially == ASSUME Init PROVE TypeInv
<1>1. NoRow \in Row /\ NoRow.revision = 0 /\ NoRow.auth = 0
  BY DEF NoRow, Row, InitialState, RegimeState, Budgets, NoDay
<1>2. <<>> \in Seq(Audit) /\ Len(<<>>) = 0
  BY EmptySeq
<1> QED BY <1>1, <1>2 DEF Init, TypeInv

LEMMA TypeInvStep == ASSUME TypeInv, Next PROVE TypeInv'
<1>1. PICK req \in Request : /\ Apply(req)
                             /\ Len(audits') = Len(audits) + 1
                             /\ audits' \in Seq(Audit)
  BY StepAppends
<1>2. /\ current' = RowAfter(req, current)
      /\ consumedBy' = ConsumedAfter(req, current, consumedBy)
      /\ Accepted(req, current, audits, consumedBy)
  BY <1>1 DEF Apply
<1>3. current.revision = Len(audits)
  BY DEF TypeInv
<1> QED BY <1>1, <1>2, <1>3, WrittenTypes DEF TypeInv

\* Every reachable ledger is well typed.
THEOREM TypesAlways == Spec => []TypeInv
<1>1. TypeInv /\ [Next]_ledgerVars => TypeInv'
  <2>1. CASE Next
    BY <2>1, TypeInvStep
  <2>2. CASE UNCHANGED ledgerVars
    BY <2>2 DEF ledgerVars, TypeInv
  <2> QED BY <2>1, <2>2
<1> QED BY <1>1, TypeInvInitially, PTL DEF Spec

\* The type invariant the runs check: the row of the current state and every
\* audit written by the store's operations are well formed.
THEOREM LedgerTypes == Spec => []TypeOK
<1>1. TypeInv => TypeOK
  <2> SUFFICES ASSUME TypeInv PROVE TypeOK
    OBVIOUS
  <2>1. \A i \in DOMAIN audits : audits[i] \in Audit
    BY ElementOfSeq, LenProperties DEF TypeInv
  <2> QED BY <2>1 DEF TypeInv, TypeOK, Row, Audit
<1> QED BY <1>1, TypesAlways, PTL

-----------------------------------------------------------------------------
(* The row of the current state agrees with the audits *)

RowAgrees ==
    \/ current = NoRow /\ audits = <<>>
    \/ /\ audits # <<>>
       /\ HeadMatchesTail(current, audits)
       /\ AuthorizationMatches(current, audits)
       /\ DecisionMatches(current, audits)
       /\ WellFormed(current.state)

\* Which audits are of some kinds, after a step.
LEMMA EntriesAfter ==
    ASSUME TypeInv, TypeInv', NEW req \in Request, NEW kinds,
           DOMAIN audits' = 1..(Len(audits) + 1),
           DOMAIN audits = 1..Len(audits),
           \A i \in 1..Len(audits) : audits'[i] = audits[i],
           audits'[Len(audits) + 1] = AuditOf(req, current)
    PROVE  /\ Entries(audits, kinds) \subseteq 1..Len(audits)
           /\ \A i \in 1..Len(audits) :
                 i \in Entries(audits', kinds) <=> i \in Entries(audits, kinds)
           /\ Len(audits) + 1 \in Entries(audits', kinds) <=> req.kind \in kinds
           /\ Entries(audits', kinds) \subseteq 1..(Len(audits) + 1)
           /\ Len(audits) \in Nat
<1>1. AuditOf(req, current).req = req
  BY DEF AuditOf
<1>2. Len(audits) \in Nat
  BY DEF TypeInv, Row
<1> QED BY <1>1, <1>2 DEF Entries

LEMMA RowAgreesStep == ASSUME TypeInv, TypeInv', RowAgrees, Next PROVE RowAgrees'
<1>1. PICK req \in Request :
          /\ Apply(req)
          /\ Len(audits') = Len(audits) + 1
          /\ DOMAIN audits' = 1..(Len(audits) + 1)
          /\ DOMAIN audits = 1..Len(audits)
          /\ \A i \in 1..Len(audits) : audits'[i] = audits[i]
          /\ audits'[Len(audits) + 1] = AuditOf(req, current)
  BY StepAppends
<1> DEFINE n == Len(audits) + 1
<1>2. /\ current' = RowAfter(req, current)
      /\ Accepted(req, current, audits, consumedBy)
      /\ current.revision = Len(audits)
      /\ Len(audits) \in Nat
  BY <1>1 DEF Apply, TypeInv, Row
<1>3. /\ audits'[n].req = req
      /\ audits'[n].state = StateAfter(req, current)
  BY <1>1 DEF AuditOf
<1>4. /\ current'.revision = n
      /\ current'.updatedAt = req.at
      /\ current'.state = StateAfter(req, current)
  BY <1>2 DEF RowAfter
<1>5. HeadMatchesTail(current', audits')
  <2>1. current'.revision = Len(audits') /\ current'.updatedAt = audits'[Len(audits')].req.at
    BY <1>1, <1>3, <1>4
  <2>2. CASE audits = <<>>
    <3>1. Len(audits) = 0 /\ current.revision = 0
      BY <1>2, <2>2
    <3>2. req.kind = "initialize"
      BY <1>2, <3>1 DEF Accepted
    <3> QED BY <1>3, <2>1, <3>1, <3>2 DEF HeadMatchesTail
  <2>3. CASE audits # <<>>
    <3>1. 1 \in 1..Len(audits)
      BY <2>3, EmptySeq DEF TypeInv
    <3> QED BY <1>1, <2>1, <2>3, <3>1 DEF HeadMatchesTail, RowAgrees
  <2> QED BY <2>2, <2>3
<1>6. AuthorizationMatches(current', audits')
  <2>1. CASE req.kind \in Authorizing
    <3>1. /\ current'.auth = n /\ current'.ceiling = CeilingOf(req)
          /\ current'.snapshot = req.snapshot /\ current'.stageStart = req.at
      BY <1>2, <2>1 DEF RowAfter
    <3>2. IsLatest(n, Entries(audits', Authorizing))
      BY <1>1, <1>2, <2>1, EntriesAfter DEF IsLatest
    <3> QED BY <1>3, <3>1, <3>2 DEF AuthorizationMatches
  <2>2. CASE req.kind \notin Authorizing
    <3>1. /\ current'.auth = current.auth /\ current'.ceiling = current.ceiling
          /\ current'.snapshot = current.snapshot /\ current'.stageStart = current.stageStart
      BY <1>2, <2>2 DEF RowAfter
    <3>2. current.revision > 0
      BY <1>2, <2>2 DEF Accepted, Authorizing
    <3>3. current # NoRow
      BY <3>2 DEF NoRow
    <3>4. AuthorizationMatches(current, audits)
      BY <3>3 DEF RowAgrees
    <3>5. current.auth \in 1..Len(audits)
      BY <1>1, <3>4 DEF AuthorizationMatches, IsLatest, Entries
    <3>6. IsLatest(current.auth, Entries(audits', Authorizing))
      BY <1>1, <1>2, <2>2, <3>4, <3>5, EntriesAfter DEF IsLatest, AuthorizationMatches
    <3> QED BY <1>1, <3>1, <3>4, <3>5, <3>6 DEF AuthorizationMatches
  <2> QED BY <2>1, <2>2
<1>7. DecisionMatches(current', audits')
  <2>1. CASE req.kind = "decision"
    <3>1. current'.lastTarget = req.target
      BY <1>2, <2>1 DEF RowAfter
    <3>2. IsLatest(n, Entries(audits', {"decision"}))
      BY <1>1, <1>2, <2>1, EntriesAfter DEF IsLatest
    <3> QED BY <1>3, <1>4, <3>1, <3>2 DEF DecisionMatches, IsLatest
  <2>2. CASE req.kind # "decision"
    <3>1. current'.lastTarget = current.lastTarget /\ current'.state = current.state
      BY <1>2, <2>2 DEF RowAfter, StateAfter
    <3>2. \A i : i \in Entries(audits', {"decision"}) <=> i \in Entries(audits, {"decision"})
      BY <1>1, <1>2, <2>2, EntriesAfter
    <3>3. CASE current = NoRow /\ audits = <<>>
      <4>1. Entries(audits, {"decision"}) = {}
        BY <1>1, <3>3 DEF Entries
      <4>2. Entries(audits', {"decision"}) = {}
        BY <3>2, <4>1
      <4> QED BY <3>1, <3>3, <4>2 DEF DecisionMatches, NoRow
    <3>4. CASE DecisionMatches(current, audits)
      <4>1. Entries(audits, {"decision"}) = {} => Entries(audits', {"decision"}) = {}
        BY <3>2
      <4>2. \A i \in Entries(audits, {"decision"}) :
               i \in 1..Len(audits) /\ audits'[i] = audits[i]
        BY <1>1, EntriesAfter
      <4> QED BY <3>1, <3>2, <3>4, <4>1, <4>2 DEF DecisionMatches, IsLatest
    <3> QED BY <3>3, <3>4 DEF RowAgrees
  <2> QED BY <2>1, <2>2
<1>8. WellFormed(current'.state)
  <2>1. WellFormed(current.state)
    BY DEF RowAgrees, NoRow, InitialState, WellFormed
  <2>2. CASE req.kind # "decision"
    BY <1>4, <2>1, <2>2 DEF StateAfter
  <2>3. CASE req.kind = "decision"
    <3>1. DecisionAccepted(req, current, audits, consumedBy)
      BY <1>2, <2>3 DEF Accepted
    <3>2. req.prior = current.state /\ Evaluable(req.prior, req.target) /\ req.target \in Nat
      BY <2>3, <3>1, RequestFields, LedgerConstants DEF DecisionAccepted, DecisionRequest
    <3>3. req.target - 1 # NoDay
      BY <3>2 DEF Evaluable, NoDay
    <3>4. WellFormed(EvaluateRegime(req.prior, req.obs, req.ceiling, req.unlock,
                                    req.target, req.at))
      BY <2>1, <3>2, <3>3 DEF WellFormed, EvaluateRegime
    <3> QED BY <1>4, <2>3, <3>4 DEF StateAfter
  <2> QED BY <2>2, <2>3
<1>9. audits' # <<>>
  BY <1>1, <1>2, EmptySeq
<1> QED BY <1>5, <1>6, <1>7, <1>8, <1>9 DEF RowAgrees

-----------------------------------------------------------------------------
(* Budgets stay within what was authorized *)

LEMMA BudgetStep ==
    ASSUME TypeInv, TypeInv', RowAgrees, BudgetWithinAuthorization, Next
    PROVE  BudgetWithinAuthorization'
<1>1. PICK req \in Request :
          /\ Apply(req)
          /\ Len(audits') = Len(audits) + 1
          /\ DOMAIN audits' = 1..(Len(audits) + 1)
          /\ DOMAIN audits = 1..Len(audits)
          /\ \A i \in 1..Len(audits) : audits'[i] = audits[i]
          /\ audits'[Len(audits) + 1] = AuditOf(req, current)
  BY StepAppends
<1> DEFINE n == Len(audits) + 1
<1> SUFFICES ASSUME NEW i \in Entries(audits', {"decision"})
             PROVE  \E ceiling \in Budgets : /\ AuthorizedBefore(i, ceiling)'
                                             /\ audits'[i].state.applied <= ceiling
  BY DEF BudgetWithinAuthorization
<1>2. i \in 1..n /\ Len(audits) \in Nat
  BY <1>1, EntriesAfter
<1>3. CASE i \in 1..Len(audits)
  <2>1. i \in Entries(audits, {"decision"})
    BY <1>1, <1>3, EntriesAfter
  <2>2. PICK ceiling \in Budgets : AuthorizedBefore(i, ceiling)
                                   /\ audits[i].state.applied <= ceiling
    BY <2>1 DEF BudgetWithinAuthorization
  <2>3. PICK k \in 1..(i - 1) :
            /\ IsLatest(k, Entries(audits, Authorizing) \cap 1..(i - 1))
            /\ CeilingOf(audits[k].req) = ceiling
    BY <2>2 DEF AuthorizedBefore
  <2>4. \A j \in 1..(i - 1) : j \in 1..Len(audits)
    BY <1>2, <1>3
  <2>5. IsLatest(k, Entries(audits', Authorizing) \cap 1..(i - 1))
    BY <1>1, <2>3, <2>4, EntriesAfter DEF IsLatest
  <2>6. audits'[k] = audits[k] /\ audits'[i] = audits[i]
    BY <1>1, <1>3, <2>4
  <2> QED BY <2>2, <2>3, <2>5, <2>6 DEF AuthorizedBefore
<1>4. CASE i = n
  <2>1. req.kind = "decision" /\ req \in DecisionRequest
    BY <1>1, <1>4, EntriesAfter, RequestFields
  <2>2. /\ DecisionAccepted(req, current, audits, consumedBy)
        /\ current.revision > 0
    BY <1>1, <2>1 DEF Apply, Accepted
  <2>3. /\ req.ceiling = current.ceiling /\ Evaluable(req.prior, req.target)
        /\ req.prior \in RegimeState /\ req.ceiling \in Budgets /\ req.target \in Nat
        /\ req.obs \in [ratio : Int, vol : Int, indexDrawdown : Int, accountDrawdown : Int]
    BY <2>1, <2>2, LedgerConstants DEF DecisionAccepted, DecisionRequest
  <2>4. StateAfter(req, current).applied <= current.ceiling
    BY <2>1, <2>3, EvaluationType DEF StateAfter
  <2>5. audits'[n].state.applied <= current.ceiling
    BY <1>1, <2>4 DEF AuditOf
  <2>6. current # NoRow
    BY <2>2 DEF NoRow
  <2>7. AuthorizationMatches(current, audits)
    BY <2>6 DEF RowAgrees
  <2>8. PICK k \in 1..(i - 1), ceiling \in Budgets :
            k = current.auth /\ ceiling = current.ceiling
    <3>1. current.auth \in 1..Len(audits) /\ i - 1 = Len(audits)
      BY <1>1, <1>2, <1>4, <2>7 DEF AuthorizationMatches, IsLatest, Entries
    <3> QED BY <2>3, <3>1
  <2>9. 1..(i - 1) = 1..Len(audits)
    BY <1>2, <1>4
  <2>10. IsLatest(k, Entries(audits', Authorizing) \cap 1..(i - 1))
    BY <1>1, <2>7, <2>8, <2>9, EntriesAfter DEF AuthorizationMatches, IsLatest
  <2>11. CeilingOf(audits'[k].req) = ceiling
    BY <1>1, <2>7, <2>8, <2>9 DEF AuthorizationMatches
  <2>12. AuthorizedBefore(i, ceiling)'
    BY <2>8, <2>10, <2>11 DEF AuthorizedBefore
  <2> QED BY <1>4, <2>5, <2>8, <2>12
<1> QED BY <1>2, <1>3, <1>4

LEMMA RowAgreesInitially == ASSUME Init PROVE RowAgrees
BY DEF Init, RowAgrees

LEMMA RowAgreesAlways == Spec => []RowAgrees
<1>1. TypeInv /\ TypeInv' /\ RowAgrees /\ [Next]_ledgerVars => RowAgrees'
  <2>1. CASE UNCHANGED ledgerVars
    BY <2>1 DEF ledgerVars, RowAgrees, HeadMatchesTail, AuthorizationMatches, DecisionMatches
  <2> QED BY <2>1, RowAgreesStep
<1> QED BY <1>1, RowAgreesInitially, TypesAlways, PTL DEF Spec

\* For every constant: no accepted decision applies a budget above the ceiling
\* that was authorized when it was committed, so neither a downgrade nor a raise
\* deferred to the next week lets an old budget outlive its authorization.
THEOREM BudgetsAreAuthorized == Spec => []BudgetWithinAuthorization
<1>1. Init => BudgetWithinAuthorization
  BY DEF Init, BudgetWithinAuthorization, Entries
<1>2. /\ TypeInv /\ TypeInv' /\ RowAgrees /\ BudgetWithinAuthorization
      /\ [Next]_ledgerVars
      => BudgetWithinAuthorization'
  <2>1. CASE UNCHANGED ledgerVars
    BY <2>1 DEF ledgerVars, BudgetWithinAuthorization, AuthorizedBefore, Entries
  <2> QED BY <2>1, BudgetStep
<1> QED BY <1>1, <1>2, RowAgreesAlways, TypesAlways, PTL DEF Spec

-----------------------------------------------------------------------------
(* The evidence of every upgrade stands *)

LEMMA EvidenceStep ==
    ASSUME TypeInv, TypeInv', RowAgrees, EvidenceStands(audits), Next
    PROVE  EvidenceStands(audits')
<1>1. PICK req \in Request :
          /\ Apply(req)
          /\ Len(audits') = Len(audits) + 1
          /\ DOMAIN audits' = 1..(Len(audits) + 1)
          /\ DOMAIN audits = 1..Len(audits)
          /\ \A i \in 1..Len(audits) : audits'[i] = audits[i]
          /\ audits'[Len(audits) + 1] = AuditOf(req, current)
  BY StepAppends
<1> DEFINE n == Len(audits) + 1
<1>2. Len(audits) \in Nat /\ n \in 1..n
  BY DEF TypeInv, Row
<1>3. ASSUME NEW r, NEW type, LoadsEvidence(r, audits, type)
      PROVE  /\ LoadsEvidence(r, audits', type)
             /\ \A start : CoversStage(r, audits, start) => CoversStage(r, audits', start)
  BY <1>1, <1>2, <1>3 DEF LoadsEvidence, CoversStage
<1> SUFFICES ASSUME NEW i \in Entries(audits', {"ceiling"})
             PROVE  LET r == audits'[i].req
                        from == audits'[i].priorCeiling
                    IN  /\ from = 0 /\ r.bp = 3000 =>
                                LoadsEvidence(r, audits', "historical_validation_pass")
                        /\ from = 3000 /\ r.bp = 6000 =>
                                /\ LoadsEvidence(r, audits', "no_severe_anomaly_period")
                                /\ \E k \in 1..(i - 1) :
                                      /\ PriorStage(i, k, audits')
                                      /\ CoversStage(r, audits', audits'[k].req.at)
  BY DEF EvidenceStands
<1>4. i \in 1..n
  BY <1>1, EntriesAfter
<1>5. CASE i \in 1..Len(audits)
  <2>1. i \in Entries(audits, {"ceiling"}) /\ audits'[i] = audits[i]
    BY <1>1, <1>5, EntriesAfter
  <2>2. \A j \in 1..(i - 1) : j \in 1..Len(audits)
    BY <1>2, <1>5
  <2>3. \A k \in 1..(i - 1) : PriorStage(i, k, audits) => PriorStage(i, k, audits')
    <3>1. Entries(audits, Authorizing) \subseteq 1..Len(audits)
      BY <1>1, EntriesAfter
    <3>2. Entries(audits', Authorizing) \subseteq 1..n
      BY <1>1, EntriesAfter
    <3>3. \A j \in 1..n : j < i =>
             /\ j \in Entries(audits', Authorizing) <=> j \in Entries(audits, Authorizing)
             /\ audits'[j] = audits[j]
      BY <1>1, <1>2, <1>5, EntriesAfter
    <3> QED BY <1>2, <2>1, <2>2, <3>1, <3>2, <3>3 DEF PriorStage, IsLatest
  <2>4. \A k \in 1..(i - 1) : audits'[k] = audits[k]
    BY <1>1, <2>2
  <2> QED BY <1>3, <2>1, <2>3, <2>4 DEF EvidenceStands
<1>6. CASE i = n
  <2>1. /\ audits'[i].req = req /\ audits'[i].priorCeiling = current.ceiling
        /\ req.kind = "ceiling" /\ req \in CeilingRequest
    BY <1>1, <1>6, EntriesAfter, RequestFields DEF AuditOf
  <2>2. /\ CeilingAccepted(req, current, audits)
        /\ current.revision > 0
    BY <1>1, <2>1 DEF Apply, Accepted
  <2>3. req.bp > current.ceiling => UpgradeAllowed(req, current, audits)
    BY <2>2 DEF CeilingAccepted
  <2>4. current.ceiling = 0 /\ req.bp = 3000 =>
            LoadsEvidence(req, audits, "historical_validation_pass")
    BY <2>3 DEF UpgradeAllowed
  <2>5. current.ceiling = 3000 /\ req.bp = 6000 =>
            /\ LoadsEvidence(req, audits, "no_severe_anomaly_period")
            /\ CoversStage(req, audits, current.stageStart)
    BY <2>3 DEF UpgradeAllowed
  <2>6. AuthorizationMatches(current, audits)
    BY <2>2 DEF RowAgrees, NoRow
  <2>7. PICK k \in 1..(i - 1) : k = current.auth
    BY <1>1, <1>2, <1>6, <2>6 DEF AuthorizationMatches, IsLatest, Entries
  <2>8. k \in 1..Len(audits) /\ k < i
    BY <1>2, <1>6, <2>7
  <2>9. /\ audits'[k] = audits[k]
        /\ CeilingOf(audits'[k].req) = current.ceiling
        /\ audits'[k].req.at = current.stageStart
    BY <1>1, <2>6, <2>7, <2>8 DEF AuthorizationMatches
  <2>10. PriorStage(i, k, audits')
    <3>1. k \in Entries(audits', Authorizing)
      BY <1>1, <2>6, <2>7, <2>8, EntriesAfter DEF AuthorizationMatches, IsLatest
    <3>2. \A j \in Entries(audits', Authorizing) : j < i => j <= k
      BY <1>1, <1>2, <1>6, <2>6, <2>7, EntriesAfter DEF AuthorizationMatches, IsLatest
    <3> QED BY <2>1, <2>8, <2>9, <3>1, <3>2 DEF PriorStage, IsLatest
  <2> QED BY <1>3, <2>1, <2>4, <2>5, <2>9, <2>10
<1> QED BY <1>2, <1>4, <1>5, <1>6

-----------------------------------------------------------------------------
(* Every unlock request is consumed by the one decision that quotes it *)

\* A decision quotes only a request that was filed, and only a filed request is
\* marked consumed.
QuotedAreFiled ==
    /\ \A j \in Entries(audits, {"decision"}) :
          audits[j].req.unlock # NoUnlock =>
              \E i \in Entries(audits, {"unlock"}) : audits[i].req = audits[j].req.unlock
    /\ \A id \in UnlockIds :
          consumedBy[id] # 0 =>
              \E i \in Entries(audits, {"unlock"}) : audits[i].req.id = id

UnlockInv == QuotedAreFiled /\ UnlocksAccounted(audits, consumedBy)

LEMMA UnlockStep ==
    ASSUME Offsets = {0}, TypeInv, TypeInv', UnlockInv, Next
    PROVE  UnlockInv'
<1>1. PICK req \in Request :
          /\ Apply(req)
          /\ Len(audits') = Len(audits) + 1
          /\ DOMAIN audits' = 1..(Len(audits) + 1)
          /\ DOMAIN audits = 1..Len(audits)
          /\ \A i \in 1..Len(audits) : audits'[i] = audits[i]
          /\ audits'[Len(audits) + 1] = AuditOf(req, current)
  BY StepAppends
<1> DEFINE n == Len(audits) + 1
<1>2. /\ Len(audits) \in Nat /\ n > 0 /\ current.revision + 1 = n
      /\ consumedBy' = ConsumedAfter(req, current, consumedBy)
      /\ consumedBy \in [UnlockIds -> 0..Len(audits)]
      /\ audits'[n].req = req
  BY <1>1 DEF TypeInv, Row, Apply, AuditOf
<1>3. \A i \in Entries(audits, {"unlock"}) :
          /\ i \in 1..Len(audits)
          /\ audits[i].req \in UnlockRequest /\ audits[i].req.id \in UnlockIds
          /\ audits[i].req.offset = 0 /\ audits[i].req.kind = "unlock"
  <2> SUFFICES ASSUME NEW i \in Entries(audits, {"unlock"})
               PROVE  /\ i \in 1..Len(audits)
                      /\ audits[i].req \in UnlockRequest /\ audits[i].req.id \in UnlockIds
                      /\ audits[i].req.offset = 0 /\ audits[i].req.kind = "unlock"
    OBVIOUS
  <2>1. i \in 1..Len(audits) /\ audits[i].req.kind = "unlock"
    BY <1>1, EntriesAfter DEF Entries
  <2>2. audits[i] \in Audit
    BY <2>1, ElementOfSeq DEF TypeInv
  <2>3. audits[i].req \in UnlockRequest
    BY <2>1, <2>2, RequestFields DEF Audit
  <2> QED BY <2>1, <2>3 DEF UnlockRequest
<1>4. CASE req.kind # "decision" /\ req.kind # "unlock"
  <2>1. consumedBy' = consumedBy
    BY <1>2, <1>4 DEF ConsumedAfter
  <2>2. \A i : /\ i \in Entries(audits', {"unlock"}) <=> i \in Entries(audits, {"unlock"})
               /\ i \in Entries(audits', {"decision"}) <=> i \in Entries(audits, {"decision"})
    BY <1>1, <1>2, <1>4, EntriesAfter
  <2>3. \A i : i \in Entries(audits, {"unlock"}) \/ i \in Entries(audits, {"decision"})
               => audits'[i] = audits[i]
    BY <1>1, EntriesAfter
  <2>4. \A i \in Entries(audits, {"unlock"}) : Quoting(audits', i) = Quoting(audits, i)
    BY <2>2, <2>3 DEF Quoting
  <2> QED BY <2>1, <2>2, <2>3, <2>4 DEF UnlockInv, QuotedAreFiled, UnlocksAccounted
<1>5. CASE req.kind = "unlock"
  <2>1. /\ consumedBy' = consumedBy /\ req \in UnlockRequest
        /\ req.id \in UnlockIds /\ req.offset = 0
    <3>1. req \in UnlockRequest
      BY <1>5, RequestFields
    <3> QED BY <1>2, <1>5, <3>1 DEF ConsumedAfter, UnlockRequest
  <2>2. \A i : /\ i \in Entries(audits', {"unlock"})
                    <=> i \in Entries(audits, {"unlock"}) \/ i = n
               /\ i \in Entries(audits', {"decision"}) <=> i \in Entries(audits, {"decision"})
    BY <1>1, <1>2, <1>5, EntriesAfter
  <2>3. \A i : i \in Entries(audits, {"unlock"}) \/ i \in Entries(audits, {"decision"})
               => audits'[i] = audits[i]
    BY <1>1, EntriesAfter
  <2>4. \A i \in Entries(audits, {"unlock"}) : Quoting(audits', i) = Quoting(audits, i)
    BY <2>2, <2>3 DEF Quoting
  <2>5. \A i \in Entries(audits, {"unlock"}) : audits[i].req.id # req.id
    <3>1. ~IsKnown(req, audits)
      BY <1>1 DEF Apply
    <3> QED BY <1>1, <1>3, <1>5, <3>1 DEF IsKnown, SameIdentity
  <2>6. consumedBy[req.id] = 0
    BY <2>1, <2>5 DEF UnlockInv, QuotedAreFiled
  <2>7. Quoting(audits', n) = {}
    <3> SUFFICES ASSUME NEW j \in Quoting(audits', n) PROVE FALSE
      OBVIOUS
    <3>1. /\ j \in Entries(audits, {"decision"})
          /\ audits[j].req.unlock # NoUnlock /\ audits[j].req.unlock.id = req.id
      BY <1>2, <2>2, <2>3 DEF Quoting
    <3>2. \E i \in Entries(audits, {"unlock"}) : audits[i].req = audits[j].req.unlock
      BY <3>1 DEF UnlockInv, QuotedAreFiled
    <3> QED BY <2>5, <3>1, <3>2
  <2>8. UnlocksAccounted(audits', consumedBy')
    <3> SUFFICES ASSUME NEW i \in Entries(audits', {"unlock"})
                 PROVE  /\ audits'[i].req.offset = 0
                        /\ Quoting(audits', i) =
                              IF consumedBy'[audits'[i].req.id] = 0 THEN {}
                              ELSE {consumedBy'[audits'[i].req.id]}
      BY DEF UnlocksAccounted
    <3>1. CASE i = n
      BY <1>2, <2>1, <2>6, <2>7, <3>1
    <3>2. CASE i \in Entries(audits, {"unlock"})
      BY <2>1, <2>3, <2>4, <3>2 DEF UnlockInv, UnlocksAccounted
    <3> QED BY <2>2, <3>1, <3>2
  <2>9. QuotedAreFiled'
    BY <1>2, <2>1, <2>2, <2>3 DEF UnlockInv, QuotedAreFiled
  <2> QED BY <2>8, <2>9 DEF UnlockInv
<1>6. CASE req.kind = "decision"
  <2>1. /\ req \in DecisionRequest
        /\ QuotesUnusedUnlock(req, audits, consumedBy)
    BY <1>1, <1>6, RequestFields DEF Apply, Accepted, DecisionAccepted
  <2>2. \A i : /\ i \in Entries(audits', {"unlock"}) <=> i \in Entries(audits, {"unlock"})
               /\ i \in Entries(audits', {"decision"})
                    <=> i \in Entries(audits, {"decision"}) \/ i = n
    BY <1>1, <1>2, <1>6, EntriesAfter
  <2>3. \A i : i \in Entries(audits, {"unlock"}) \/ i \in Entries(audits, {"decision"})
               => audits'[i] = audits[i]
    BY <1>1, EntriesAfter
  <2>4. CASE req.unlock = NoUnlock
    <3>1. consumedBy' = consumedBy
      BY <1>2, <2>4 DEF ConsumedAfter
    <3>2. \A i \in Entries(audits, {"unlock"}) : Quoting(audits', i) = Quoting(audits, i)
      BY <1>2, <2>2, <2>3, <2>4 DEF Quoting
    <3> QED BY <1>2, <2>2, <2>3, <2>4, <3>1, <3>2
            DEF UnlockInv, QuotedAreFiled, UnlocksAccounted
  <2>5. CASE req.unlock # NoUnlock
    <3>1. PICK u \in 1..Len(audits) : audits[u].req = req.unlock
      BY <1>1, <2>1, <2>5 DEF QuotesUnusedUnlock
    <3>2. req.unlock \in UnlockRequest /\ req.unlock.id \in UnlockIds
          /\ req.unlock.kind = "unlock"
      BY <2>1, <2>5 DEF DecisionRequest, UnlockRequest
    <3>3. u \in Entries(audits, {"unlock"})
      BY <1>1, <3>1, <3>2 DEF Entries
    <3>4. /\ consumedBy' = [consumedBy EXCEPT ![req.unlock.id] = n]
          /\ consumedBy[req.unlock.id] = 0
      BY <1>2, <1>6, <2>1, <2>5 DEF ConsumedAfter, QuotesUnusedUnlock
    <3>5. \A i \in Entries(audits, {"unlock"}) :
              Quoting(audits', i) = IF audits[i].req.id = req.unlock.id
                                    THEN Quoting(audits, i) \cup {n}
                                    ELSE Quoting(audits, i)
      BY <1>2, <2>2, <2>3, <2>5 DEF Quoting
    <3>6. UnlocksAccounted(audits', consumedBy')
      <4> SUFFICES ASSUME NEW i \in Entries(audits, {"unlock"})
                   PROVE  /\ audits[i].req.offset = 0
                          /\ Quoting(audits', i) =
                                IF consumedBy'[audits[i].req.id] = 0 THEN {}
                                ELSE {consumedBy'[audits[i].req.id]}
        BY <2>2, <2>3 DEF UnlocksAccounted
      <4>1. /\ audits[i].req.offset = 0
            /\ Quoting(audits, i) = IF consumedBy[audits[i].req.id] = 0 THEN {}
                                    ELSE {consumedBy[audits[i].req.id]}
        BY DEF UnlockInv, UnlocksAccounted
      <4>2. CASE audits[i].req.id = req.unlock.id
        BY <1>2, <3>2, <3>4, <3>5, <4>1, <4>2
      <4>3. CASE audits[i].req.id # req.unlock.id
        BY <1>2, <1>3, <3>4, <3>5, <4>1, <4>3
      <4> QED BY <4>2, <4>3
    <3>7. QuotedAreFiled'
      <4>1. \A j \in Entries(audits', {"decision"}) :
               audits'[j].req.unlock # NoUnlock =>
                  \E i \in Entries(audits', {"unlock"}) : audits'[i].req = audits'[j].req.unlock
        BY <1>2, <2>2, <2>3, <3>1, <3>3 DEF UnlockInv, QuotedAreFiled
      <4>2. \A id \in UnlockIds : consumedBy'[id] # 0 =>
               \E i \in Entries(audits', {"unlock"}) : audits'[i].req.id = id
        BY <1>2, <2>2, <2>3, <3>1, <3>3, <3>4 DEF UnlockInv, QuotedAreFiled
      <4> QED BY <4>1, <4>2 DEF QuotedAreFiled
    <3> QED BY <3>6, <3>7 DEF UnlockInv
  <2> QED BY <2>4, <2>5
<1> QED BY <1>4, <1>5, <1>6

\* For every constant, as long as unlock requests are written in UTC: whatever
\* sequence of requests is accepted, the stored rows pass the verifier, so the
\* fail-closed check never locks the stream out of its own history.
THEOREM LedgerStaysReadable == ASSUME Offsets = {0} PROVE Spec => []StoreStaysReadable
<1>1. Init => EvidenceStands(audits) /\ UnlockInv
  BY DEF Init, EvidenceStands, UnlockInv, UnlocksAccounted, QuotedAreFiled, Entries
<1>2. /\ TypeInv /\ TypeInv' /\ RowAgrees /\ EvidenceStands(audits) /\ UnlockInv
      /\ [Next]_ledgerVars
      => EvidenceStands(audits)' /\ UnlockInv'
  <2>1. CASE UNCHANGED ledgerVars
    BY <2>1 DEF ledgerVars, UnlockInv, QuotedAreFiled
  <2> QED BY <2>1, EvidenceStep, UnlockStep
<1>3. RowAgrees /\ EvidenceStands(audits) /\ UnlockInv => StoreStaysReadable
  BY DEF RowAgrees, UnlockInv, StoreStaysReadable, Integrity
<1> QED BY <1>1, <1>2, <1>3, TypesAlways, RowAgreesAlways, PTL DEF Spec

-----------------------------------------------------------------------------
(* What the audits remember of the order in which they were written *)

\* Audits are in the order of their instants.
InstantsGrow == \A i, j \in DOMAIN audits : i < j => audits[i].req.at <= audits[j].req.at

OnlyDecisionsTrigger ==
    \A i \in DOMAIN audits : audits[i].triggered => audits[i].req.kind = "decision"

\* The decision that quotes an unlock request is the one that consumed it.
ConsumedByItsQuoter ==
    \A j \in Entries(audits, {"decision"}) :
        audits[j].req.unlock # NoUnlock => consumedBy[audits[j].req.unlock.id] = j

\* A lock that is held began with a decision that triggered it and dates from
\* the market day before that decision's; no budget was applied since.
HeldLockHasATrigger ==
    current.state.locked =>
        \E k \in Entries(audits, {"decision"}) :
            /\ audits[k].triggered
            /\ audits[k].req.target = current.state.lockedAsOf + 1
            /\ \A j \in Entries(audits, {"decision"}) :
                   k <= j => audits[j].state.locked /\ audits[j].state.applied = 0

ChainInv ==
    /\ InstantsGrow
    /\ OnlyDecisionsTrigger
    /\ ConsumedByItsQuoter
    /\ HeldLockHasATrigger
    /\ DecisionsFormOneChain

\* One step, seen from the audit it appends.
Appends(req, n) ==
    /\ n = current.revision + 1 /\ n \in Nat \ {0}
    /\ DOMAIN audits = 1..(n - 1) /\ DOMAIN audits' = 1..n
    /\ \A i \in 1..(n - 1) : audits'[i] = audits[i] /\ audits[i] \in Audit
    /\ audits'[n] = AuditOf(req, current)
    /\ Accepted(req, current, audits, consumedBy)
    /\ current' = RowAfter(req, current)
    /\ consumedBy' = ConsumedAfter(req, current, consumedBy)
    /\ current \in Row /\ RowAgrees

LEMMA EveryStepAppends ==
    ASSUME TypeInv, RowAgrees, Next
    PROVE  \E req \in Request, n \in Nat : Appends(req, n)
<1>1. PICK req \in Request :
          /\ Apply(req)
          /\ DOMAIN audits' = 1..(Len(audits) + 1)
          /\ DOMAIN audits = 1..Len(audits)
          /\ \A i \in 1..Len(audits) : audits'[i] = audits[i]
          /\ audits'[Len(audits) + 1] = AuditOf(req, current)
  BY StepAppends
<1>2. /\ current \in Row /\ current.revision = Len(audits) /\ Len(audits) \in Nat
      /\ \A i \in 1..Len(audits) : audits[i] \in Audit
  BY ElementOfSeq DEF TypeInv, Row
<1>3. Appends(req, current.revision + 1)
  BY <1>1, <1>2 DEF Appends, Apply
<1> QED BY <1>2, <1>3

\* The new audit's fields, and which audits are of some kinds after the step.
LEMMA NewAudit ==
    ASSUME NEW req \in Request, NEW n \in Nat, Appends(req, n)
    PROVE  /\ audits'[n].req = req
           /\ audits'[n].state = StateAfter(req, current)
           /\ audits'[n].priorCeiling = current.ceiling
           /\ audits'[n].triggered <=> /\ req.kind = "decision"
                                       /\ ~req.prior.locked
                                       /\ TriggersRiskLock(req.obs)
           /\ \A kinds : /\ Entries(audits, kinds) \subseteq 1..(n - 1)
                         /\ Entries(audits', kinds) \subseteq 1..n
                         /\ \A i \in 1..(n - 1) : i \in Entries(audits', kinds)
                                                    <=> i \in Entries(audits, kinds)
                         /\ n \in Entries(audits', kinds) <=> req.kind \in kinds
<1>1. /\ audits'[n].req = req
      /\ audits'[n].state = StateAfter(req, current)
      /\ audits'[n].priorCeiling = current.ceiling
      /\ audits'[n].triggered <=> /\ req.kind = "decision"
                                  /\ ~req.prior.locked
                                  /\ TriggersRiskLock(req.obs)
  BY DEF Appends, AuditOf
<1>2. \A kinds : /\ Entries(audits, kinds) \subseteq 1..(n - 1)
                 /\ Entries(audits', kinds) \subseteq 1..n
                 /\ \A i \in 1..(n - 1) : i \in Entries(audits', kinds)
                                            <=> i \in Entries(audits, kinds)
                 /\ n \in Entries(audits', kinds) <=> req.kind \in kinds
  BY <1>1 DEF Appends, Entries
<1> QED BY <1>1, <1>2

\* A new decision starts from the current state, and the last decision before
\* it, when there is one, left that state and the last target.
LEMMA NewDecision ==
    ASSUME NEW req \in Request, NEW n \in Nat, Appends(req, n), req.kind = "decision"
    PROVE  /\ req \in DecisionRequest /\ req.target \in Nat /\ req.at \in Nat
           /\ req.prior = current.state /\ req.prior \in RegimeState
           /\ req.ceiling \in Budgets
           /\ req.obs \in [ratio : Int, vol : Int, indexDrawdown : Int,
                           accountDrawdown : Int]
           /\ Evaluable(req.prior, req.target)
           /\ QuotesUnusedUnlock(req, audits, consumedBy)
           /\ WellFormed(current.state)
           /\ StateAfter(req, current) = EvaluateRegime(current.state, req.obs, req.ceiling,
                                                        req.unlock, req.target, req.at)
           /\ \/ /\ Entries(audits, {"decision"}) = {}
                 /\ current.state = InitialState
              \/ \E l \in Entries(audits, {"decision"}) :
                    /\ IsLatest(l, Entries(audits, {"decision"}))
                    /\ current.state = audits[l].state
                    /\ current.lastTarget = audits[l].req.target
                    /\ audits[l].req.target \in Nat
                    /\ req.target > audits[l].req.target
<1>1. req \in DecisionRequest /\ req.at \in Nat
  BY RequestFields
<1>2. /\ req.target \in Nat /\ req.prior \in RegimeState /\ req.ceiling \in Budgets
      /\ req.obs \in [ratio : Int, vol : Int, indexDrawdown : Int, accountDrawdown : Int]
  BY <1>1, LedgerConstants DEF DecisionRequest
<1>3. DecisionAccepted(req, current, audits, consumedBy) /\ current.revision > 0
  BY DEF Appends, Accepted
<1>4. /\ req.prior = current.state /\ Evaluable(req.prior, req.target)
      /\ QuotesUnusedUnlock(req, audits, consumedBy)
      /\ current.lastTarget # NoDay => req.target > current.lastTarget
  BY <1>3 DEF DecisionAccepted
<1>5. DecisionMatches(current, audits) /\ WellFormed(current.state)
  BY <1>3 DEF Appends, RowAgrees, NoRow
<1>6. \A l \in Entries(audits, {"decision"}) : audits[l].req.target \in Nat
  <2> SUFFICES ASSUME NEW l \in Entries(audits, {"decision"})
               PROVE  audits[l].req.target \in Nat
    OBVIOUS
  <2>1. audits[l].req \in Request /\ audits[l].req.kind = "decision"
    BY NewAudit DEF Appends, Audit, Entries
  <2>2. audits[l].req \in DecisionRequest
    BY <2>1, RequestFields
  <2> QED BY <2>2, LedgerConstants DEF DecisionRequest
<1>7. StateAfter(req, current) = EvaluateRegime(current.state, req.obs, req.ceiling,
                                                req.unlock, req.target, req.at)
  BY <1>4 DEF StateAfter
<1>8. \/ /\ Entries(audits, {"decision"}) = {}
         /\ current.state = InitialState
      \/ \E l \in Entries(audits, {"decision"}) :
            /\ IsLatest(l, Entries(audits, {"decision"}))
            /\ current.state = audits[l].state
            /\ current.lastTarget = audits[l].req.target
            /\ audits[l].req.target \in Nat
            /\ req.target > audits[l].req.target
  BY <1>4, <1>5, <1>6 DEF DecisionMatches, NoDay
<1> QED BY <1>1, <1>2, <1>4, <1>5, <1>7, <1>8

LEMMA InstantsStep ==
    ASSUME NEW req \in Request, NEW n \in Nat, Appends(req, n), InstantsGrow
    PROVE  InstantsGrow'
<1>1. \A i \in 1..(n - 1) : audits[i].req.at \in Nat
  BY RequestFields DEF Appends, Audit
<1>2. req.at \in Nat
  BY RequestFields
<1>3. n > 1 => req.at >= audits[n - 1].req.at
  <2> SUFFICES ASSUME n > 1 PROVE req.at >= audits[n - 1].req.at
    OBVIOUS
  <2>1. current.revision > 0 /\ current.revision # 0 /\ current # NoRow
    BY DEF Appends, NoRow, Row
  <2>2. HeadMatchesTail(current, audits)
    BY <2>1 DEF Appends, RowAgrees
  <2>3. current.updatedAt = audits[n - 1].req.at
    BY <2>2 DEF HeadMatchesTail, Appends
  <2>4. req.at >= current.updatedAt
    <3>1. req.kind # "initialize"
      BY <2>1 DEF Appends, Accepted
    <3> QED BY <3>1, RequestFields
            DEF Appends, Accepted, EvidenceAccepted, CeilingAccepted, UnlockAccepted,
                DecisionAccepted
  <2> QED BY <2>3, <2>4
<1>4. ASSUME NEW i \in 1..n, NEW j \in 1..n, i < j
      PROVE  audits'[i].req.at <= audits'[j].req.at
  <2>1. CASE j \in 1..(n - 1)
    <3>1. i \in 1..(n - 1)
      BY <1>4, <2>1
    <3> QED BY <1>4, <2>1, <3>1 DEF Appends, InstantsGrow
  <2>2. CASE j = n
    <3>1. i \in 1..(n - 1) /\ n - 1 \in 1..(n - 1) /\ n > 1
      BY <1>4, <2>2
    <3>2. audits[i].req.at <= audits[n - 1].req.at
      BY <1>1, <3>1 DEF Appends, InstantsGrow
    <3>3. audits'[i] = audits[i] /\ audits'[j].req = req
      BY <2>2, <3>1, NewAudit DEF Appends
    <3> QED BY <1>1, <1>2, <1>3, <3>1, <3>2, <3>3
  <2> QED BY <2>1, <2>2
<1>5. DOMAIN audits' = 1..n
  BY DEF Appends
<1> QED BY <1>4, <1>5 DEF InstantsGrow

LEMMA TriggersStep ==
    ASSUME NEW req \in Request, NEW n \in Nat, Appends(req, n), OnlyDecisionsTrigger
    PROVE  OnlyDecisionsTrigger'
BY NewAudit DEF Appends, OnlyDecisionsTrigger

\* A quoted unlock request was unused, so no earlier decision quotes it.
LEMMA ConsumptionStep ==
    ASSUME NEW req \in Request, NEW n \in Nat, Appends(req, n), TypeInv, ConsumedByItsQuoter
    PROVE  ConsumedByItsQuoter'
<1> SUFFICES ASSUME NEW j \in Entries(audits', {"decision"}),
                    audits'[j].req.unlock # NoUnlock
             PROVE  consumedBy'[audits'[j].req.unlock.id] = j
  BY DEF ConsumedByItsQuoter
<1>1. /\ consumedBy' = ConsumedAfter(req, current, consumedBy)
      /\ consumedBy \in [UnlockIds -> 0..Len(audits)]
      /\ current.revision + 1 = n
  BY DEF Appends, TypeInv
<1>2. ASSUME req.kind = "decision", req.unlock # NoUnlock
      PROVE  /\ req.unlock.id \in UnlockIds
             /\ consumedBy[req.unlock.id] = 0
             /\ consumedBy' = [consumedBy EXCEPT ![req.unlock.id] = n]
  <2>1. /\ req \in DecisionRequest /\ QuotesUnusedUnlock(req, audits, consumedBy)
    BY <1>2, NewDecision
  <2>2. req.unlock \in UnlockRequest
    BY <1>2, <2>1 DEF DecisionRequest
  <2> QED BY <1>1, <1>2, <2>1, <2>2 DEF UnlockRequest, QuotesUnusedUnlock, ConsumedAfter
<1>3. CASE j = n
  <2>1. req.kind = "decision" /\ req.unlock # NoUnlock /\ audits'[j].req = req
    BY <1>3, NewAudit
  <2> QED BY <1>1, <1>2, <1>3, <2>1
<1>4. CASE j \in 1..(n - 1)
  <2>1. j \in Entries(audits, {"decision"}) /\ audits'[j] = audits[j]
    BY <1>4, NewAudit DEF Appends
  <2>2. /\ consumedBy[audits[j].req.unlock.id] = j /\ j # 0 /\ j # n
        /\ audits[j].req.unlock.id \in UnlockIds
    <3>1. audits[j].req \in Request /\ audits[j].req.kind = "decision"
      BY <1>4, <2>1 DEF Appends, Audit, Entries
    <3>2. audits[j].req \in DecisionRequest
      BY <3>1, RequestFields
    <3>3. audits[j].req.unlock \in UnlockRequest
      BY <2>1, <3>2 DEF DecisionRequest
    <3> QED BY <1>4, <2>1, <3>3 DEF ConsumedByItsQuoter, UnlockRequest
  <2>3. CASE req.kind = "decision" /\ req.unlock # NoUnlock
    BY <1>1, <1>2, <2>1, <2>2, <2>3
  <2>4. CASE ~(req.kind = "decision" /\ req.unlock # NoUnlock)
    BY <1>1, <2>1, <2>2, <2>4 DEF ConsumedAfter
  <2> QED BY <2>3, <2>4
<1> QED BY <1>3, <1>4, NewAudit

LEMMA HeldLockStep ==
    ASSUME NEW req \in Request, NEW n \in Nat, Appends(req, n), HeldLockHasATrigger
    PROVE  HeldLockHasATrigger'
<1> DEFINE decisions == Entries(audits, {"decision"})
<1>1. /\ \A j \in decisions : j \in 1..(n - 1) /\ j < n /\ audits'[j] = audits[j]
      /\ \A j \in Entries(audits', {"decision"}) :
            j \in decisions \/ (j = n /\ req.kind = "decision")
      /\ \A j \in decisions : j \in Entries(audits', {"decision"})
  BY NewAudit DEF Appends
<1> SUFFICES ASSUME current'.state.locked
             PROVE  \E k \in Entries(audits', {"decision"}) :
                       /\ audits'[k].triggered
                       /\ audits'[k].req.target = current'.state.lockedAsOf + 1
                       /\ \A j \in Entries(audits', {"decision"}) :
                             k <= j => audits'[j].state.locked /\ audits'[j].state.applied = 0
  BY DEF HeldLockHasATrigger
<1>2. current'.state = StateAfter(req, current) /\ audits'[n].state = StateAfter(req, current)
  BY NewAudit DEF Appends, RowAfter
<1>3. CASE req.kind # "decision"
  <2>1. current'.state = current.state
    BY <1>2, <1>3 DEF StateAfter
  <2> QED BY <1>1, <1>3, <2>1 DEF HeldLockHasATrigger
<1>4. CASE req.kind = "decision"
  <2>1. /\ current.state = req.prior /\ req.target \in Nat
        /\ StateAfter(req, current) = EvaluateRegime(current.state, req.obs, req.ceiling,
                                                     req.unlock, req.target, req.at)
        /\ n \in Entries(audits', {"decision"}) /\ audits'[n].req = req
    BY <1>4, NewDecision, NewAudit
  <2>2. current'.state.applied = 0
    BY <1>2, <2>1 DEF EvaluateRegime
  <2>3. CASE current.state.locked
    <3>1. current'.state.lockedAsOf = current.state.lockedAsOf
      BY <1>2, <2>1, <2>3 DEF EvaluateRegime
    <3>2. PICK k \in decisions :
              /\ audits[k].triggered
              /\ audits[k].req.target = current.state.lockedAsOf + 1
              /\ \A j \in decisions :
                    k <= j => audits[j].state.locked /\ audits[j].state.applied = 0
      BY <2>3 DEF HeldLockHasATrigger
    <3> QED BY <1>1, <1>2, <2>2, <3>1, <3>2
  <2>4. CASE ~current.state.locked
    <3>1. TriggersRiskLock(req.obs) /\ current'.state.lockedAsOf = req.target - 1
      BY <1>2, <2>1, <2>4 DEF EvaluateRegime, StaysOrBecomesLocked
    <3>2. audits'[n].triggered
      BY <1>4, <2>1, <2>4, <3>1, NewAudit
    <3>3. \A j \in Entries(audits', {"decision"}) : n <= j => j = n
      BY <1>1
    <3> QED BY <1>2, <2>1, <2>2, <3>1, <3>2, <3>3
  <2> QED BY <2>3, <2>4
<1> QED BY <1>3, <1>4

LEMMA ChainStep ==
    ASSUME NEW req \in Request, NEW n \in Nat, Appends(req, n), DecisionsFormOneChain
    PROVE  DecisionsFormOneChain'
<1> DEFINE decisions == Entries(audits, {"decision"})
<1>1. /\ \A j \in decisions : j \in 1..(n - 1) /\ j < n /\ audits'[j] = audits[j]
      /\ \A j \in Entries(audits', {"decision"}) :
            j \in decisions \/ (j = n /\ req.kind = "decision")
      /\ \A j \in decisions : j \in Entries(audits', {"decision"})
  BY NewAudit DEF Appends
<1> SUFFICES ASSUME NEW i \in Entries(audits', {"decision"}),
                    NEW j \in Entries(audits', {"decision"}), i < j
             PROVE  /\ audits'[i].req.target < audits'[j].req.target
                    /\ (\A k \in Entries(audits', {"decision"}) : k <= i \/ k >= j)
                          => audits'[j].req.prior = audits'[i].state
  BY DEF DecisionsFormOneChain
<1>2. CASE j \in decisions
  <2>1. i \in decisions
    BY <1>1, <1>2
  <2> QED BY <1>1, <1>2, <2>1 DEF DecisionsFormOneChain
<1>3. CASE j = n /\ req.kind = "decision"
  <2>1. i \in decisions
    BY <1>1, <1>3
  <2>2. PICK l \in decisions :
            /\ IsLatest(l, decisions)
            /\ current.state = audits[l].state
            /\ audits[l].req.target \in Nat
            /\ req.target > audits[l].req.target
    BY <1>3, <2>1, NewDecision
  <2>3. req.prior = current.state /\ req.target \in Nat /\ audits'[j].req = req
    BY <1>3, NewDecision, NewAudit
  <2>4. i <= l /\ l < j
    BY <1>1, <1>3, <2>1, <2>2 DEF IsLatest
  <2>5. audits[i].req.target \in Nat
    <3>1. audits[i].req \in Request /\ audits[i].req.kind = "decision"
      BY <1>1, <2>1 DEF Appends, Audit, Entries
    <3>2. audits[i].req \in DecisionRequest
      BY <3>1, RequestFields
    <3> QED BY <3>2, LedgerConstants DEF DecisionRequest
  <2>6. CASE i = l
    BY <1>1, <2>1, <2>2, <2>3, <2>6
  <2>7. CASE i < l
    <3>1. audits[i].req.target < audits[l].req.target
      BY <2>1, <2>2, <2>7 DEF DecisionsFormOneChain
    <3>2. ~(\A k \in Entries(audits', {"decision"}) : k <= i \/ k >= j)
      <4>1. l \in Entries(audits', {"decision"}) /\ l \in Nat /\ i \in Nat /\ j \in Nat
        <5>1. l \in decisions /\ i \in decisions
          BY <2>1, <2>2
        <5>2. l \in 1..(n - 1) /\ i \in 1..(n - 1)
          BY <1>1, <5>1
        <5>3. l \in Entries(audits', {"decision"})
          BY <1>1, <5>1
        <5> QED BY <1>3, <5>2, <5>3
      <4> QED BY <2>4, <2>7, <4>1
    <3> QED BY <1>1, <2>1, <2>2, <2>3, <2>5, <3>1, <3>2
  <2> QED BY <1>1, <1>3, <2>1, <2>2, <2>4, <2>6, <2>7
<1> QED BY <1>1, <1>2, <1>3

LEMMA ChainInvStep ==
    ASSUME TypeInv, RowAgrees, ChainInv, Next
    PROVE  ChainInv'
<1>1. PICK req \in Request, n \in Nat : Appends(req, n)
  BY EveryStepAppends
<1> QED
  BY <1>1, InstantsStep, TriggersStep, ConsumptionStep, HeldLockStep, ChainStep DEF ChainInv

LEMMA ChainInvAlways == Spec => []ChainInv
<1>1. Init => ChainInv
  BY DEF Init, ChainInv, InstantsGrow, OnlyDecisionsTrigger, ConsumedByItsQuoter,
         HeldLockHasATrigger, DecisionsFormOneChain, Entries, NoRow, InitialState
<1>2. TypeInv /\ RowAgrees /\ ChainInv /\ [Next]_ledgerVars => ChainInv'
  <2>1. CASE UNCHANGED ledgerVars
    BY <2>1 DEF ledgerVars, ChainInv, InstantsGrow, OnlyDecisionsTrigger,
                ConsumedByItsQuoter, HeldLockHasATrigger, DecisionsFormOneChain, Entries
  <2> QED BY <2>1, ChainInvStep
<1> QED BY <1>1, <1>2, TypesAlways, RowAgreesAlways, PTL DEF Spec

\* For every constant: whatever is authorized, locked or released between them,
\* decisions target ever later days and each starts from the state the decision
\* before it left.
THEOREM DecisionsAreOneChain == Spec => []DecisionsFormOneChain
BY ChainInvAlways, PTL DEF ChainInv

-----------------------------------------------------------------------------
(* Budgets do not rise within a week *)

\* Off the first day of a week an evaluation keeps the budget or lowers it.
LEMMA MidweekEvaluation ==
    ASSUME NEW prior \in RegimeState,
           NEW obs \in [ratio : Int, vol : Int, indexDrawdown : Int, accountDrawdown : Int],
           NEW ceiling \in Budgets, NEW unlock, NEW target, NEW at, target \notin WeekStarts
    PROVE  EvaluateRegime(prior, obs, ceiling, unlock, target, at).applied <= prior.applied
<1> DEFINE raw == RawTarget(obs, ceiling)
<1>1. raw \in Budgets /\ prior.applied \in Budgets
  BY RawTargetBounds DEF RegimeState
<1> HIDE DEF raw
<1>2. WeeklyAdjustment(raw, prior.applied, target) <= prior.applied /\ 0 <= prior.applied
  BY <1>1 DEF WeeklyAdjustment, Budgets
<1> QED BY <1>2 DEF EvaluateRegime, raw

LEMMA WeekStep ==
    ASSUME NEW req \in Request, NEW n \in Nat, Appends(req, n), DecisionsFormOneChain,
           NoRaiseWithinAWeek
    PROVE  NoRaiseWithinAWeek'
<1> DEFINE decisions == Entries(audits, {"decision"})
<1>1. /\ \A j \in decisions : j \in 1..(n - 1) /\ audits'[j] = audits[j]
      /\ \A j \in Entries(audits', {"decision"}) :
            j \in decisions \/ (j = n /\ req.kind = "decision")
  BY NewAudit DEF Appends
<1>2. \A j \in decisions : /\ audits[j].req.target \in Nat
                           /\ audits[j].state.applied \in Int
  <2> SUFFICES ASSUME NEW j \in decisions
               PROVE  audits[j].req.target \in Nat /\ audits[j].state.applied \in Int
    OBVIOUS
  <2>1. audits[j].req \in Request /\ audits[j].req.kind = "decision"
        /\ audits[j].state \in RegimeState
    BY <1>1 DEF Appends, Audit, Entries
  <2>2. audits[j].req \in DecisionRequest
    BY <2>1, RequestFields
  <2>3. audits[j].req.target \in Nat
    BY <2>2, LedgerConstants DEF DecisionRequest
  <2>4. audits[j].state.applied \in Int
    BY <2>1 DEF RegimeState, Budgets
  <2> QED BY <2>3, <2>4
<1> SUFFICES ASSUME NEW i \in Entries(audits', {"decision"}),
                    NEW j \in Entries(audits', {"decision"}), i < j,
                    \A d \in WeekStarts :
                        ~(audits'[i].req.target < d /\ d <= audits'[j].req.target)
             PROVE  audits'[j].state.applied <= audits'[i].state.applied
  BY DEF NoRaiseWithinAWeek
<1>3. CASE j \in decisions
  <2>1. i \in decisions
    BY <1>1, <1>3
  <2> QED BY <1>1, <1>3, <2>1 DEF NoRaiseWithinAWeek
<1>4. CASE j = n /\ req.kind = "decision"
  <2>1. i \in decisions /\ i \in 1..(n - 1)
    <3>1. i # n
      BY <1>4
    <3>2. i \in decisions
      BY <1>1, <3>1
    <3> QED BY <1>1, <3>2
  <2>2. PICK l \in decisions :
            /\ IsLatest(l, decisions)
            /\ current.state = audits[l].state
            /\ req.target > audits[l].req.target
    BY <1>4, <2>1, NewDecision
  <2>3. /\ l \in 1..(n - 1) /\ audits'[l] = audits[l] /\ i <= l
        /\ audits'[i] = audits[i]
    BY <1>1, <2>1, <2>2 DEF IsLatest
  <2>4. req.target \in Nat /\ audits'[j].req = req /\ audits'[j].state = StateAfter(req, current)
    BY <1>4, NewDecision, NewAudit
  <2>5. i < l => audits[i].req.target < audits[l].req.target
    BY <2>1 DEF DecisionsFormOneChain
  <2>6. audits[i].req.target <= audits[l].req.target
    BY <1>2, <2>1, <2>3, <2>5
  <2>7. req.target \notin WeekStarts
    BY <1>2, <2>1, <2>2, <2>3, <2>4, <2>6
  <2>8. audits'[j].state.applied <= audits[l].state.applied
    BY <1>4, <2>2, <2>4, <2>7, NewDecision, MidweekEvaluation
  <2>9. audits[l].state.applied <= audits[i].state.applied
    <3>1. CASE i = l
      BY <1>2, <3>1
    <3>2. CASE i # l
      <4>1. i < l
        BY <2>1, <2>3, <3>2
      <4>2. \A d \in WeekStarts : ~(audits[i].req.target < d /\ d <= audits[l].req.target)
        <5>1. \A d \in WeekStarts : d \in Nat
          BY RegimeConstants
        <5> QED BY <1>2, <2>1, <2>2, <2>3, <2>4, <5>1
      <4> QED BY <2>1, <4>1, <4>2 DEF NoRaiseWithinAWeek
    <3> QED BY <3>1, <3>2
  <2>10. audits'[j].state.applied \in Int
    <3>1. StateAfter(req, current) \in RegimeState
      BY <1>4, NewDecision, EvaluationType
    <3> QED BY <2>4, <3>1 DEF RegimeState, Budgets
  <2> QED BY <1>2, <2>1, <2>3, <2>8, <2>9, <2>10
<1> QED BY <1>1, <1>3, <1>4

\* For every constant, every calendar of weeks among them: between two decisions
\* with no week opening between their target days the budget never rises, also
\* when a lock, its release or a new ceiling falls between them.
THEOREM BudgetsRestWithinAWeek == Spec => []NoRaiseWithinAWeek
<1>1. Init => NoRaiseWithinAWeek
  BY DEF Init, NoRaiseWithinAWeek, Entries
<1>2. /\ TypeInv /\ RowAgrees /\ ChainInv /\ NoRaiseWithinAWeek /\ [Next]_ledgerVars
      => NoRaiseWithinAWeek'
  <2>1. CASE UNCHANGED ledgerVars
    BY <2>1 DEF ledgerVars, NoRaiseWithinAWeek, Entries
  <2> QED BY <2>1, EveryStepAppends, WeekStep DEF ChainInv
<1> QED BY <1>1, <1>2, TypesAlways, RowAgreesAlways, ChainInvAlways, PTL DEF Spec

-----------------------------------------------------------------------------
(* The risk lock *)

\* A decision that leaves the lock quotes an unlock request that no reason to
\* reject was found against.
LEMMA ReleaseMeansUnlocked ==
    ASSUME NEW prior, NEW obs, NEW ceiling, NEW unlock, NEW target \in Int, NEW at,
           prior.locked, prior.lockedAsOf \in Int,
           ~EvaluateRegime(prior, obs, ceiling, unlock, target, at).locked
    PROVE  /\ unlock # NoUnlock
           /\ ~(RequestedDay(unlock) < prior.lockedAsOf)
           /\ target - (prior.lockedAsOf + 1) >= CoolingDays
<1>1. Unlocks(prior, obs, unlock, target, at)
  BY DEF EvaluateRegime, StaysOrBecomesLocked
<1>2. UnlockRejections(prior, obs, unlock, target, at) = {}
  BY <1>1 DEF Unlocks
<1>3. unlock # NoUnlock
  BY <1>2 DEF UnlockRejections
<1>4. /\ ~(RequestedDay(unlock) < prior.lockedAsOf)
      /\ ~MissesCooling(prior, target - 1)
  <2>1. /\ "before_lock" \notin UnlockRejections(prior, obs, unlock, target, at)
        /\ "cooling" \notin UnlockRejections(prior, obs, unlock, target, at)
    BY <1>2
  <2> QED BY <1>3, <2>1 DEF UnlockRejections
<1>5. target - (prior.lockedAsOf + 1) >= CoolingDays
  BY <1>4, RegimeConstants DEF MissesCooling, CountCoolingDays
<1> QED BY <1>3, <1>4, <1>5

LEMMA ReleaseStep ==
    ASSUME NEW req \in Request, NEW n \in Nat, Appends(req, n), TypeInv, TypeInv',
           HeldLockHasATrigger, ConsumedByItsQuoter, ConsumedByItsQuoter',
           LockReleaseIsEarned
    PROVE  LockReleaseIsEarned'
<1> DEFINE decisions == Entries(audits, {"decision"})
<1>1. /\ \A j \in decisions : j \in 1..(n - 1) /\ j < n /\ audits'[j] = audits[j]
                              /\ j \in Entries(audits', {"decision"})
      /\ \A j \in Entries(audits', {"decision"}) :
            j \in decisions \/ (j = n /\ req.kind = "decision")
      /\ \A u \in 1..(n - 1) : /\ audits'[u] = audits[u]
                               /\ u \in Entries(audits, {"unlock"})
                                     => u \in Entries(audits', {"unlock"})
      /\ \A u \in Entries(audits, {"unlock"}) : u \in 1..(n - 1)
  BY NewAudit DEF Appends
\* An unlock request is quoted by no decision but the one that consumed it.
<1>2. ASSUME NEW i \in Entries(audits', {"decision"}), NEW u \in Entries(audits', {"unlock"}),
             audits'[u].req = audits'[i].req.unlock, audits'[i].req.unlock # NoUnlock
      PROVE  Quoting(audits', u) = {i}
  BY <1>2 DEF Quoting, ConsumedByItsQuoter
<1> SUFFICES ASSUME NEW i \in Entries(audits', {"decision"}),
                    audits'[i].req.prior.locked, ~audits'[i].state.locked
             PROVE  \E k \in Entries(audits', {"decision"}) :
                       /\ LockedBy(k, i)'
                       /\ audits'[i].req.target - audits'[k].req.target >= CoolingDays
                       /\ \E u \in Entries(audits', {"unlock"}) :
                             /\ u < i
                             /\ audits'[u].req = audits'[i].req.unlock
                             /\ RequestedDay(audits'[u].req) >= audits'[k].req.target - 1
                             /\ Quoting(audits', u) = {i}
  BY DEF LockReleaseIsEarned
<1>3. CASE i \in decisions
  <2>1. PICK k \in decisions :
            /\ LockedBy(k, i)
            /\ audits[i].req.target - audits[k].req.target >= CoolingDays
            /\ \E u \in Entries(audits, {"unlock"}) :
                  /\ u < i
                  /\ audits[u].req = audits[i].req.unlock
                  /\ RequestedDay(audits[u].req) >= audits[k].req.target - 1
                  /\ Quoting(audits, u) = {i}
    BY <1>1, <1>3 DEF LockReleaseIsEarned
  <2>2. LockedBy(k, i)'
    <3>1. \A j \in Entries(audits', {"decision"}) : j < i => j \in decisions
      BY <1>1, <1>3
    <3> QED BY <1>1, <2>1, <3>1 DEF LockedBy
  <2>3. PICK u \in Entries(audits, {"unlock"}) :
            /\ u < i
            /\ audits[u].req = audits[i].req.unlock
            /\ RequestedDay(audits[u].req) >= audits[k].req.target - 1
            /\ Quoting(audits, u) = {i}
    BY <2>1
  <2>4. u \in Entries(audits', {"unlock"}) /\ audits'[u] = audits[u]
    BY <1>1, <2>3
  <2>5. audits'[i] = audits[i] /\ audits'[k] = audits[k]
    BY <1>1, <1>3
  <2>6. audits[i].req.unlock # NoUnlock
    BY <2>3 DEF Quoting
  <2>7. Quoting(audits', u) = {i}
    BY <1>2, <2>3, <2>4, <2>5, <2>6
  <2> QED BY <1>1, <2>1, <2>2, <2>3, <2>4, <2>5, <2>7
<1>4. CASE i = n /\ req.kind = "decision"
  <2>1. /\ audits'[i].req = req /\ req.prior = current.state /\ req.target \in Nat
        /\ audits'[i].state = StateAfter(req, current)
        /\ StateAfter(req, current) = EvaluateRegime(current.state, req.obs, req.ceiling,
                                                     req.unlock, req.target, req.at)
        /\ QuotesUnusedUnlock(req, audits, consumedBy)
        /\ req \in DecisionRequest
    BY <1>4, NewDecision, NewAudit
  <2>2. current.state.locked
    BY <2>1
  <2>3. PICK k \in decisions :
            /\ audits[k].triggered
            /\ audits[k].req.target = current.state.lockedAsOf + 1
            /\ \A j \in decisions :
                  k <= j => audits[j].state.locked /\ audits[j].state.applied = 0
    BY <2>2 DEF HeldLockHasATrigger
  <2>4. current.state.lockedAsOf \in Int
    BY DEF Appends, Row, RegimeState, NoDay
  <2>5. /\ req.unlock # NoUnlock
        /\ ~(RequestedDay(req.unlock) < current.state.lockedAsOf)
        /\ req.target - audits[k].req.target >= CoolingDays
    BY <2>1, <2>2, <2>3, <2>4, ReleaseMeansUnlocked
  <2>6. PICK u \in DOMAIN audits : audits[u].req = req.unlock
    BY <2>1, <2>5 DEF QuotesUnusedUnlock
  <2>7. req.unlock \in UnlockRequest
    BY <2>1, <2>5 DEF DecisionRequest
  <2>8. /\ u \in Entries(audits, {"unlock"}) /\ u \in 1..(n - 1) /\ u < i
        /\ u \in Entries(audits', {"unlock"}) /\ audits'[u] = audits[u]
    BY <1>1, <1>4, <2>6, <2>7 DEF UnlockRequest, Entries
  <2>9. RequestedDay(req.unlock) >= audits[k].req.target - 1
    <3>1. RequestedDay(req.unlock) \in Int
      <4>1. req.unlock.at + req.unlock.offset \in Int
        <5>1. req.unlock.at \in Nat /\ req.unlock.offset \in Int
          BY <2>7, LedgerConstants DEF UnlockRequest
        <5> QED BY <5>1
      <4> QED BY <4>1, RegimeConstants DEF RequestedDay, DayOf
    <3> QED BY <2>3, <2>4, <2>5, <3>1
  <2>10. LockedBy(k, i)'
    <3>1. \A j \in Entries(audits', {"decision"}) : j < i => j \in decisions
      BY <1>1, <1>4
    <3> QED BY <1>1, <1>4, <2>3, <3>1 DEF LockedBy
  <2>11. Quoting(audits', u) = {i}
    BY <1>2, <2>1, <2>5, <2>6, <2>8
  <2>12. k \in Entries(audits', {"decision"}) /\ audits'[k] = audits[k]
    BY <1>1
  <2> QED BY <2>1, <2>5, <2>6, <2>8, <2>9, <2>10, <2>11, <2>12
<1> QED BY <1>1, <1>3, <1>4

\* For every constant, offsets of unlock requests included: a lock is left only
\* after the cooling days, by the one decision that quotes an unlock request
\* filed on or after the day of the trigger, and until then no budget is applied.
THEOREM LockReleasesAreEarned == Spec => []LockReleaseIsEarned
<1>1. Init => LockReleaseIsEarned
  BY DEF Init, LockReleaseIsEarned, Entries
<1>2. /\ TypeInv /\ TypeInv' /\ RowAgrees /\ ChainInv /\ ChainInv'
      /\ LockReleaseIsEarned /\ [Next]_ledgerVars
      => LockReleaseIsEarned'
  <2>1. CASE UNCHANGED ledgerVars
    BY <2>1 DEF ledgerVars, LockReleaseIsEarned, LockedBy, Quoting, Entries
  <2> QED BY <2>1, EveryStepAppends, ReleaseStep DEF ChainInv
<1> QED BY <1>1, <1>2, TypesAlways, RowAgreesAlways, ChainInvAlways, PTL DEF Spec

-----------------------------------------------------------------------------
(* The ceiling ladder *)

\* The stage a new ceiling ends is the one the current row describes.
LEMMA StageIsCurrent ==
    ASSUME NEW req \in Request, NEW n \in Nat, Appends(req, n), req.kind = "ceiling",
           NEW k \in 1..(n - 1), StageBefore(k, n)'
    PROVE  /\ k = current.auth
           /\ CeilingOf(audits[k].req) = current.ceiling
           /\ audits[k].req.at = current.stageStart
           /\ audits'[k] = audits[k]
           /\ CeilingAccepted(req, current, audits)
           /\ req \in CeilingRequest /\ req.bp \in Budgets /\ current.ceiling \in Budgets
           /\ req.at \in Nat /\ current.stageStart \in Nat
           /\ audits'[n].req = req /\ audits'[n].state = current.state
<1>1. /\ req \in CeilingRequest /\ req.at \in Nat /\ CeilingOf(req) \in Budgets
  BY RequestFields
<1>2. CeilingAccepted(req, current, audits) /\ current.revision > 0 /\ current # NoRow
  <2>1. current.revision > 0 /\ current.revision # 0
    BY DEF Appends, Accepted, Row
  <2> QED BY <2>1 DEF Appends, Accepted, NoRow
<1>3. AuthorizationMatches(current, audits)
  BY <1>2 DEF Appends, RowAgrees
<1>4. k = current.auth
  <2>1. \A j \in 1..(n - 1) : j \in Entries(audits', Authorizing)
                                <=> j \in Entries(audits, Authorizing)
    BY NewAudit
  <2>2. current.auth \in 1..(n - 1) /\ IsLatest(current.auth, Entries(audits, Authorizing))
    BY <1>3, NewAudit DEF AuthorizationMatches, IsLatest
  <2> QED BY <2>1, <2>2 DEF StageBefore, IsLatest
<1>5. /\ audits'[k] = audits[k]
      /\ current.ceiling \in Budgets /\ current.stageStart \in Nat
  BY DEF Appends, Row
<1>6. audits'[n].req = req /\ audits'[n].state = current.state
  BY NewAudit DEF StateAfter
<1> QED BY <1>1, <1>2, <1>3, <1>4, <1>5, <1>6 DEF AuthorizationMatches, CeilingOf

\* Old audits, and the stages before them, are as they were.
LEMMA OldStages ==
    ASSUME NEW req \in Request, NEW n \in Nat, Appends(req, n),
           NEW i \in Entries(audits', {"ceiling"}), i # n
    PROVE  /\ i \in Entries(audits, {"ceiling"}) /\ i \in 1..(n - 1)
           /\ \A k \in 1..(i - 1) : /\ k \in 1..(n - 1) /\ audits'[k] = audits[k]
                                    /\ StageBefore(k, i)' <=> StageBefore(k, i)
           /\ audits'[i] = audits[i]
<1>1. i \in 1..(n - 1) /\ i \in Entries(audits, {"ceiling"}) /\ audits'[i] = audits[i]
  BY NewAudit DEF Appends
<1>2. \A k \in 1..(i - 1) : k \in 1..(n - 1)
  BY <1>1
<1>3. Entries(audits', Authorizing) \cap 1..(i - 1) = Entries(audits, Authorizing) \cap 1..(i - 1)
  BY <1>2, NewAudit
<1> QED BY <1>1, <1>2, <1>3 DEF StageBefore, Appends

LEMMA ClimbStep ==
    ASSUME NEW req \in Request, NEW n \in Nat, Appends(req, n), CeilingClimbsByEarnedSteps
    PROVE  CeilingClimbsByEarnedSteps'
<1> SUFFICES ASSUME NEW i \in Entries(audits', {"ceiling"}), NEW k \in 1..(i - 1),
                    StageBefore(k, i)',
                    audits'[i].req.bp > CeilingOf(audits'[k].req)
             PROVE  /\ audits'[i].req.bp = CeilingOf(audits'[k].req) + 3000
                    /\ ~audits'[i].state.locked
                    /\ CeilingOf(audits'[k].req) > 0 =>
                           audits'[i].req.at >= audits'[k].req.at + MinStage
  BY DEF CeilingClimbsByEarnedSteps
<1>1. CASE i # n
  BY <1>1, OldStages DEF CeilingClimbsByEarnedSteps
<1>2. CASE i = n
  <2>1. req.kind = "ceiling"
    BY <1>2, NewAudit
  <2>2. /\ CeilingOf(audits'[k].req) = current.ceiling
        /\ audits'[k].req.at = current.stageStart
        /\ audits'[i].req = req /\ audits'[i].state = current.state
        /\ req.bp \in Budgets /\ current.ceiling \in Budgets
        /\ CeilingAccepted(req, current, audits)
    BY <1>2, <2>1, StageIsCurrent
  <2>3. UpgradeAllowed(req, current, audits)
    BY <2>2 DEF CeilingAccepted
  <2> QED BY <2>2, <2>3 DEF UpgradeAllowed, Budgets
<1> QED BY <1>1, <1>2

\* For every constant: the ceiling is raised by one rung, never while the lock is
\* held, and from the second rung on only after the minimum time at the rung.
THEOREM CeilingClimbs == Spec => []CeilingClimbsByEarnedSteps
<1>1. Init => CeilingClimbsByEarnedSteps
  BY DEF Init, CeilingClimbsByEarnedSteps, Entries
<1>2. TypeInv /\ RowAgrees /\ CeilingClimbsByEarnedSteps /\ [Next]_ledgerVars
      => CeilingClimbsByEarnedSteps'
  <2>1. CASE UNCHANGED ledgerVars
    BY <2>1 DEF ledgerVars, CeilingClimbsByEarnedSteps, StageBefore, Entries
  <2> QED BY <2>1, EveryStepAppends, ClimbStep
<1> QED BY <1>1, <1>2, TypesAlways, RowAgreesAlways, PTL DEF Spec

\* What a comparison of timestamps as texts needs to be one of instants.
TextOrderIsTimeOrder == \A a, b \in Stamps : a >= b => IsoTextAtLeast(a, b)

\* It holds when every timestamp is on a whole second.
LEMMA WholeSecondsKeepTheOrder ==
    ASSUME \A s \in Stamps : ~HasFraction(s) PROVE TextOrderIsTimeOrder
BY DEF TextOrderIsTimeOrder, IsoTextAtLeast

LEMMA CleanStageStep ==
    ASSUME NEW req \in Request, NEW n \in Nat, Appends(req, n), TextOrderIsTimeOrder,
           InstantsGrow, OnlyDecisionsTrigger, NineOnlyAfterACleanStage
    PROVE  NineOnlyAfterACleanStage'
<1> SUFFICES ASSUME NEW i \in Entries(audits', {"ceiling"}), NEW k \in 1..(i - 1),
                    StageBefore(k, i)', CeilingOf(audits'[k].req) = 6000,
                    audits'[i].req.bp = 9000,
                    NEW j \in (k + 1)..(i - 1)
             PROVE  ~audits'[j].triggered
  BY DEF NineOnlyAfterACleanStage
<1>1. CASE i # n
  <2>1. /\ i \in Entries(audits, {"ceiling"}) /\ i \in 1..(n - 1)
        /\ audits'[i] = audits[i] /\ audits'[k] = audits[k] /\ StageBefore(k, i)
        /\ j \in 1..(i - 1) /\ audits'[j] = audits[j]
    BY <1>1, OldStages
  <2> QED BY <2>1 DEF NineOnlyAfterACleanStage
<1>2. CASE i = n
  <2>1. req.kind = "ceiling"
    BY <1>2, NewAudit
  <2>2. /\ current.ceiling = 6000 /\ current.stageStart = audits[k].req.at
        /\ req.bp = 9000 /\ CeilingAccepted(req, current, audits)
    BY <1>2, <2>1, StageIsCurrent
  <2>3. ~RiskLockTriggeredDuringStage(audits, current.stageStart)
    <3>1. UpgradeAllowed(req, current, audits)
      BY <2>2 DEF CeilingAccepted
    <3> QED BY <2>2, <3>1 DEF UpgradeAllowed
  <2>4. j \in 1..(n - 1) /\ k \in 1..(n - 1) /\ k < j
    BY <1>2
  <2>5. audits[k].req.at <= audits[j].req.at
    BY <2>4 DEF InstantsGrow, Appends
  <2>6. audits[k].req.at \in Stamps /\ audits[j].req.at \in Stamps
    BY <2>4, RequestFields DEF Appends, Audit
  <2>7. IsoTextAtLeast(audits[j].req.at, current.stageStart)
    <3>1. audits[j].req.at >= audits[k].req.at
      BY <2>5, <2>6, LedgerConstants
    <3> QED BY <2>2, <2>6, <3>1 DEF TextOrderIsTimeOrder
  <2>8. audits'[j] = audits[j] /\ j \in DOMAIN audits
    BY <2>4 DEF Appends
  <2> QED BY <2>3, <2>7, <2>8 DEF RiskLockTriggeredDuringStage, OnlyDecisionsTrigger
<1> QED BY <1>1, <1>2

\* For every constant whose timestamps sort as texts the way they sort as
\* instants, whole seconds among them: no stage in which a lock was triggered
\* ends in the highest ceiling.  The assumption is what the code needs and does
\* not enforce, and the run ledger_subsecond shows the theorem false without it.
THEOREM NineNeedsACleanStage ==
    ASSUME TextOrderIsTimeOrder PROVE Spec => []NineOnlyAfterACleanStage
<1>1. Init => NineOnlyAfterACleanStage
  BY DEF Init, NineOnlyAfterACleanStage, Entries
<1>2. /\ TypeInv /\ RowAgrees /\ ChainInv /\ NineOnlyAfterACleanStage /\ [Next]_ledgerVars
      => NineOnlyAfterACleanStage'
  <2>1. CASE UNCHANGED ledgerVars
    BY <2>1 DEF ledgerVars, NineOnlyAfterACleanStage, StageBefore, Entries
  <2> QED BY <2>1, EveryStepAppends, CleanStageStep DEF ChainInv
<1> QED BY <1>1, <1>2, TypesAlways, RowAgreesAlways, ChainInvAlways, PTL DEF Spec
=============================================================================
