--------------------------- MODULE LayerOneLedger ---------------------------
(***************************************************************************)
(* What the layer-one risk-state store promises: an append-only ledger in  *)
(* which every accepted request takes effect at one instant, against the   *)
(* state that is current at that instant.  The guards and effects are      *)
(* those of LayerOneRiskStateStore                                         *)
(* (app/research/layer_one_persistence.py); LayerOneStore runs the same    *)
(* operations as sessions that read first and write later, and implements  *)
(* this module.                                                            *)
(*                                                                         *)
(* Content hashes are modelled by identity: an audit id is the position of *)
(* the audit, an authorization, evidence or unlock row is folded into the  *)
(* audit it is bound to one to one, and only an unlock row's consumption,  *)
(* which is mutable, is kept apart.                                        *)
(***************************************************************************)
EXTENDS LayerOneRegime, Sequences, FiniteSets

CONSTANTS
    Stamps,         \* instants a request may carry
    Days,           \* market days a decision may target
    Observations,   \* [ratio, vol, indexDrawdown, accountDrawdown]
    Offsets,        \* UTC offsets an unlock request may be written with
    Ceilings,       \* ceilings an operator may ask for
    CeilingIds,     \* request_ids of manual ceiling authorizations
    UnlockIds,      \* request_ids of unlock requests
    EvidenceSpans,  \* [from, through] of deployment evidence
    Snapshots,      \* data_snapshot_ids
    MinStage,       \* MIN_MONTHS_AT_PRIOR_STAGE, three months in the code
    MaxRevision,    \* bound on the audit ids a request may name
    Quota           \* bound per kind of request on the audits of the ledger

ASSUME LedgerConstants ==
    /\ Stamps \subseteq Nat
    /\ Days \subseteq Nat
    /\ Observations \subseteq [ratio : Int, vol : Int,
                               indexDrawdown : Int, accountDrawdown : Int]
    /\ Ceilings \subseteq Budgets
    /\ Offsets \subseteq Int
    /\ EvidenceSpans \subseteq [from : Nat, through : Nat]
    /\ MinStage \in Nat
    /\ MaxRevision \in Nat
    /\ Quota \in [{"initialize", "evidence", "ceiling", "unlock", "decision"} -> Nat]

VARIABLES
    current,        \* the row of LayerOneCurrentState
    audits,         \* LayerOneAuditRecord, by sequence_no
    consumedBy      \* per unlock request_id: the audit of the decision that
                    \* consumed its row, 0 while it is unused

ledgerVars == <<current, audits, consumedBy>>

-----------------------------------------------------------------------------
(* Requests and rows *)

InitializeRequest == [kind : {"initialize"}, at : Stamps, snapshot : Snapshots]

\* Evidence whose last observed day is not after the day it is recorded.
EvidenceRequest ==
    {r \in [kind : {"evidence"}, at : Stamps, span : EvidenceSpans,
            type : {"historical_validation_pass", "no_severe_anomaly_period"},
            snapshot : Snapshots] :
        r.span.from <= r.span.through /\ r.span.through <= DayOf(r.at)}

\* The evidence id is optional, and read for an upgrade to 3000 or 6000 only.
CeilingRequest ==
    {r \in [kind : {"ceiling"}, at : Stamps, id : CeilingIds, bp : Ceilings,
            evidence : 0..MaxRevision, snapshot : Snapshots] :
        r.bp \in {3000, 6000} \/ r.evidence = 0}

UnlockRequest == [kind : {"unlock"}, at : Stamps, id : UnlockIds, offset : Offsets]

\* A sealed decision report in its compare-and-swap envelope, as a client
\* computes it from a row it has read.
DecisionRequestAgainst(row) ==
    [kind : {"decision"}, at : Stamps, revision : {row.revision},
     prior : {row.state}, auth : {row.auth}, ceiling : {row.ceiling},
     unlock : UnlockRequest \cup {NoUnlock}, target : Days, obs : Observations]

RequestsAgainst(row) ==
    InitializeRequest \cup EvidenceRequest \cup CeilingRequest
        \cup UnlockRequest \cup DecisionRequestAgainst(row)

\* The row before initialize: there is none.
NoRow == [revision |-> 0, state |-> InitialState, ceiling |-> 0, auth |-> 0,
          stageStart |-> 0, snapshot |-> "none", lastTarget |-> NoDay, updatedAt |-> 0]

Authorizing == {"initialize", "ceiling"}

CeilingOf(req) == IF req.kind = "ceiling" THEN req.bp ELSE 0

-----------------------------------------------------------------------------
(* Upgrading the manual ceiling *)

\* Stored timestamps are ISO texts and SQL compares texts: within one second
\* "...:00.5Z" sorts before "...:00Z".  Odd instants have a fraction.
Second(instant) == instant \div 2
HasFraction(instant) == instant % 2 = 1

\* Plausible bug: a trigger at the very instant the stage opens is left out.
IsoTextAfter(a, b) == a > b

IsoTextAtLeast(a, b) ==
    IF Second(a) = Second(b) THEN HasFraction(b) \/ ~HasFraction(a) ELSE a >= b

RiskLockTriggeredDuringStage(log, stageStart) ==
    \E i \in DOMAIN log :
        /\ log[i].req.kind = "decision"
        /\ IsoTextAtLeast(log[i].req.at, stageStart)
        /\ log[i].triggered

LoadsEvidence(req, log, type) ==
    /\ req.evidence \in DOMAIN log
    /\ log[req.evidence].req.kind = "evidence"
    /\ log[req.evidence].req.type = type
    /\ log[req.evidence].req.snapshot = req.snapshot
    /\ log[req.evidence].req.at <= req.at

CoversStage(req, log, stageStart) ==
    /\ log[req.evidence].req.span.from <= DayOf(stageStart)
    /\ log[req.evidence].req.span.through >= DayOf(req.at)

\* Plausible bug: the wait at the prior stage is measured from the last write.
UpgradeAllowedSinceLastWrite(req, row, log) ==
    /\ ~row.state.locked
    /\ \/ /\ row.ceiling = 0 /\ req.bp = 3000
          /\ LoadsEvidence(req, log, "historical_validation_pass")
       \/ /\ row.ceiling = 3000 /\ req.bp = 6000
          /\ LoadsEvidence(req, log, "no_severe_anomaly_period")
          /\ CoversStage(req, log, row.updatedAt)
       \/ /\ row.ceiling = 6000 /\ req.bp = 9000
          /\ req.at >= row.stageStart + MinStage
          /\ ~RiskLockTriggeredDuringStage(log, row.stageStart)

UpgradeAllowed(req, row, log) ==
    /\ ~row.state.locked
    /\ \/ /\ row.ceiling = 0 /\ req.bp = 3000
          /\ LoadsEvidence(req, log, "historical_validation_pass")
       \/ /\ row.ceiling = 3000 /\ req.bp = 6000
          /\ req.at >= row.stageStart + MinStage
          /\ LoadsEvidence(req, log, "no_severe_anomaly_period")
          /\ CoversStage(req, log, row.stageStart)
       \/ /\ row.ceiling = 6000 /\ req.bp = 9000
          /\ req.at >= row.stageStart + MinStage
          /\ ~RiskLockTriggeredDuringStage(log, row.stageStart)

-----------------------------------------------------------------------------
(* When an operation accepts a request that is not a replay *)

EvidenceAccepted(req, row) == req.at >= row.updatedAt

CeilingAccepted(req, row, log) ==
    /\ req.at >= row.updatedAt
    /\ req.bp > row.ceiling => UpgradeAllowed(req, row, log)

UnlockAccepted(req, row) ==
    /\ row.state.locked
    /\ RequestedDay(req) >= row.state.lockedAsOf
    /\ req.at >= row.updatedAt

\* The row of the unlock request a decision quotes.
QuotesUnusedUnlock(req, log, used) ==
    \/ req.unlock = NoUnlock
    \/ /\ \E i \in DOMAIN log : log[i].req = req.unlock
       /\ used[req.unlock.id] = 0

\* Plausible bug: the target day is not compared with the last decision's.
DecisionAcceptedForAnyTarget(req, row, log, used) ==
    /\ req.revision = row.revision
    /\ req.prior = row.state
    /\ req.auth = row.auth
    /\ req.ceiling = row.ceiling
    /\ req.at >= row.updatedAt
    /\ Evaluable(req.prior, req.target)
    /\ QuotesUnusedUnlock(req, log, used)

DecisionAccepted(req, row, log, used) ==
    /\ req.revision = row.revision
    /\ req.prior = row.state
    /\ req.auth = row.auth
    /\ req.ceiling = row.ceiling
    /\ req.at >= row.updatedAt
    /\ row.lastTarget # NoDay => req.target > row.lastTarget
    /\ Evaluable(req.prior, req.target)
    /\ QuotesUnusedUnlock(req, log, used)

Accepted(req, row, log, used) ==
    IF req.kind = "initialize" THEN row.revision = 0
    ELSE /\ row.revision > 0
         /\ CASE req.kind = "evidence" -> EvidenceAccepted(req, row)
              [] req.kind = "ceiling" -> CeilingAccepted(req, row, log)
              [] req.kind = "unlock" -> UnlockAccepted(req, row)
              [] req.kind = "decision" -> DecisionAccepted(req, row, log, used)

\* Plausible bug: evidence carries no digest to recognise it by.
SameIdentityWithoutDigest(a, b) ==
    /\ a.kind = b.kind
    /\ CASE a.kind = "initialize" -> TRUE
         [] a.kind \in {"ceiling", "unlock"} -> a.id = b.id
         [] a.kind = "decision" -> a = [b EXCEPT !.revision = a.revision]
         [] OTHER -> FALSE

\* What the lookup for an idempotent replay and the unique constraints compare:
\* the one initialize, the digest of evidence, the report of a decision without
\* its compare-and-swap envelope, the request_id of a ceiling or unlock request.
SameIdentity(a, b) ==
    /\ a.kind = b.kind
    /\ CASE a.kind = "initialize" -> TRUE
         [] a.kind \in {"ceiling", "unlock"} -> a.id = b.id
         [] a.kind = "decision" -> a = [b EXCEPT !.revision = a.revision]
         [] OTHER -> a = b

IsKnown(req, log) == \E i \in DOMAIN log : SameIdentity(log[i].req, req)

-----------------------------------------------------------------------------
(* What an accepted request writes *)

StateAfter(req, row) ==
    IF req.kind = "decision"
    THEN EvaluateRegime(req.prior, req.obs, req.ceiling, req.unlock, req.target, req.at)
    ELSE row.state

AuditOf(req, row) ==
    [req |-> req,
     state |-> StateAfter(req, row),
     priorCeiling |-> row.ceiling,
     triggered |-> /\ req.kind = "decision"
                   /\ ~req.prior.locked
                   /\ TriggersRiskLock(req.obs)]

\* Plausible bug: a downgrade is recorded in the audit and not in the row.
RowKeepingTheHighestCeiling(req, row) ==
    [revision |-> row.revision + 1,
     state |-> StateAfter(req, row),
     ceiling |-> IF req.kind \in Authorizing /\ CeilingOf(req) > row.ceiling
                 THEN CeilingOf(req) ELSE row.ceiling,
     auth |-> IF req.kind \in Authorizing THEN row.revision + 1 ELSE row.auth,
     stageStart |-> IF req.kind \in Authorizing THEN req.at ELSE row.stageStart,
     snapshot |-> IF req.kind \in Authorizing THEN req.snapshot ELSE row.snapshot,
     lastTarget |-> IF req.kind = "decision" THEN req.target ELSE row.lastTarget,
     updatedAt |-> req.at]

RowAfter(req, row) ==
    [revision |-> row.revision + 1,
     state |-> StateAfter(req, row),
     ceiling |-> IF req.kind \in Authorizing THEN CeilingOf(req) ELSE row.ceiling,
     auth |-> IF req.kind \in Authorizing THEN row.revision + 1 ELSE row.auth,
     stageStart |-> IF req.kind \in Authorizing THEN req.at ELSE row.stageStart,
     snapshot |-> IF req.kind \in Authorizing THEN req.snapshot ELSE row.snapshot,
     lastTarget |-> IF req.kind = "decision" THEN req.target ELSE row.lastTarget,
     updatedAt |-> req.at]

\* Plausible bug: a quoted request is consumed only when it releases the lock.
ConsumedOnRelease(req, row, used) ==
    IF req.kind = "decision" /\ req.unlock # NoUnlock /\ ~StateAfter(req, row).locked
    THEN [used EXCEPT ![req.unlock.id] = row.revision + 1]
    ELSE used

\* Any decision that quotes an unlock request consumes it, released or not.
ConsumedAfter(req, row, used) ==
    IF req.kind = "decision" /\ req.unlock # NoUnlock
    THEN [used EXCEPT ![req.unlock.id] = row.revision + 1]
    ELSE used

-----------------------------------------------------------------------------
(* The ledger *)

Init ==
    /\ current = NoRow
    /\ audits = <<>>
    /\ consumedBy = [id \in UnlockIds |-> 0]

WithinQuota(req) ==
    Cardinality({i \in DOMAIN audits : audits[i].req.kind = req.kind}) < Quota[req.kind]

Apply(req) ==
    /\ ~IsKnown(req, audits)
    /\ Accepted(req, current, audits, consumedBy)
    /\ WithinQuota(req)
    /\ current' = RowAfter(req, current)
    /\ audits' = Append(audits, AuditOf(req, current))
    /\ consumedBy' = ConsumedAfter(req, current, consumedBy)

Initialize == \E req \in InitializeRequest : Apply(req)
RegisterDeploymentEvidence == \E req \in EvidenceRequest : Apply(req)
AuthorizeManualCeiling == \E req \in CeilingRequest : Apply(req)
SubmitUnlockRequest == \E req \in UnlockRequest : Apply(req)
CommitDecision == \E req \in DecisionRequestAgainst(current) : Apply(req)

Next ==
    \/ Initialize
    \/ RegisterDeploymentEvidence
    \/ AuthorizeManualCeiling
    \/ SubmitUnlockRequest
    \/ CommitDecision

Spec == Init /\ [][Next]_ledgerVars

-----------------------------------------------------------------------------
(* verify_storage_integrity: what every operation demands of the stored rows *)
(* before it does anything else, and what fails closed for ever once broken. *)

Entries(log, kinds) == {i \in DOMAIN log : log[i].req.kind \in kinds}
IsLatest(i, S) == i \in S /\ \A j \in S : j <= i

HeadMatchesTail(row, log) ==
    /\ row.revision = Len(log)
    /\ row.updatedAt = log[Len(log)].req.at
    /\ log[1].req.kind = "initialize"

AuthorizationMatches(row, log) ==
    /\ IsLatest(row.auth, Entries(log, Authorizing))
    /\ row.ceiling = CeilingOf(log[row.auth].req)
    /\ row.snapshot = log[row.auth].req.snapshot
    /\ row.stageStart = log[row.auth].req.at

DecisionMatches(row, log) ==
    \/ /\ Entries(log, {"decision"}) = {}
       /\ row.lastTarget = NoDay
       /\ row.state = InitialState
    \/ \E i \in Entries(log, {"decision"}) :
          /\ IsLatest(i, Entries(log, {"decision"}))
          /\ row.lastTarget = log[i].req.target
          /\ row.state = log[i].state

\* The stage a 3000 -> 6000 authorization left: the latest authorization before
\* it that granted its prior ceiling.
PriorStage(i, k, log) ==
    IsLatest(k, {j \in Entries(log, Authorizing) :
                    j < i /\ CeilingOf(log[j].req) = log[i].priorCeiling})

EvidenceStands(log) ==
    \A i \in Entries(log, {"ceiling"}) :
        LET req == log[i].req
            from == log[i].priorCeiling
        IN  /\ from = 0 /\ req.bp = 3000 =>
                    LoadsEvidence(req, log, "historical_validation_pass")
            /\ from = 3000 /\ req.bp = 6000 =>
                    /\ LoadsEvidence(req, log, "no_severe_anomaly_period")
                    /\ \E k \in 1..(i - 1) : /\ PriorStage(i, k, log)
                                            /\ CoversStage(req, log, log[k].req.at)

\* Decisions that quote the unlock request of an audit.
Quoting(log, i) ==
    {j \in Entries(log, {"decision"}) :
        log[j].req.unlock # NoUnlock /\ log[j].req.unlock.id = log[i].req.id}

\* requested_at is stored in UTC and sealed again from there, so a request
\* written with another offset no longer has its own evidence_id.
UnlocksAccounted(log, used) ==
    \A i \in Entries(log, {"unlock"}) :
        /\ log[i].req.offset = 0
        /\ Quoting(log, i) = IF used[log[i].req.id] = 0 THEN {} ELSE {used[log[i].req.id]}

Integrity(row, log, used) ==
    \/ row = NoRow /\ log = <<>>
    \/ /\ log # <<>>
       /\ HeadMatchesTail(row, log)
       /\ AuthorizationMatches(row, log)
       /\ DecisionMatches(row, log)
       /\ WellFormed(row.state)
       /\ EvidenceStands(log)
       /\ UnlocksAccounted(log, used)

-----------------------------------------------------------------------------
(* Properties *)

\* The rows have their types.
TypeOK ==
    /\ current.revision = Len(audits)
    /\ current.state \in RegimeState
    /\ current.ceiling \in Budgets
    /\ current.auth \in 0..Len(audits)
    /\ current.stageStart \in Nat
    /\ current.lastTarget \in Nat \cup {NoDay}
    /\ current.updatedAt \in Nat
    /\ consumedBy \in [UnlockIds -> 0..Len(audits)]
    /\ \A i \in DOMAIN audits : /\ audits[i].state \in RegimeState
                                /\ audits[i].priorCeiling \in Budgets
                                /\ audits[i].triggered \in BOOLEAN

\* No sequence of accepted requests leaves rows the verifier rejects: the
\* verifier never repairs, so one such row would refuse every later request,
\* exact replays included (verify_storage_integrity).
StoreStaysReadable == Integrity(current, audits, consumedBy)

\* The ceiling the ledger had authorized before its i-th audit.
AuthorizedBefore(i, ceiling) ==
    \E k \in 1..(i - 1) : /\ IsLatest(k, Entries(audits, Authorizing) \cap 1..(i - 1))
                          /\ CeilingOf(audits[k].req) = ceiling

\* A decision never applies more than the ceiling authorized when it was taken,
\* however the ceiling moved before it, also when a raise is deferred to a
\* later week and the earlier budget is carried on (apply_weekly_budget_adjustment).
BudgetWithinAuthorization ==
    \A i \in Entries(audits, {"decision"}) :
        \E ceiling \in Budgets : /\ AuthorizedBefore(i, ceiling)
                                 /\ audits[i].state.applied <= ceiling

\* Between two decisions with no week opening between their target days the
\* budget may fall but never rises, whatever is authorized, locked or released
\* between them.
NoRaiseWithinAWeek ==
    \A i, j \in Entries(audits, {"decision"}) :
        /\ i < j
        /\ \A d \in WeekStarts : ~(audits[i].req.target < d /\ d <= audits[j].req.target)
        => audits[j].state.applied <= audits[i].state.applied

\* Decisions form one chain: each starts from the state its predecessor left
\* and targets a later day, so no day is decided twice and none is skipped back.
DecisionsFormOneChain ==
    \A i, j \in Entries(audits, {"decision"}) :
        i < j => /\ audits[i].req.target < audits[j].req.target
                 /\ (\A k \in Entries(audits, {"decision"}) : k <= i \/ k >= j)
                    => audits[j].req.prior = audits[i].state

\* Decision k triggered the lock that was still held just before decision i.
LockedBy(k, i) ==
    /\ k \in Entries(audits, {"decision"}) /\ k < i
    /\ audits[k].triggered
    /\ \A j \in Entries(audits, {"decision"}) :
            k <= j /\ j < i => audits[j].state.locked /\ audits[j].state.applied = 0

\* A lock is left only by a decision that quotes an unlock request, submitted
\* earlier on or after the day of the trigger and quoted by no other decision,
\* and only when the minimum number of market days has passed since the trigger
\* (evaluate_unlock_request); from the trigger to that decision the budget is zero.
LockReleaseIsEarned ==
    \A i \in Entries(audits, {"decision"}) :
        audits[i].req.prior.locked /\ ~audits[i].state.locked =>
            \E k \in Entries(audits, {"decision"}) :
                /\ LockedBy(k, i)
                /\ audits[i].req.target - audits[k].req.target >= CoolingDays
                /\ \E u \in Entries(audits, {"unlock"}) :
                        /\ u < i
                        /\ audits[u].req = audits[i].req.unlock
                        /\ RequestedDay(audits[u].req) >= audits[k].req.target - 1
                        /\ Quoting(audits, u) = {i}

\* The authorization that was in force just before audit i.
StageBefore(k, i) == IsLatest(k, Entries(audits, Authorizing) \cap 1..(i - 1))

\* The ceiling is raised one rung at a time, never while the lock is held, and
\* above the first rung only after the minimum time at the rung below; a lower
\* ceiling in between restarts that time (_assert_upgrade_allowed).
CeilingClimbsByEarnedSteps ==
    \A i \in Entries(audits, {"ceiling"}) : \A k \in 1..(i - 1) :
        LET from == CeilingOf(audits[k].req)
            to == audits[i].req.bp
        IN  StageBefore(k, i) /\ to > from =>
                /\ to = from + 3000
                /\ ~audits[i].state.locked
                /\ from > 0 => audits[i].req.at >= audits[k].req.at + MinStage

\* The ceiling goes from 6000 to 9000 only when no decision since the 6000 stage
\* opened triggered a risk lock, a lock released in the meantime included
\* (_risk_lock_triggered_during_stage).
NineOnlyAfterACleanStage ==
    \A i \in Entries(audits, {"ceiling"}) : \A k \in 1..(i - 1) :
        /\ StageBefore(k, i)
        /\ CeilingOf(audits[k].req) = 6000
        /\ audits[i].req.bp = 9000
        => \A j \in (k + 1)..(i - 1) : ~audits[j].triggered
=============================================================================
