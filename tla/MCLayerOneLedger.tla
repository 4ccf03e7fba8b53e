------------------------- MODULE MCLayerOneLedger -------------------------
(***************************************************************************)
(* Instances of LayerOneLedger for TLC.                                    *)
(***************************************************************************)
EXTENDS LayerOneLedger, TLC

\* One calm observation with a positive trend, and two account drawdowns: the
\* lock threshold and the red line, each exactly at its boundary.
Calm == [ratio |-> 10400, vol |-> 1800, indexDrawdown |-> -900, accountDrawdown |-> -900]
LockDrawdown == [Calm EXCEPT !.accountDrawdown = -1800]
RedLineDrawdown == [Calm EXCEPT !.accountDrawdown = -2000]

CalmAndLock == {Calm, LockDrawdown}
CalmAndRedLine == {Calm, RedLineDrawdown}

EvidenceToDay0Or1 == {[from |-> 0, through |-> 0], [from |-> 0, through |-> 1]}
EvidenceToDay2 == EvidenceToDay0Or1 \cup {[from |-> 0, through |-> 2]}
EvidenceToDay0 == {[from |-> 0, through |-> 0]}

QuotaOf(evidence, ceiling, unlock, decision) ==
    [kind \in {"initialize", "evidence", "ceiling", "unlock", "decision"} |->
        CASE kind = "initialize" -> 1
          [] kind = "evidence" -> evidence
          [] kind = "ceiling" -> ceiling
          [] kind = "unlock" -> unlock
          [] kind = "decision" -> decision]

LadderQuota == QuotaOf(2, 2, 0, 1)
StageQuota == QuotaOf(2, 3, 1, 2)
LoweredQuota == QuotaOf(3, 4, 0, 0)
ClimbQuota == QuotaOf(3, 4, 1, 2)
WeekQuota == QuotaOf(1, 2, 2, 4)
SealQuota == QuotaOf(0, 0, 1, 2)

RequestIds == Permutations(CeilingIds) \cup Permutations(UnlockIds)

-----------------------------------------------------------------------------
(* Runs about late stages start with a fixed history: the steps up to its end *)
(* are the requests below, each accepted by the ledger like any other.        *)

Only(set) == CHOOSE x \in set : TRUE

Start(at) == [kind |-> "initialize", at |-> at, snapshot |-> Only(Snapshots)]
Evidence(at, type) ==
    [kind |-> "evidence", at |-> at, type |-> type, snapshot |-> Only(Snapshots),
     span |-> [from |-> 0, through |-> DayOf(at)]]
Ceiling(at, bp, evidence) ==
    [kind |-> "ceiling", at |-> at, bp |-> bp, evidence |-> evidence,
     snapshot |-> Only(Snapshots)]

ToThreeThousand ==
    <<Start(0), Evidence(0, "historical_validation_pass"), Ceiling(0, 3000, 2)>>
ToSixThousand ==
    ToThreeThousand \o <<Evidence(2, "no_severe_anomaly_period"), Ceiling(2, 6000, 4)>>

\* The ids of the requests are left open, so that they stay symmetric.
Matches(req, wanted) == \A field \in DOMAIN wanted : field \in DOMAIN req /\ req[field] = wanted[field]
Follows(history) ==
    \A i \in DOMAIN audits' \cap DOMAIN history : Matches(audits'[i].req, history[i])
StartsAtThreeThousand == Follows(ToThreeThousand)
StartsAtSixThousand == Follows(ToSixThousand)
StartsLowered ==
    Follows(ToSixThousand \o <<[kind |-> "ceiling", bp |-> 3000],
                               Evidence(4, "no_severe_anomaly_period")>>)

Kinds(kind) == {i \in DOMAIN audits' : audits'[i].req.kind = kind}
Within(quota) == \A kind \in DOMAIN quota : Cardinality(Kinds(kind)) <= quota[kind]

\* The run about the ceiling has three parts: every short history from the empty
\* ledger, those that go on from the opening of the 6000 stage, and those that
\* lower the ceiling there, at once or when it was about to be raised again, and
\* then file new evidence and climb.
NothingOfDay2 == \A i \in Kinds("evidence") : audits'[i].req.span.through < 2
Ladder ==
    /\ Within(LadderQuota) /\ NothingOfDay2
    /\ \A i \in Kinds("ceiling") : audits'[i].req.bp < 9000
    /\ \A i \in Kinds("decision") : audits'[i].req.target < 2
FromSixThousand == Within(StageQuota) /\ NothingOfDay2 /\ StartsAtSixThousand
LoweredAndRaised == Within(LoweredQuota) /\ StartsLowered
ClimbOrStage == Ladder \/ FromSixThousand \/ LoweredAndRaised
=============================================================================
