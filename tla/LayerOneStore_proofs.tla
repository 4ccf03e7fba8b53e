------------------------ MODULE LayerOneStore_proofs ------------------------
(***************************************************************************)
(* The concurrent store implements the serial ledger, for any number of    *)
(* callers, any requests and any bounds.                                   *)
(*                                                                         *)
(* The argument is the one that justifies optimistic concurrency control.  *)
(* A session works on the row it read.  Every commit advances the revision,*)
(* so a session whose row still has the current revision has read the      *)
(* current row, and no row and no audit has changed since it checked its   *)
(* guards; and only such a session passes the compare-and-swap.            *)
(***************************************************************************)
EXTENDS LayerOneStore, LayerOneLedger_proofs

-----------------------------------------------------------------------------

Read == {"row", "audits", "verified", "guarded"}

Session == [pc : {"closed", "sent", "row", "audits", "verified", "guarded", "committed"},
            req : Request \cup {NoRequest}, row : Row, used : [UnlockIds -> Nat]]

\* What a session knows, as long as nobody has committed since it read its row.
Fresh(s) ==
    /\ s.pc \in Read => s.row = current
    /\ s.pc \in {"verified", "guarded"} => s.used = consumedBy
    /\ s.pc = "guarded" => /\ Accepted(s.req, current, audits, consumedBy)
                           /\ ~IsKnown(s.req, audits)

SessionInv(s) ==
    /\ s.pc # "closed" => s.req \in Request
    /\ s.row.revision \in 0..current.revision
    /\ s.row.revision = current.revision => Fresh(s)

StoreInv ==
    /\ TypeInv
    /\ session \in [Clients -> Session]
    /\ \A c \in Clients : SessionInv(session[c])

\* A session that passes the compare-and-swap has read the current row.
LEMMA CasMeansFresh ==
    ASSUME NEW s, SessionInv(s), s.pc = "guarded", CasHolds(s.row)
    PROVE  /\ s.row = current
           /\ Accepted(s.req, current, audits, consumedBy)
           /\ ~IsKnown(s.req, audits)
           /\ s.req \in Request
BY DEF SessionInv, Fresh, CasHolds, Read

\* A commit is one accepted request of the ledger.
LEMMA CommitIsApply ==
    ASSUME StoreInv, NEW c \in Clients, Commit(c)
    PROVE  Next
<1> DEFINE req == session[c].req
<1>1. /\ session[c].row = current
      /\ Accepted(req, current, audits, consumedBy)
      /\ ~IsKnown(req, audits)
      /\ req \in Request
  BY CasMeansFresh DEF StoreInv, Commit
<1>2. Apply(req)
  BY <1>1 DEF Commit, Apply
<1> HIDE DEF req
<1>3. CASE req \in DecisionRequest
  <2>1. /\ req.kind = "decision" /\ req.revision = current.revision /\ req.prior = current.state
        /\ req.auth = current.auth /\ req.ceiling = current.ceiling
    BY <1>1, <1>3, RequestFields DEF Accepted, DecisionAccepted
  <2>2. req \in DecisionRequestAgainst(current)
    BY <1>3, <2>1 DEF DecisionRequest, DecisionRequestAgainst
  <2> QED BY <1>2, <2>2 DEF Next, CommitDecision
<1> QED
  BY <1>1, <1>2, <1>3 DEF Request, Next, Initialize, RegisterDeploymentEvidence,
     AuthorizeManualCeiling, SubmitUnlockRequest

\* Every other step leaves the ledger alone.
LEMMA OtherStepsStutter ==
    ASSUME StoreInv, NEW c \in Clients, SessionStep(c), ~Commit(c)
    PROVE  UNCHANGED ledgerVars
BY DEF SessionStep, Submit, ReadCurrentRow, ReadAudits, ReadSpecializedRows, NotInitialized,
       FindReplay, Guard, CommitConflict, Respond, Abandon

\* A step that commits nothing preserves what every session knows, if it does so
\* for the session that takes it.
LEMMA QuietStep ==
    ASSUME StoreInv, NEW c \in Clients, UNCHANGED ledgerVars,
           NEW s \in Session, SessionInv(s),
           session' = [session EXCEPT ![c] = s]
    PROVE  StoreInv'
<1>1. TypeInv'
  BY DEF StoreInv, TypeInv, ledgerVars
<1>2. session' \in [Clients -> Session]
  BY DEF StoreInv
<1>3. ASSUME NEW d \in Clients PROVE SessionInv(session[d])'
  <2>1. session'[d] = s \/ session'[d] = session[d]
    BY DEF StoreInv
  <2>2. SessionInv(session'[d])
    BY <2>1 DEF StoreInv
  <2> QED BY <2>2 DEF SessionInv, Fresh, ledgerVars
<1> QED BY <1>1, <1>2, <1>3 DEF StoreInv

LEMMA ClosedSession == ASSUME TypeInv PROVE Closed \in Session /\ SessionInv(Closed)
<1>1. NoRow \in Row /\ NoRow.revision = 0
  BY DEF NoRow, Row, InitialState, RegimeState, Budgets, NoDay
<1>2. current.revision \in Nat
  BY DEF TypeInv, Row
<1>3. Closed \in Session
  BY <1>1 DEF Closed, Session, Unused
<1>4. SessionInv(Closed)
  BY <1>1, <1>2 DEF Closed, SessionInv, Fresh, Read
<1> QED BY <1>3, <1>4

LEMMA ClosingStep ==
    ASSUME StoreInv, NEW c \in Clients, NEW answer, Close(c, answer), UNCHANGED ledgerVars
    PROVE  StoreInv'
BY QuietStep, ClosedSession DEF StoreInv, Close

LEMMA SubmitStep ==
    ASSUME StoreInv, NEW c \in Clients, Submit(c) PROVE StoreInv'
<1>1. PICK req \in RequestsAgainst(current) \cup {audits[i].req : i \in DOMAIN audits} :
          session' = [session EXCEPT ![c] = [Closed EXCEPT !.pc = "sent", !.req = req]]
  BY DEF Submit
<1>2. req \in Request
  <2>1. RequestsAgainst(current) \subseteq Request
    BY RequestType DEF StoreInv, RequestsAgainst, Request
  <2>2. \A i \in DOMAIN audits : audits[i].req \in Request
    <3>1. \A i \in DOMAIN audits : audits[i] \in Audit
      <4>1. audits \in Seq(Audit)
        BY DEF StoreInv, TypeInv
      <4> QED BY <4>1, ElementOfSeq, LenProperties
    <3> QED BY <3>1 DEF Audit
  <2> QED BY <1>1, <2>1, <2>2
<1> DEFINE s == [Closed EXCEPT !.pc = "sent", !.req = req]
<1>3. Closed \in Session /\ SessionInv(Closed)
  BY ClosedSession DEF StoreInv
<1>4. s \in Session
  BY <1>2, <1>3 DEF Session
<1>5. SessionInv(s)
  BY <1>2, <1>3 DEF SessionInv, Fresh, Read, Closed
<1> HIDE DEF s
<1> QED BY <1>1, <1>4, <1>5, QuietStep DEF Submit, s

LEMMA ReadCurrentRowStep ==
    ASSUME StoreInv, NEW c \in Clients, ReadCurrentRow(c) PROVE StoreInv'
<1> DEFINE s == [session[c] EXCEPT !.pc = "row", !.row = current]
<1>1. session[c] \in Session /\ SessionInv(session[c]) /\ session[c].pc = "sent"
  BY DEF StoreInv, ReadCurrentRow
<1>2. current \in Row /\ current.revision \in 0..current.revision
  BY DEF StoreInv, TypeInv, Row
<1>3. s \in Session
  BY <1>1, <1>2 DEF Session
<1>4. SessionInv(s)
  BY <1>1, <1>2 DEF SessionInv, Fresh, Read, Session
<1> QED BY <1>3, <1>4, QuietStep DEF ReadCurrentRow, Step

LEMMA ReadAuditsStep ==
    ASSUME StoreInv, NEW c \in Clients, ReadAudits(c) PROVE StoreInv'
<1> DEFINE s == [session[c] EXCEPT !.pc = "audits"]
<1>1. session[c] \in Session /\ SessionInv(session[c]) /\ session[c].pc = "row"
  BY DEF StoreInv, ReadAudits
<1>2. s \in Session
  BY <1>1 DEF Session
<1>3. SessionInv(s)
  BY <1>1 DEF SessionInv, Fresh, Read, Session
<1> QED BY <1>2, <1>3, QuietStep, ClosingStep DEF ReadAudits, Step

LEMMA ReadSpecializedRowsStep ==
    ASSUME StoreInv, NEW c \in Clients, ReadSpecializedRows(c) PROVE StoreInv'
<1> DEFINE s == [session[c] EXCEPT !.pc = "verified", !.used = consumedBy]
<1>1. session[c] \in Session /\ SessionInv(session[c]) /\ session[c].pc = "audits"
  BY DEF StoreInv, ReadSpecializedRows
<1>2. consumedBy \in [UnlockIds -> Nat]
  BY DEF StoreInv, TypeInv, Row
<1>3. s \in Session
  BY <1>1, <1>2 DEF Session
<1>4. SessionInv(s)
  BY <1>1 DEF SessionInv, Fresh, Read, Session
<1> QED BY <1>3, <1>4, QuietStep, ClosingStep DEF ReadSpecializedRows, Step

\* Passing the guards on a row that is still current means that they hold now,
\* and that no audit carries the request's identity: initialize, which looks at
\* its row only, has read a row without revisions and so an empty ledger.
LEMMA GuardStep ==
    ASSUME StoreInv, NEW c \in Clients, Guard(c) PROVE StoreInv'
<1> DEFINE s == [session[c] EXCEPT !.pc = "guarded"]
<1>1. /\ session[c] \in Session /\ SessionInv(session[c]) /\ session[c].pc = "verified"
      /\ ~FindsIdentity(session[c])
  BY DEF StoreInv, Guard
<1>2. s \in Session
  BY <1>1 DEF Session
<1>3. ASSUME Accepted(session[c].req, session[c].row, audits, session[c].used)
      PROVE  SessionInv(s)
  <2>1. session[c].row.revision = current.revision =>
            session[c].row = current /\ session[c].used = consumedBy
    BY <1>1 DEF SessionInv, Fresh, Read
  <2>2. session[c].row.revision = current.revision => ~IsKnown(session[c].req, audits)
    <3>1. session[c].req.kind # "initialize" => ~IsKnown(session[c].req, audits)
      BY <1>1 DEF FindsIdentity
    <3>2. session[c].req.kind = "initialize" => session[c].row.revision = 0
      BY <1>1 DEF FindsIdentity, SessionInv, Session, Row
    <3>3. current.revision = 0 => DOMAIN audits = {}
      <4>1. audits \in Seq(Audit) /\ current.revision = Len(audits)
        BY DEF StoreInv, TypeInv
      <4>2. DOMAIN audits = 1..Len(audits)
        BY <4>1, LenProperties
      <4> QED BY <4>1, <4>2
    <3> QED BY <3>1, <3>2, <3>3 DEF IsKnown
  <2> QED BY <1>1, <1>3, <2>1, <2>2 DEF SessionInv, Fresh, Read, Session
<1> QED BY <1>2, <1>3, QuietStep, ClosingStep DEF Guard, Step

\* A commit advances the revision, so every other session is stale from then on.
LEMMA CommitStep ==
    ASSUME StoreInv, NEW c \in Clients, Commit(c) PROVE StoreInv'
<1> DEFINE s == [session[c] EXCEPT !.pc = "committed"]
<1>1. TypeInv'
  BY CommitIsApply, TypeInvStep DEF StoreInv
<1>2. session[c] \in Session /\ SessionInv(session[c]) /\ session[c].pc = "guarded"
  BY DEF StoreInv, Commit
<1>3. session' = [session EXCEPT ![c] = s] /\ s \in Session
  BY <1>2 DEF Commit, Step, Session
<1>4. current.revision \in Nat /\ current'.revision = current.revision + 1
  BY <1>2, CasMeansFresh DEF Commit, RowAfter, StoreInv, TypeInv, Row
<1>5. ASSUME NEW d \in Clients PROVE SessionInv(session[d])'
  <2>1. /\ session[d].row.revision \in 0..current.revision
        /\ session[d].pc # "closed" => session[d].req \in Request
    BY DEF StoreInv, SessionInv
  <2>2. /\ session'[d].row = session[d].row /\ session'[d].req = session[d].req
        /\ session'[d].pc # "closed" => session[d].pc # "closed"
    BY <1>2, <1>3 DEF StoreInv, Session
  <2> QED BY <1>4, <2>1, <2>2 DEF SessionInv
<1> QED BY <1>1, <1>3, <1>5 DEF StoreInv

LEMMA StoreInvStep == ASSUME StoreInv, [StoreNext]_storeVars PROVE StoreInv'
<1>1. CASE UNCHANGED storeVars
  BY <1>1 DEF storeVars, StoreInv, TypeInv, SessionInv, Fresh
<1>2. ASSUME NEW c \in Clients, SessionStep(c) PROVE StoreInv'
  <2>1. CASE Submit(c)
    BY <2>1, SubmitStep
  <2>2. CASE ReadCurrentRow(c)
    BY <2>2, ReadCurrentRowStep
  <2>3. CASE ReadAudits(c)
    BY <2>3, ReadAuditsStep
  <2>4. CASE ReadSpecializedRows(c)
    BY <2>4, ReadSpecializedRowsStep
  <2>5. CASE NotInitialized(c)
    BY <2>5, ClosingStep DEF NotInitialized
  <2>6. CASE FindReplay(c)
    BY <2>6, ClosingStep DEF FindReplay
  <2>7. CASE Guard(c)
    BY <2>7, GuardStep
  <2>8. CASE Commit(c)
    BY <2>8, CommitStep
  <2>9. CASE CommitConflict(c)
    BY <2>9, ClosingStep DEF CommitConflict
  <2>10. CASE Respond(c)
    BY <2>10, ClosingStep DEF Respond
  <2>11. CASE Abandon(c)
    BY <2>11, ClosingStep DEF Abandon
  <2> QED BY <1>2, <2>1, <2>2, <2>3, <2>4, <2>5, <2>6, <2>7, <2>8, <2>9, <2>10, <2>11
          DEF SessionStep
<1> QED BY <1>1, <1>2 DEF StoreNext

LEMMA StoreInvInitially == ASSUME StoreInit PROVE StoreInv
<1>1. TypeInv
  BY TypeInvInitially DEF StoreInit
<1> QED BY <1>1, ClosedSession DEF StoreInit, StoreInv

THEOREM StoreInvAlways == StoreSpec => []StoreInv
BY StoreInvInitially, StoreInvStep, PTL DEF StoreSpec

\* For every number of callers: the store implements the ledger.  Whatever the
\* interleaving, and wherever sessions are abandoned, the rows change as if the
\* requests that take effect had run one at a time.
THEOREM StoreImplementsLedger == StoreSpec => ImplementsLedger
<1>1. StoreInit => Init
  BY DEF StoreInit
<1>2. StoreInv /\ [StoreNext]_storeVars => [Next]_ledgerVars
  <2>1. CASE UNCHANGED storeVars
    BY <2>1 DEF storeVars, ledgerVars
  <2>2. ASSUME StoreInv, NEW c \in Clients, SessionStep(c) PROVE [Next]_ledgerVars
    BY <2>2, CommitIsApply, OtherStepsStutter
  <2> QED BY <2>1, <2>2 DEF StoreNext
<1> QED BY <1>1, <1>2, StoreInvAlways, PTL DEF StoreSpec, ImplementsLedger, Spec

\* For every number of callers: a session that is about to pass its
\* compare-and-swap still satisfies the guards it checked earlier.
THEOREM GuardsAreNotStale == StoreSpec => []GuardsHoldAtCommit
<1>1. StoreInv => GuardsHoldAtCommit
  BY CasMeansFresh DEF StoreInv, GuardsHoldAtCommit
<1> QED BY <1>1, StoreInvAlways, PTL

\* What holds of the ledger holds of the store: budgets are authorized, and the
\* verifier accepts what it reads.
THEOREM StoreBudgetsAreAuthorized == StoreSpec => []BudgetWithinAuthorization
BY StoreImplementsLedger, BudgetsAreAuthorized, PTL DEF ImplementsLedger

THEOREM StoreStaysReadableAlways == ASSUME Offsets = {0} PROVE StoreSpec => []StoreStaysReadable
BY StoreImplementsLedger, LedgerStaysReadable, PTL DEF ImplementsLedger
-----------------------------------------------------------------------------
(* Types of the sessions and of the answers *)

ClientTypes ==
    /\ DOMAIN receipt = Clients
    /\ opened \in 0..Attempts
    /\ \A c \in Clients :
          /\ session[c].used \in [UnlockIds -> 0..Len(audits)]
          /\ session[c].pc = "committed" => session[c].row.revision < Len(audits)
          /\ receipt[c].audit \in 0..Len(audits)

\* A step that commits nothing keeps the types, if it does for its own session
\* and for the answers.
LEMMA QuietTypes ==
    ASSUME StoreInv, ClientTypes, NEW c \in Clients, UNCHANGED ledgerVars,
           NEW s, session' = [session EXCEPT ![c] = s],
           s.used \in [UnlockIds -> 0..Len(audits)],
           s.pc = "committed" => s.row.revision < Len(audits),
           DOMAIN receipt' = Clients,
           \A d \in Clients : receipt'[d].audit \in 0..Len(audits),
           opened' \in 0..Attempts
    PROVE  ClientTypes'
<1>1. audits' = audits
  BY DEF ledgerVars
<1>2. ASSUME NEW d \in Clients
      PROVE  /\ session'[d].used \in [UnlockIds -> 0..Len(audits)]
             /\ session'[d].pc = "committed" => session'[d].row.revision < Len(audits)
  <2>1. CASE d = c
    <3>1. session'[d] = s
      BY <2>1 DEF StoreInv
    <3> QED BY <3>1
  <2>2. CASE d # c
    <3>1. session'[d] = session[d]
      BY <2>2 DEF StoreInv
    <3> QED BY <3>1 DEF ClientTypes
  <2> QED BY <2>1, <2>2
<1> QED BY <1>1, <1>2 DEF ClientTypes

LEMMA AnsweredTypes ==
    ASSUME ClientTypes, NEW c \in Clients, NEW answer, answer.audit \in 0..Len(audits),
           receipt' = [receipt EXCEPT ![c] = answer]
    PROVE  DOMAIN receipt' = Clients /\ \A d \in Clients : receipt'[d].audit \in 0..Len(audits)
BY DEF ClientTypes

LEMMA ClosingTypes ==
    ASSUME StoreInv, ClientTypes, NEW c \in Clients, UNCHANGED ledgerVars,
           NEW answer, answer.audit \in 0..Len(audits), Close(c, answer)
    PROVE  ClientTypes'
<1>1. 0 \in 0..Len(audits)
  BY LenProperties DEF StoreInv, TypeInv
<1>2. Closed.used \in [UnlockIds -> 0..Len(audits)] /\ Closed.pc # "committed"
  BY <1>1 DEF Closed, Unused
<1>3. opened' \in 0..Attempts
  BY DEF Close, ClientTypes
<1>4. DOMAIN receipt' = Clients /\ \A d \in Clients : receipt'[d].audit \in 0..Len(audits)
  BY AnsweredTypes DEF Close
<1> QED BY <1>2, <1>3, <1>4, QuietTypes DEF Close

LEMMA StepTypes ==
    ASSUME StoreInv, ClientTypes, NEW c \in Clients, UNCHANGED ledgerVars,
           NEW s, s.used \in [UnlockIds -> 0..Len(audits)], s.pc # "committed",
           Step(c, s)
    PROVE  ClientTypes'
<1>1. DOMAIN receipt' = Clients /\ \A d \in Clients : receipt'[d].audit \in 0..Len(audits)
  BY DEF Step, ClientTypes
<1>2. opened' \in 0..Attempts
  BY DEF Step, ClientTypes
<1> QED BY <1>1, <1>2, QuietTypes DEF Step

LEMMA ClientTypesStep ==
    ASSUME StoreInv, ClientTypes, NEW c \in Clients, SessionStep(c) PROVE ClientTypes'
<1>0. /\ Len(audits) \in Nat /\ DOMAIN audits = 1..Len(audits)
      /\ current.revision = Len(audits)
  BY LenProperties DEF StoreInv, TypeInv
<1> DEFINE s == session[c]
<1>1. /\ s \in Session /\ SessionInv(s) /\ s.used \in [UnlockIds -> 0..Len(audits)]
      /\ s.row.revision \in 0..Len(audits)
  BY <1>0 DEF StoreInv, SessionInv, ClientTypes
<1>2. Refusal("x").audit = 0 /\ \A r : Refusal(r).audit \in 0..Len(audits)
  BY <1>0 DEF Refusal, Answer
<1>3. CASE Submit(c)
  <2>1. PICK req : session' = [session EXCEPT ![c] = [Closed EXCEPT !.pc = "sent", !.req = req]]
    BY <1>3 DEF Submit
  <2> DEFINE n == [Closed EXCEPT !.pc = "sent", !.req = req]
  <2>2. n.used \in [UnlockIds -> 0..Len(audits)] /\ n.pc # "committed"
    BY <1>0 DEF Closed, Unused
  <2>3. opened' \in 0..Attempts
    BY <1>3, StoreConstants DEF Submit, ClientTypes
  <2>4. NoAnswer.audit \in 0..Len(audits)
    BY <1>2 DEF NoAnswer
  <2>5. UNCHANGED ledgerVars /\ receipt' = [receipt EXCEPT ![c] = NoAnswer]
    BY <1>3 DEF Submit
  <2>7. DOMAIN receipt' = Clients /\ \A d \in Clients : receipt'[d].audit \in 0..Len(audits)
    BY <2>4, <2>5, AnsweredTypes
  <2> HIDE DEF n
  <2>6. session' = [session EXCEPT ![c] = n]
    BY <2>1 DEF n
  <2> QED BY <2>2, <2>3, <2>5, <2>6, <2>7, QuietTypes
<1>4. CASE ReadCurrentRow(c)
  <2> DEFINE n == [session[c] EXCEPT !.pc = "row", !.row = current]
  <2>1. n.used \in [UnlockIds -> 0..Len(audits)] /\ n.pc # "committed"
    BY <1>1 DEF Session
  <2>2. UNCHANGED ledgerVars /\ Step(c, n)
    BY <1>4 DEF ReadCurrentRow
  <2> HIDE DEF n
  <2> QED BY <2>1, <2>2, StepTypes
<1>5. CASE ReadAudits(c)
  <2> DEFINE n == [session[c] EXCEPT !.pc = "audits"]
  <2>1. n.used \in [UnlockIds -> 0..Len(audits)] /\ n.pc # "committed"
    BY <1>1 DEF Session
  <2>2. UNCHANGED ledgerVars /\ (Step(c, n) \/ Close(c, Refusal("integrity")))
    BY <1>5 DEF ReadAudits
  <2> HIDE DEF n
  <2> QED BY <1>2, <2>1, <2>2, StepTypes, ClosingTypes
<1>6. CASE ReadSpecializedRows(c)
  <2> DEFINE n == [session[c] EXCEPT !.pc = "verified", !.used = consumedBy]
  <2>1. n.used \in [UnlockIds -> 0..Len(audits)] /\ n.pc # "committed"
    BY <1>1 DEF Session, StoreInv, TypeInv
  <2>2. UNCHANGED ledgerVars /\ (Step(c, n) \/ Close(c, Refusal("integrity")))
    BY <1>6 DEF ReadSpecializedRows
  <2> HIDE DEF n
  <2> QED BY <1>2, <2>1, <2>2, StepTypes, ClosingTypes
<1>7. CASE NotInitialized(c)
  BY <1>2, <1>7, ClosingTypes DEF NotInitialized
<1>8. CASE FindReplay(c)
  <2>1. PICK i \in DOMAIN audits :
            \/ Close(c, Answer("replay", session[c].req, i, audits[i].state))
            \/ Close(c, Refusal("conflict"))
    BY <1>8 DEF FindReplay
  <2>2. Answer("replay", session[c].req, i, audits[i].state).audit \in 0..Len(audits)
    BY <1>0 DEF Answer
  <2>3. UNCHANGED ledgerVars
    BY <1>8 DEF FindReplay
  <2> QED BY <1>2, <2>1, <2>2, <2>3, ClosingTypes
<1>9. CASE Guard(c)
  <2> DEFINE n == [session[c] EXCEPT !.pc = "guarded"]
  <2>1. n.used \in [UnlockIds -> 0..Len(audits)] /\ n.pc # "committed"
    BY <1>1 DEF Session
  <2>2. UNCHANGED ledgerVars /\ (Step(c, n) \/ Close(c, Refusal("rejected")))
    BY <1>9 DEF Guard
  <2> HIDE DEF n
  <2> QED BY <1>2, <2>1, <2>2, StepTypes, ClosingTypes
<1>10. CASE Commit(c)
  <2>1. /\ session' = [session EXCEPT ![c] = [session[c] EXCEPT !.pc = "committed"]]
        /\ UNCHANGED <<receipt, opened>>
        /\ audits' = Append(audits, AuditOf(session[c].req, session[c].row))
    BY <1>10 DEF Commit, Step
  <2>2. Len(audits') = Len(audits) + 1
    BY <2>1, AppendProperties DEF StoreInv, TypeInv
  <2>3. ASSUME NEW d \in Clients
        PROVE  /\ session'[d].used = session[d].used
               /\ session'[d].row.revision = session[d].row.revision
               /\ session[d].row.revision \in 0..Len(audits)
    BY <1>0, <2>1 DEF StoreInv, SessionInv, Session
  <2>4. ASSUME NEW d \in Clients PROVE session'[d].used \in [UnlockIds -> 0..Len(audits')]
    BY <1>0, <2>2, <2>3 DEF ClientTypes
  <2>5. ASSUME NEW d \in Clients
        PROVE  /\ session'[d].row.revision < Len(audits')
               /\ receipt'[d].audit \in 0..Len(audits')
    BY <1>0, <2>1, <2>2, <2>3 DEF ClientTypes
  <2> QED BY <2>1, <2>4, <2>5 DEF ClientTypes
<1>11. CASE CommitConflict(c)
  BY <1>2, <1>11, ClosingTypes DEF CommitConflict
<1>12. CASE Respond(c)
  <2>1. s.row.revision + 1 \in 0..Len(audits)
    BY <1>0, <1>1, <1>12 DEF Respond, ClientTypes
  <2>2. \A state : Answer("ok", s.req, s.row.revision + 1, state).audit \in 0..Len(audits)
    BY <2>1 DEF Answer
  <2>3. UNCHANGED ledgerVars /\ \E state : Close(c, Answer("ok", s.req, s.row.revision + 1, state))
    BY <1>12 DEF Respond
  <2> HIDE DEF s
  <2> QED BY <2>2, <2>3, ClosingTypes
<1>13. CASE Abandon(c)
  BY <1>2, <1>13, ClosingTypes DEF Abandon, NoAnswer
<1> QED BY <1>3, <1>4, <1>5, <1>6, <1>7, <1>8, <1>9, <1>10, <1>11, <1>12, <1>13
        DEF SessionStep

LEMMA ClientTypesAlways == StoreSpec => []ClientTypes
<1>1. StoreInit => ClientTypes
  BY StoreConstants DEF StoreInit, ClientTypes, Closed, Unused, NoAnswer, Refusal, Answer, Init
<1>2. StoreInv /\ ClientTypes /\ [StoreNext]_storeVars => ClientTypes'
  <2>1. CASE UNCHANGED storeVars
    BY <2>1 DEF storeVars, ClientTypes
  <2> QED BY <2>1, ClientTypesStep DEF StoreNext
<1> QED BY <1>1, <1>2, StoreInvAlways, PTL DEF StoreSpec

\* For every number of callers: what sessions read and what callers were told
\* names audits that exist.
THEOREM StoreTypes == StoreSpec => []StoreTypeOK
<1>1. StoreInv /\ ClientTypes => StoreTypeOK
  <2> SUFFICES ASSUME StoreInv, ClientTypes PROVE StoreTypeOK
    OBVIOUS
  <2>1. current.revision = Len(audits)
    BY DEF StoreInv, TypeInv
  <2> QED BY <2>1 DEF StoreInv, SessionInv, Session, ClientTypes, StoreTypeOK
<1> QED BY <1>1, StoreInvAlways, ClientTypesAlways, PTL

-----------------------------------------------------------------------------
(* Requests take effect once *)

\* The ids of an exact replay: the same content means the same identity,
\* whichever of the two requests came first.
LEMMA ContentMeansIdentity ==
    ASSUME NEW a \in Request, NEW b \in Request, SameContent(a, b)
    PROVE  SameIdentity(a, b) /\ SameIdentity(b, a)
<1>1. CASE a.kind = "decision"
  <2>1. a.kind = b.kind /\ a = [b EXCEPT !.revision = a.revision]
    BY <1>1 DEF SameContent, SameIdentity
  <2>2. a \in DecisionRequest /\ b \in DecisionRequest
    BY <1>1, <2>1, RequestFields
  <2>3. b = [a EXCEPT !.revision = b.revision]
    BY <2>1, <2>2 DEF DecisionRequest
  <2> QED BY <1>1, <2>1, <2>3 DEF SameIdentity
<1>2. CASE a.kind # "decision"
  <2>1. a = b
    BY <1>2 DEF SameContent
  <2> QED BY <1>2, <2>1 DEF SameIdentity
<1> QED BY <1>1, <1>2

\* A request has its own content.
LEMMA OwnContent == ASSUME NEW a \in Request PROVE SameContent(a, a)
<1>1. CASE a.kind = "decision"
  <2>1. a \in DecisionRequest
    BY <1>1, RequestFields
  <2>2. a = [a EXCEPT !.revision = a.revision]
    BY <2>1 DEF DecisionRequest
  <2> QED BY <1>1, <2>2 DEF SameContent, SameIdentity
<1> QED BY <1>1 DEF SameContent

LEMMA NoRequestTwiceStep ==
    ASSUME TypeInv, NoRequestTwice, Next
    PROVE  NoRequestTwice'
<1>1. PICK req \in Request :
          /\ Apply(req)
          /\ DOMAIN audits' = 1..(Len(audits) + 1)
          /\ DOMAIN audits = 1..Len(audits)
          /\ \A i \in 1..Len(audits) : audits'[i] = audits[i]
          /\ audits'[Len(audits) + 1] = AuditOf(req, current)
  BY StepAppends
<1> DEFINE n == Len(audits) + 1
<1>2. /\ audits'[n].req = req
      /\ ~IsKnown(req, audits)
  BY <1>1 DEF AuditOf, Apply
<1>3. Len(audits) \in Nat /\ \A i \in 1..Len(audits) : audits[i].req \in Request
  <2>1. Len(audits) \in Nat /\ \A i \in 1..Len(audits) : audits[i] \in Audit
    BY ElementOfSeq DEF TypeInv, Row
  <2> QED BY <2>1 DEF Audit
<1>4. \A i \in 1..Len(audits) : /\ ~SameContent(audits[i].req, req)
                                /\ ~SameContent(req, audits[i].req)
  BY <1>1, <1>2, <1>3, ContentMeansIdentity DEF IsKnown
<1>5. ASSUME NEW i \in 1..n, NEW j \in 1..n, i # j
      PROVE  ~SameContent(audits'[i].req, audits'[j].req)
  <2>1. CASE i = n
    <3>1. j \in 1..Len(audits)
      BY <1>3, <1>5, <2>1
    <3> QED BY <1>1, <1>2, <1>4, <2>1, <3>1
  <2>2. CASE j = n
    <3>1. i \in 1..Len(audits)
      BY <1>3, <1>5, <2>2
    <3> QED BY <1>1, <1>2, <1>4, <2>2, <3>1
  <2>3. CASE i # n /\ j # n
    <3>1. i \in 1..Len(audits) /\ j \in 1..Len(audits)
      BY <1>3, <1>5, <2>3
    <3> QED BY <1>1, <1>5, <3>1 DEF NoRequestTwice
  <2> QED BY <2>1, <2>2, <2>3
<1> QED BY <1>1, <1>5 DEF NoRequestTwice

\* For every number of callers: no request takes effect twice, whether callers
\* race with it or one of them sends it again after a lost reply.
THEOREM RequestsTakeEffectOnce == StoreSpec => []NoRequestTwice
<1>1. Init => NoRequestTwice
  BY DEF Init, NoRequestTwice
<1>2. TypeInv /\ NoRequestTwice /\ [Next]_ledgerVars => NoRequestTwice'
  <2>1. CASE UNCHANGED ledgerVars
    BY <2>1 DEF ledgerVars, NoRequestTwice
  <2> QED BY <2>1, NoRequestTwiceStep
<1>3. Spec => []NoRequestTwice
  BY <1>1, <1>2, TypesAlways, PTL DEF Spec
<1> QED BY <1>3, StoreImplementsLedger, PTL DEF ImplementsLedger

-----------------------------------------------------------------------------
(* Answers name audits that stand *)

\* A session that has committed knows the audit its request became.
CommittedIsRecorded ==
    \A c \in Clients :
        session[c].pc = "committed" =>
            /\ session[c].row.revision + 1 \in DOMAIN audits
            /\ audits[session[c].row.revision + 1].req = session[c].req

Stands(answer) ==
    answer.result \in {"ok", "replay"} =>
        /\ answer.audit \in DOMAIN audits
        /\ SameContent(audits[answer.audit].req, answer.req)
        /\ answer.result = "replay" => answer.state = audits[answer.audit].state

LEMMA RefusalsStand == \A result : result \notin {"ok", "replay"} => Stands(Refusal(result))
BY DEF Refusal, Answer, Stands

LEMMA CommittedStep ==
    ASSUME StoreInv, CommittedIsRecorded, NEW c \in Clients, SessionStep(c)
    PROVE  CommittedIsRecorded'
<1>0. /\ Len(audits) \in Nat /\ DOMAIN audits = 1..Len(audits)
      /\ current.revision = Len(audits) /\ audits \in Seq(Audit)
  BY LenProperties DEF StoreInv, TypeInv
<1>1. CASE ~Commit(c)
  <2>1. audits' = audits
    BY <1>1, OtherStepsStutter DEF ledgerVars
  <2>2. PICK s : s.pc # "committed" /\ session' = [session EXCEPT ![c] = s]
    <3>1. session[c] \in Session
      BY DEF StoreInv
    <3>2. CASE Submit(c)
      <4>1. PICK req : session' = [session EXCEPT ![c] = [Closed EXCEPT !.pc = "sent",
                                                                       !.req = req]]
        BY <3>2 DEF Submit
      <4>2. [Closed EXCEPT !.pc = "sent", !.req = req].pc = "sent"
        BY DEF Closed
      <4> QED BY <4>1, <4>2
    <3>3. CASE ReadCurrentRow(c)
      BY <3>1, <3>3 DEF ReadCurrentRow, Step, Session
    <3>4. CASE \E answer : Close(c, answer)
      BY <3>4 DEF Close, Closed
    <3>5. CASE ReadAudits(c)
      BY <3>1, <3>4, <3>5 DEF ReadAudits, Step, Session
    <3>6. CASE ReadSpecializedRows(c)
      BY <3>1, <3>4, <3>6 DEF ReadSpecializedRows, Step, Session
    <3>7. CASE Guard(c)
      BY <3>1, <3>4, <3>7 DEF Guard, Step, Session
    <3>8. CASE NotInitialized(c) \/ FindReplay(c) \/ CommitConflict(c) \/ Respond(c)
               \/ Abandon(c)
      BY <3>4, <3>8 DEF NotInitialized, FindReplay, CommitConflict, Respond, Abandon
    <3> QED BY <1>1, <3>2, <3>3, <3>5, <3>6, <3>7, <3>8 DEF SessionStep
  <2> QED BY <2>1, <2>2 DEF CommittedIsRecorded, StoreInv
<1>2. CASE Commit(c)
  <2>1. /\ session' = [session EXCEPT ![c] = [session[c] EXCEPT !.pc = "committed"]]
        /\ audits' = Append(audits, AuditOf(session[c].req, session[c].row))
    BY <1>2 DEF Commit, Step
  <2>2. session[c].row = current
    BY <1>2, CasMeansFresh DEF Commit, StoreInv
  <2>3. /\ DOMAIN audits' = 1..(Len(audits) + 1)
        /\ \A i \in 1..Len(audits) : audits'[i] = audits[i]
        /\ audits'[Len(audits) + 1] = AuditOf(session[c].req, session[c].row)
    BY <1>0, <2>1
  <2>4. ASSUME NEW d \in Clients, session'[d].pc = "committed"
        PROVE  /\ session'[d].row.revision + 1 \in DOMAIN audits'
               /\ audits'[session'[d].row.revision + 1].req = session'[d].req
    <3>1. CASE d = c
      <4>1. session'[d].row = current /\ session'[d].req = session[c].req
        BY <2>1, <2>2, <3>1 DEF StoreInv, Session
      <4> QED BY <1>0, <2>3, <4>1 DEF AuditOf
    <3>2. CASE d # c
      <4>1. session'[d] = session[d]
        BY <2>1, <3>2 DEF StoreInv
      <4> QED BY <1>0, <2>3, <2>4, <4>1 DEF CommittedIsRecorded
    <3> QED BY <3>1, <3>2
  <2> QED BY <2>4 DEF CommittedIsRecorded
<1> QED BY <1>1, <1>2

LEMMA AnswersStep ==
    ASSUME StoreInv, ClientTypes, CommittedIsRecorded, AnswersStandInTheLedger,
           NEW c \in Clients, SessionStep(c)
    PROVE  AnswersStandInTheLedger'
<1>0. /\ Len(audits) \in Nat /\ DOMAIN audits = 1..Len(audits) /\ audits \in Seq(Audit)
      /\ \A i \in DOMAIN audits : audits[i].req \in Request
  <2>1. /\ Len(audits) \in Nat /\ DOMAIN audits = 1..Len(audits) /\ audits \in Seq(Audit)
        /\ \A i \in 1..Len(audits) : audits[i] \in Audit
    BY LenProperties, ElementOfSeq DEF StoreInv, TypeInv
  <2> QED BY <2>1 DEF Audit
<1>1. \A d \in Clients : Stands(receipt[d])
  BY DEF AnswersStandInTheLedger, Stands
<1> SUFFICES \A d \in Clients : Stands(receipt[d])'
  BY DEF AnswersStandInTheLedger, Stands
<1>2. CASE Commit(c)
  <2>1. /\ receipt' = receipt
        /\ audits' = Append(audits, AuditOf(session[c].req, session[c].row))
    BY <1>2 DEF Commit, Step
  <2>2. /\ DOMAIN audits' = 1..(Len(audits) + 1)
        /\ \A i \in DOMAIN audits : i \in DOMAIN audits' /\ audits'[i] = audits[i]
    BY <1>0, <2>1
  <2> QED BY <1>1, <2>1, <2>2 DEF Stands
<1>3. CASE ~Commit(c)
  <2>1. audits' = audits
    BY <1>3, OtherStepsStutter DEF ledgerVars
  <2>2. CASE receipt' = receipt
    BY <1>1, <2>1, <2>2 DEF Stands
  <2>3. ASSUME NEW answer, Stands(answer), receipt' = [receipt EXCEPT ![c] = answer]
        PROVE  \A d \in Clients : Stands(receipt[d])'
    <3>1. \A d \in Clients : Stands(receipt'[d])
      BY <1>1, <2>3 DEF ClientTypes
    <3> QED BY <2>1, <3>1 DEF Stands
  <2>4. CASE \E result : result \notin {"ok", "replay"} /\ Close(c, Refusal(result))
    BY <2>3, <2>4, RefusalsStand DEF Close
  <2>5. CASE Submit(c)
    BY <2>3, <2>5, RefusalsStand DEF Submit, NoAnswer
  <2>6. CASE ReadCurrentRow(c) \/ ReadAudits(c) \/ ReadSpecializedRows(c) \/ Guard(c)
    BY <2>2, <2>4, <2>6 DEF ReadCurrentRow, ReadAudits, ReadSpecializedRows, Guard, Step
  <2>7. CASE NotInitialized(c) \/ CommitConflict(c) \/ Abandon(c)
    BY <2>4, <2>7 DEF NotInitialized, CommitConflict, Abandon, NoAnswer
  <2>8. CASE FindReplay(c)
    <3>1. PICK i \in DOMAIN audits :
              Close(c, IF SameContent(audits[i].req, session[c].req)
                       THEN Answer("replay", session[c].req, i, audits[i].state)
                       ELSE Refusal("conflict"))
      BY <2>8 DEF FindReplay
    <3>2. CASE ~SameContent(audits[i].req, session[c].req)
      BY <2>4, <3>1, <3>2
    <3>3. CASE SameContent(audits[i].req, session[c].req)
      <4>1. Stands(Answer("replay", session[c].req, i, audits[i].state))
        BY <3>3 DEF Stands, Answer
      <4> QED BY <2>3, <3>1, <3>3, <4>1 DEF Close
    <3> QED BY <3>2, <3>3
  <2>9. CASE Respond(c)
    <3>1. /\ session[c].row.revision + 1 \in DOMAIN audits
          /\ audits[session[c].row.revision + 1].req = session[c].req
      BY <2>9 DEF Respond, CommittedIsRecorded
    <3>2. SameContent(session[c].req, session[c].req)
      BY <1>0, <3>1, OwnContent
    <3>3. \A state : Stands(Answer("ok", session[c].req, session[c].row.revision + 1, state))
      BY <3>1, <3>2 DEF Stands, Answer
    <3>4. \E state : Close(c, Answer("ok", session[c].req, session[c].row.revision + 1, state))
      BY <2>9 DEF Respond
    <3> QED BY <2>3, <3>3, <3>4 DEF Close
  <2> QED BY <1>3, <2>5, <2>6, <2>7, <2>8, <2>9 DEF SessionStep
<1> QED BY <1>2, <1>3

\* For every number of callers: an answer names an audit that is in the ledger
\* for good and holds the caller's request, and a replay is told what it holds.
THEOREM AnswersStand == StoreSpec => []AnswersStandInTheLedger
<1>1. StoreInit => CommittedIsRecorded /\ AnswersStandInTheLedger
  BY DEF StoreInit, CommittedIsRecorded, AnswersStandInTheLedger, Closed, NoAnswer,
         Refusal, Answer
<1>2. /\ StoreInv /\ ClientTypes /\ CommittedIsRecorded /\ AnswersStandInTheLedger
      /\ [StoreNext]_storeVars
      => CommittedIsRecorded' /\ AnswersStandInTheLedger'
  <2>1. CASE UNCHANGED storeVars
    BY <2>1 DEF storeVars, CommittedIsRecorded, AnswersStandInTheLedger
  <2> QED BY <2>1, CommittedStep, AnswersStep DEF StoreNext
<1> QED BY <1>1, <1>2, StoreInvAlways, ClientTypesAlways, PTL DEF StoreSpec

\* What the ledger promises, the concurrent store keeps.
THEOREM StoreKeepsTheChain == StoreSpec => []DecisionsFormOneChain
BY StoreImplementsLedger, DecisionsAreOneChain, PTL DEF ImplementsLedger

THEOREM StoreEarnsLockReleases == StoreSpec => []LockReleaseIsEarned
BY StoreImplementsLedger, LockReleasesAreEarned, PTL DEF ImplementsLedger
=============================================================================
