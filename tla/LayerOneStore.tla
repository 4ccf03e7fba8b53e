---------------------------- MODULE LayerOneStore ----------------------------
(***************************************************************************)
(* LayerOneRiskStateStore (app/research/layer_one_persistence.py) as it    *)
(* runs: several callers (API requests, the CLI) work on the same database *)
(* at once, each in a SQLAlchemy session of its own.  The engine of        *)
(* app/persistence/db.py leaves the isolation level alone, so that on      *)
(* SQLite every SELECT sees the rows committed when it runs and the        *)
(* transaction opens at the first write.  A session therefore              *)
(*    1. reads the row of the current state,                               *)
(*    2. reads the audits, and checks the row against their tail,          *)
(*    3. reads the specialized rows, and checks them one to one against    *)
(*       the audits,                                                       *)
(*    4. looks its request up for an idempotent replay, and otherwise      *)
(*       applies the guards of the operation to what it has read,          *)
(*    5. writes everything in one transaction whose UPDATE of the current  *)
(*       row compares and swaps, and                                       *)
(*    6. builds its receipt after the commit.                              *)
(* Other sessions run between any two of these steps, and a session may be *)
(* abandoned at any of them: the process stops, the database stays locked, *)
(* or the reply is lost, so that its caller never learns the outcome and   *)
(* sends the same request again.                                           *)
(***************************************************************************)
EXTENDS LayerOneLedger

CONSTANTS
    Clients,        \* concurrent callers of the store
    Attempts        \* bound on the sessions the callers open in all

ASSUME StoreConstants == Attempts \in Nat

VARIABLES
    session,        \* per client: the step its session has done, and what it read
    receipt,        \* per client: the answer of its last session
    opened          \* sessions opened so far

storeVars == <<current, audits, consumedBy, session, receipt, opened>>
clientVars == <<session, receipt, opened>>

-----------------------------------------------------------------------------
(* Sessions and answers *)

NoRequest == [kind |-> "none"]
Unused == [id \in UnlockIds |-> 0]
Closed == [pc |-> "closed", req |-> NoRequest, row |-> NoRow, used |-> Unused]

Answer(result, req, audit, state) ==
    [result |-> result, req |-> req, audit |-> audit, state |-> state]
Refusal(result) == Answer(result, NoRequest, 0, InitialState)
NoAnswer == Refusal("none")

Close(c, answer) ==
    /\ session' = [session EXCEPT ![c] = Closed]
    /\ receipt' = [receipt EXCEPT ![c] = answer]
    /\ UNCHANGED opened

Step(c, read) ==
    /\ session' = [session EXCEPT ![c] = read]
    /\ UNCHANGED <<receipt, opened>>

-----------------------------------------------------------------------------
(* What a session compares *)

\* The specialized rows are one to one with the audits read before them, and
\* the rows pass verify_storage_integrity.
RowsVerify(row) ==
    /\ Entries(audits, {"initialize", "evidence", "ceiling", "unlock"}) \subseteq 1..row.revision
    /\ Integrity(row, SubSeq(audits, 1, row.revision), consumedBy)

\* initialize looks at the row it has read, the other operations query the
\* committed rows again.
FindsIdentity(s) ==
    IF s.req.kind = "initialize" THEN s.row.revision > 0 ELSE IsKnown(s.req, audits)

SameContent(a, b) ==
    IF a.kind = "decision" THEN SameIdentity(a, b) ELSE a = b

\* Plausible bug: the UPDATE compares the state id alone, and nothing keeps two
\* audits from one sequence number.
StateIdMatches(row) == row.state = current.state

\* The unique (stream, sequence_no) and the WHERE clause of _cas_update_current.
CasHolds(row) ==
    /\ row.revision + 1 \notin DOMAIN audits
    /\ row.revision = current.revision
    /\ row.state = current.state

\* The unique keys of the rows: the primary key of the stream, request_digest
\* of evidence, request_id of ceilings and unlock requests; decisions have none.
KeyTaken(req) == req.kind # "decision" /\ IsKnown(req, audits)

-----------------------------------------------------------------------------
(* The steps of a session *)

StoreInit ==
    /\ Init
    /\ session = [c \in Clients |-> Closed]
    /\ receipt = [c \in Clients |-> NoAnswer]
    /\ opened = 0

\* A caller sends a request it built from the rows committed by now, or sends
\* again one that was committed before.
Submit(c) ==
    /\ session[c].pc = "closed"
    /\ opened < Attempts
    /\ \E req \in RequestsAgainst(current) \cup {audits[i].req : i \in DOMAIN audits} :
          session' = [session EXCEPT ![c] = [Closed EXCEPT !.pc = "sent", !.req = req]]
    /\ receipt' = [receipt EXCEPT ![c] = NoAnswer]
    /\ opened' = opened + 1
    /\ UNCHANGED ledgerVars

ReadCurrentRow(c) ==
    /\ session[c].pc = "sent"
    /\ Step(c, [session[c] EXCEPT !.pc = "row", !.row = current])
    /\ UNCHANGED ledgerVars

\* A commit since the row was read makes the tail differ from it, which the
\* verifier cannot tell from a broken store.
ReadAudits(c) ==
    /\ session[c].pc = "row"
    /\ IF session[c].row.revision = Len(audits)
       THEN Step(c, [session[c] EXCEPT !.pc = "audits"])
       ELSE Close(c, Refusal("integrity"))
    /\ UNCHANGED ledgerVars

ReadSpecializedRows(c) ==
    /\ session[c].pc = "audits"
    /\ IF RowsVerify(session[c].row)
       THEN Step(c, [session[c] EXCEPT !.pc = "verified", !.used = consumedBy])
       ELSE Close(c, Refusal("integrity"))
    /\ UNCHANGED ledgerVars

NotInitialized(c) ==
    /\ session[c].pc = "verified"
    /\ session[c].req.kind # "initialize" /\ session[c].row.revision = 0
    /\ Close(c, Refusal("uninitialized"))
    /\ UNCHANGED ledgerVars

\* Plausible bug: an exact replay answers with the state of today.
FindReplayOfToday(c) ==
    LET req == session[c].req
    IN  /\ session[c].pc = "verified"
        /\ req.kind = "initialize" \/ session[c].row.revision > 0
        /\ FindsIdentity(session[c])
        /\ \E i \in DOMAIN audits :
              /\ SameIdentity(audits[i].req, req)
              /\ Close(c, IF SameContent(audits[i].req, req)
                          THEN Answer("replay", req, i, current.state)
                          ELSE Refusal("conflict"))
        /\ UNCHANGED ledgerVars

\* An exact replay answers with what the first run recorded; the same identity
\* with other content is a conflict.
FindReplay(c) ==
    LET req == session[c].req
    IN  /\ session[c].pc = "verified"
        /\ req.kind = "initialize" \/ session[c].row.revision > 0
        /\ FindsIdentity(session[c])
        /\ \E i \in DOMAIN audits :
              /\ SameIdentity(audits[i].req, req)
              /\ Close(c, IF SameContent(audits[i].req, req)
                          THEN Answer("replay", req, i, audits[i].state)
                          ELSE Refusal("conflict"))
        /\ UNCHANGED ledgerVars

Guard(c) ==
    LET s == session[c]
    IN  /\ s.pc = "verified"
        /\ s.req.kind = "initialize" \/ s.row.revision > 0
        /\ ~FindsIdentity(s)
        /\ IF Accepted(s.req, s.row, audits, s.used)
           THEN Step(c, [s EXCEPT !.pc = "guarded"])
           ELSE Close(c, Refusal("rejected"))
        /\ UNCHANGED ledgerVars

\* INSERT of the audit and its row, UPDATE of a quoted unlock row by its key,
\* and the compare-and-swap of the current row, in one transaction.
Commit(c) ==
    LET s == session[c]
    IN  /\ s.pc = "guarded"
        /\ CasHolds(s.row) /\ ~KeyTaken(s.req) /\ WithinQuota(s.req)
        /\ current' = RowAfter(s.req, s.row)
        /\ audits' = Append(audits, AuditOf(s.req, s.row))
        /\ consumedBy' = ConsumedAfter(s.req, s.row, consumedBy)
        /\ Step(c, [s EXCEPT !.pc = "committed"])

\* IntegrityError of a unique constraint, or an UPDATE of no row: rolled back.
CommitConflict(c) ==
    LET s == session[c]
    IN  /\ s.pc = "guarded"
        /\ ~CasHolds(s.row) \/ KeyTaken(s.req)
        /\ Close(c, Refusal("conflict"))
        /\ UNCHANGED ledgerVars

\* The commit expired the objects of the session, so current.state_id in the
\* receipt of evidence, a ceiling or an unlock request is read again.
Respond(c) ==
    LET s == session[c]
    IN  /\ s.pc = "committed"
        /\ Close(c, Answer("ok", s.req, s.row.revision + 1,
                           IF s.req.kind \in {"evidence", "ceiling", "unlock"}
                           THEN current.state ELSE StateAfter(s.req, s.row)))
        /\ UNCHANGED ledgerVars

\* The process stops, the database stays locked, or the reply is lost: what is
\* not committed is gone, what is committed stays, the caller learns nothing.
Abandon(c) ==
    /\ session[c].pc # "closed"
    /\ Close(c, NoAnswer)
    /\ UNCHANGED ledgerVars

SessionStep(c) ==
    \/ Submit(c)
    \/ ReadCurrentRow(c)
    \/ ReadAudits(c)
    \/ ReadSpecializedRows(c)
    \/ NotInitialized(c)
    \/ FindReplay(c)
    \/ Guard(c)
    \/ Commit(c)
    \/ CommitConflict(c)
    \/ Respond(c)
    \/ Abandon(c)

StoreNext == \E c \in Clients : SessionStep(c)

StoreSpec == StoreInit /\ [][StoreNext]_storeVars

-----------------------------------------------------------------------------
(* Properties *)

\* Sessions have their types.
StoreTypeOK ==
    /\ \A c \in Clients :
          /\ session[c].pc \in {"closed", "sent", "row", "audits", "verified",
                               "guarded", "committed"}
          /\ session[c].row.revision \in 0..Len(audits)
          /\ session[c].used \in [UnlockIds -> 0..Len(audits)]
          /\ receipt[c].audit \in 0..Len(audits)
    /\ opened \in 0..Attempts

\* However sessions interleave and wherever they are abandoned, the rows change
\* as if each request that takes effect had run alone, at the instant of its
\* commit, against the row that is current then.
ImplementsLedger == Spec

\* No request takes effect twice, whether it is sent by two callers at once or
\* again after a lost reply (replay lookups and unique constraints).
NoRequestTwice ==
    \A i, j \in DOMAIN audits : i # j => ~SameContent(audits[i].req, audits[j].req)

\* What a caller was told took effect is in the ledger, at the audit it was
\* told, for good; an exact replay is told the first run's audit and state.
AnswersStandInTheLedger ==
    \A c \in Clients :
        receipt[c].result \in {"ok", "replay"} =>
            /\ receipt[c].audit \in DOMAIN audits
            /\ SameContent(audits[receipt[c].audit].req, receipt[c].req)
            /\ receipt[c].result = "replay" =>
                    receipt[c].state = audits[receipt[c].audit].state

\* A session that has passed its guards and would pass its compare-and-swap
\* still satisfies those guards on the rows committed by then: what it checked
\* against rows it read earlier is not stale when it is used.
GuardsHoldAtCommit ==
    \A c \in Clients :
        LET s == session[c]
        IN  s.pc = "guarded" /\ CasHolds(s.row) =>
                s.row = current /\ Accepted(s.req, current, audits, consumedBy)

\* The first answer to a request carries the state the request resulted in, the
\* one every exact replay of it answers with.
FirstAnswerIsTheRecordedOne ==
    \A c \in Clients :
        receipt[c].result = "ok" => receipt[c].state = audits[receipt[c].audit].state
=============================================================================
