------------------------- MODULE ShadowObservation -------------------------
(***************************************************************************)
(* The append-only ledger of shadow observations                           *)
(* (app/research/index_shadow_observation.py, index_shadow_execution.py).  *)
(*                                                                         *)
(* A run asks the exchange for the snapshot of two products, keeps the two *)
(* answers as raw files of their market day, and writes the day's record,  *)
(* which names its predecessor and the hashes of the raw files.  It may be *)
(* killed between any two files and started again, when the exchange may   *)
(* answer with a later snapshot of the same day.  Weekly runs name their   *)
(* day; the runs for the two boundaries of a year take it from the answer. *)
(* One process writes the ledger at a time, as the deployment has it       *)
(* (docs/research/index-shadow-cloud-continuity-v1.md).                    *)
(***************************************************************************)
EXTENDS StagingFiles, Naturals, FiniteSets

CONSTANTS
    Closes,         \* the market days after the initialization are 1..Closes
    Fridays,        \* those that are Fridays
    FinalWeek,      \* ... from 24 to 31 December
    FirstTen,       \* ... from 1 to 10 January
    YearOf,         \* per market day its year
    SnapshotTimes   \* times of the snapshots the exchange shows after a close

MarketDays == 1..Closes
Boundaries == {"year_end", "year_start"}
Roles == {"equity", "defensive"}

ASSUME ShadowCalendar ==
    /\ Closes \in Nat
    /\ Fridays \cup FinalWeek \cup FirstTen \subseteq MarketDays
    /\ YearOf \in [MarketDays -> Nat]

VARIABLES
    shown,          \* the day whose closing snapshot the exchange shows, 0 before the first
    rawQuotes,      \* data/raw/...: per day and role the snapshot kept
    records,        \* data/shadow/.../observations: per day its record
    observer,       \* the run
    shadowKills

shadowVars == <<shown, rawQuotes, records, observer, shadowKills>>

AtRest == [pc |-> "off", day |-> 0, reason |-> "weekly", at |-> 0]

-----------------------------------------------------------------------------
(* Records: identity by content, so a record's hash is the record *)

\* The report the chain starts from (verify_index_shadow_initialization_report).
Initialization == [day |-> 0, sequence |-> 0]

Recorded == {d \in MarketDays : records[d] # Missing}
LastBefore(day) ==
    LET earlier == {d \in Recorded : d < day}
    IN  IF earlier = {} THEN Initialization
        ELSE records[CHOOSE d \in earlier : \A e \in earlier : e <= d]
Newest == LastBefore(Closes + 1)

\* _validate_record_date
ValidRecordDate(day, reason) ==
    day \in CASE reason = "weekly" -> Fridays
              [] reason = "year_end" -> FinalWeek
              [] reason = "year_start" -> FirstTen

\* build_index_shadow_observation: legs and weights are functions of the files.
RecordOf(day, reason, previous) ==
    [day |-> day, sequence |-> previous.sequence + 1, previous |-> previous, reason |-> reason,
     quotes |-> rawQuotes[day]]

\* verify_index_shadow_observation_chain, one record: its place in the chain,
\* its date, and that it can be built again from the files it names.
Verifies(day) ==
    LET record == records[day] IN
    /\ record.sequence = Cardinality({d \in Recorded : d <= day})
    /\ record.previous = LastBefore(day)
    /\ ValidRecordDate(day, record.reason)
    /\ \A role \in Roles : rawQuotes[day][role] # Missing
    /\ rawQuotes[day]["equity"] = rawQuotes[day]["defensive"]
    /\ record = RecordOf(day, record.reason, record.previous)

ChainVerifies == \A day \in Recorded : Verifies(day)

-----------------------------------------------------------------------------
(* collect_index_shadow_observation *)

\* The checks before the files: the chain, the day after its tail, the date.  An
\* answer whose two times differ, or of another day, ends the run here.
Collect(reason, at) ==
    /\ ChainVerifies
    /\ shown > Newest.day
    /\ ValidRecordDate(shown, reason)
    /\ observer' = [pc |-> "equity", day |-> shown, reason |-> reason, at |-> at]

CollectWeekly ==
    /\ observer.pc = "off"
    /\ \E at \in SnapshotTimes : Collect("weekly", at)
    /\ UNCHANGED <<shown, rawQuotes, records, shadowKills>>

\* Plausible bug: only the tail is asked whether it is the boundary's record.
TailClaims(year, reason) == Newest.day > 0 /\ YearOf[Newest.day] = year /\ Newest.reason = reason
Claims(year, reason) == \E d \in Recorded : YearOf[d] = year /\ records[d].reason = reason

\* collect_index_shadow_year_boundary_observation
CollectBoundary(reason) ==
    /\ observer.pc = "off"
    /\ shown > 0
    /\ ~Claims(YearOf[shown], reason)
    /\ \E at \in SnapshotTimes : Collect(reason, at)
    /\ UNCHANGED <<shown, rawQuotes, records, shadowKills>>

\* A run for the day of the tail returns its record.
ReturnRecorded ==
    /\ observer.pc = "off"
    /\ ChainVerifies
    /\ shown > 0 /\ shown = Newest.day
    /\ UNCHANGED shadowVars

AfterQuote == [equity |-> "defensive", defensive |-> "recording"]

\* A file of an earlier run must be the answer of this one; otherwise the run,
\* and every later one that gets another answer, is refused.
KeepQuote(role) ==
    LET kept == rawQuotes[observer.day][role] IN
    /\ observer.pc = role
    /\ \/ /\ kept = Missing
          /\ rawQuotes' = [rawQuotes EXCEPT ![observer.day][role] = observer.at]
          /\ observer' = [observer EXCEPT !.pc = AfterQuote[role]]
       \/ /\ kept = observer.at
          /\ observer' = [observer EXCEPT !.pc = AfterQuote[role]]
          /\ UNCHANGED rawQuotes
       \/ /\ kept \notin {Missing, observer.at}
          /\ observer' = AtRest
          /\ UNCHANGED rawQuotes
    /\ UNCHANGED <<shown, records, shadowKills>>

\* The record is built from the files; nothing is written over, and the chain
\* is verified once more.
WriteRecord ==
    LET record == RecordOf(observer.day, observer.reason, Newest) IN
    /\ observer.pc = "recording"
    /\ records' = IF records[observer.day] = Missing
                  THEN [records EXCEPT ![observer.day] = record] ELSE records
    /\ observer' = AtRest
    /\ UNCHANGED <<shown, rawQuotes, shadowKills>>

ObserverKilled ==
    /\ observer.pc # "off"
    /\ shadowKills < MaxKills
    /\ shadowKills' = shadowKills + 1
    /\ observer' = AtRest
    /\ UNCHANGED <<shown, rawQuotes, records>>

\* The exchange shows the next closing snapshot.
MarketCloses ==
    /\ shown < Closes
    /\ shown' = shown + 1
    /\ UNCHANGED <<rawQuotes, records, observer, shadowKills>>

ShadowInit ==
    /\ shown = 0
    /\ rawQuotes = [d \in MarketDays |-> [role \in Roles |-> Missing]]
    /\ records = [d \in MarketDays |-> Missing]
    /\ observer = AtRest
    /\ shadowKills = 0

ShadowNext ==
    \/ CollectWeekly
    \/ \E reason \in Boundaries : CollectBoundary(reason)
    \/ ReturnRecorded
    \/ \E role \in Roles : KeepQuote(role)
    \/ WriteRecord
    \/ ObserverKilled
    \/ MarketCloses

-----------------------------------------------------------------------------
(* Properties *)

\* The types of the files, and what a run has when it comes to the record.
ShadowTypeOK ==
    /\ shown \in 0..Closes
    /\ rawQuotes \in [MarketDays -> [Roles -> SnapshotTimes \cup {Missing}]]
    /\ \A d \in Recorded : records[d].day = d
    /\ observer.pc \in {"off", "recording"} \cup Roles
    /\ observer.pc # "off" => observer.day \in 1..shown /\ records[observer.day] = Missing
    /\ observer.pc = "recording" => \A role \in Roles : rawQuotes[observer.day][role] = observer.at

\* The records are an append-only log: a record once written is never changed,
\* and later ones are of later days (append_only_policy of the plan).
RecordsInOrder ==
    [n \in 1..Cardinality(Recorded) |-> CHOOSE r \in {records[d] : d \in Recorded} : r.sequence = n]
Log == INSTANCE AppendOnlyLog WITH log <- RecordsInOrder
RefinesLog == Log!Spec

\* Runs for the boundaries of a year, repeated on any days of its windows and
\* killed anywhere, leave at most one record that claims the boundary: a second
\* would refuse that boundary's runs for ever.
OneRecordPerBoundary ==
    \A d, e \in Recorded :
        /\ YearOf[d] = YearOf[e]
        /\ records[d].reason = records[e].reason
        /\ records[d].reason \in Boundaries
        => d = e
=============================================================================
