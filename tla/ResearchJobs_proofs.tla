------------------------- MODULE ResearchJobs_proofs -------------------------
(***************************************************************************)
(* The jobs of the research side, for any walk, answers of providers,      *)
(* calendar and number of kills.  The collection of the market and the     *)
(* replays have modules of their own; what is left is the ledger of shadow *)
(* observations, the negative list and the events, and then all of them.   *)
(*                                                                         *)
(* Observations (ShadowInv).  A run is for a day after all recorded ones,  *)
(* and for a boundary nobody has claimed; as nobody else records while it  *)
(* keeps its quotes, both still hold when it writes its record.  So what a *)
(* record was built from is never touched again, and the records are       *)
(* numbered 1 to n in the order of their days, which makes them a log.     *)
(*                                                                         *)
(* The negative list (NegativeInv).  A file is built from one answer that  *)
(* was accepted, whose rows it splits into its own, those set aside and    *)
(* those with a receipt; the rows counted along the walk are those of the  *)
(* partitions passed, so past its end they are all there are.              *)
(*                                                                         *)
(* Events (EventInv).  Caches of days only grow, and agree with each other *)
(* and with the days they were selected from; an audit is written when no  *)
(* day is left to cache, so it counts the files there will ever be; and    *)
(* the pages of a day are its first rows, all of them after a short page.  *)
(***************************************************************************)
EXTENDS ResearchJobs, AllMarketCollection_proofs, LayerOneHistory_proofs,
        FiniteSetTheorems, WellFoundedInduction, TLAPS

-----------------------------------------------------------------------------
(* The shadow observations *)

\* A file that is missing is told from the content of any file.
MissingIsNoQuote == Missing \notin SnapshotTimes
MissingIsNoRecord ==
    \A day, sequence, previous, reason, quotes :
        [day |-> day, sequence |-> sequence, previous |-> previous, reason |-> reason,
         quotes |-> quotes] # Missing

Reasons == {"weekly"} \cup Boundaries

ObservationRun ==
    [pc : {"off", "equity", "defensive", "recording"}, day : Nat, reason : Reasons,
     at : SnapshotTimes \cup {0}]

\* A run is for a day after all that are recorded, and for a boundary that no
\* record claims; the quotes it has kept are of the one snapshot it was shown.
RunInv ==
    /\ observer \in ObservationRun
    /\ observer.pc # "off" =>
         /\ observer.day \in 1..shown
         /\ observer.at \in SnapshotTimes
         /\ \A d \in Recorded : d < observer.day
         /\ ValidRecordDate(observer.day, observer.reason)
         /\ observer.reason \in Boundaries => ~Claims(YearOf[observer.day], observer.reason)
    /\ observer.pc \in {"defensive", "recording"} =>
         rawQuotes[observer.day]["equity"] = observer.at
    /\ observer.pc = "recording" => rawQuotes[observer.day]["defensive"] = observer.at

FilesInv ==
    /\ shown \in 0..Closes
    /\ rawQuotes \in [MarketDays -> [Roles -> SnapshotTimes \cup {Missing}]]
    /\ records = [d \in MarketDays |-> records[d]]
    /\ \A d \in Recorded : d <= shown /\ records[d].reason \in Reasons
    /\ ChainVerifies

ShadowInv == FilesInv /\ RunInv /\ OneRecordPerBoundary

\* A nonempty set of naturals has a smallest one.
LEMMA SmallestOfNaturals ==
  ASSUME NEW S \in SUBSET Nat, S # {}
  PROVE  \E n \in S : \A m \in S : n <= m
<1>1. PICK n \in S : \A m \in S : <<m, n>> \notin OpToRel(<, Nat)
  <2> HIDE DEF OpToRel
  <2> QED BY NatLessThanWellFounded, WFMin
<1>2. \A m \in S : ~(m < n) BY <1>1 DEF OpToRel
<1> QED BY <1>2

\* Of some days recorded one is the last.
LEMMA LastDayExists ==
  ASSUME NEW S \in SUBSET MarketDays, S # {}
  PROVE  \E n \in S : \A m \in S : m <= n
<1> DEFINE U == {j \in Nat : \A m \in S : m <= j}
<1> PICK s \in S : TRUE OBVIOUS
<1>0. s \in 1..Closes /\ Closes \in Nat BY ShadowCalendar DEF MarketDays
<1>1. Closes \in U BY ShadowCalendar DEF MarketDays
<1>2. PICK j \in U : \A i \in U : j <= i
  <2>1. U \in SUBSET Nat OBVIOUS
  <2> HIDE DEF U
  <2> QED BY <1>1, <2>1, SmallestOfNaturals
<1>3. j \in S
  <2>1. SUFFICES ASSUME j \notin S PROVE FALSE OBVIOUS
  <2>2. j \in Nat /\ j >= 1 BY <1>0, <1>2
  <2>3. \A m \in S : m \in Int /\ m <= j /\ m # j BY <1>2, <2>1, ShadowCalendar DEF MarketDays
  <2>4. j - 1 \in U BY <2>2, <2>3
  <2> QED BY <1>2, <2>2, <2>4
<1> QED BY <1>3

LastDay(S) == CHOOSE d \in S : \A e \in S : e <= d

\* The last of some days is one of them.
LEMMA LastDayIsIn ==
  ASSUME NEW S \in SUBSET MarketDays, S # {}
  PROVE  LastDay(S) \in S /\ \A e \in S : e <= LastDay(S)
BY LastDayExists DEF LastDay

\* The record before a day is that of the last day recorded before it.
LEMMA TailOf ==
  ASSUME NEW day
  PROVE  /\ LastBefore(day) = IF {d \in Recorded : d < day} = {} THEN Initialization
                               ELSE records[LastDay({d \in Recorded : d < day})]
         /\ LastBefore(day)' = IF {d \in Recorded' : d < day} = {} THEN Initialization
                                ELSE records'[LastDay({d \in Recorded' : d < day})]
BY DEF LastBefore, LastDay, Initialization

\* What is known of the records: finitely many, and a last one before any day.
LEMMA RecordedDays ==
  /\ Recorded \subseteq MarketDays /\ IsFiniteSet(Recorded)
  /\ \A d \in Recorded : d \in Nat /\ d >= 1 /\ d <= Closes
<1>1. Recorded \subseteq MarketDays BY DEF Recorded
<1>2. IsFiniteSet(MarketDays) BY FS_Interval, ShadowCalendar DEF MarketDays
<1>3. IsFiniteSet(Recorded) BY <1>1, <1>2, FS_Subset
<1> QED BY <1>1, <1>3, ShadowCalendar DEF MarketDays

\* The tail of the chain is the record of the last day.
LEMMA NewestIsLast ==
  ASSUME ChainVerifies
  PROVE  /\ Recorded = {} => Newest = Initialization
         /\ Recorded # {} => \E m \in Recorded :
               /\ \A d \in Recorded : d <= m
               /\ Newest = records[m] /\ Newest.day = m
               /\ Newest.sequence = Cardinality(Recorded)
<1> DEFINE earlier == {d \in Recorded : d < Closes + 1}
<1>1. earlier = Recorded BY RecordedDays, ShadowCalendar
<1>2. CASE Recorded = {} BY <1>1, <1>2 DEF Newest, LastBefore
<1>3. CASE Recorded # {}
  <2> DEFINE m == CHOOSE d \in Recorded : \A e \in Recorded : e <= d
  <2>1. m \in Recorded /\ \A e \in Recorded : e <= m BY <1>3, RecordedDays, LastDayExists
  <2>2. Newest = records[m] BY <1>1, <1>3 DEF Newest, LastBefore
  <2> HIDE DEF m
  <2>3. Verifies(m) BY <2>1 DEF ChainVerifies
  <2>4. records[m].day = m BY <2>3 DEF Verifies, RecordOf
  <2>5. {d \in Recorded : d <= m} = Recorded BY <2>1
  <2>6. records[m].sequence = Cardinality(Recorded) BY <2>3, <2>5 DEF Verifies
  <2> QED BY <1>3, <2>1, <2>2, <2>4, <2>6
<1> QED BY <1>2, <1>3

\* The next record of the chain has the number of days recorded with it.
LEMMA NextSequence ==
  ASSUME ChainVerifies PROVE Newest.sequence = Cardinality(Recorded)
<1>1. CASE Recorded = {} BY <1>1, NewestIsLast, FS_EmptySet DEF Initialization
<1>2. CASE Recorded # {} BY <1>2, NewestIsLast
<1> QED BY <1>1, <1>2

\* An empty ledger verifies, and nothing runs.
LEMMA ShadowInitInv == ShadowInit => ShadowInv
<1> SUFFICES ASSUME ShadowInit PROVE ShadowInv OBVIOUS
<1>1. records = [d \in MarketDays |-> Missing] /\ Recorded = {} BY DEF ShadowInit, Recorded
<1>2. 0 \in 0..Closes BY ShadowCalendar
<1>3. FilesInv BY <1>1, <1>2 DEF ShadowInit, FilesInv, ChainVerifies
<1>4. RunInv BY DEF ShadowInit, RunInv, AtRest, ObservationRun, Reasons
<1> QED BY <1>1, <1>3, <1>4 DEF ShadowInv, OneRecordPerBoundary

\* What holds of the records does not depend on the run and the clock.
LEMMA RecordsUnchanged ==
  ASSUME UNCHANGED <<rawQuotes, records>>
  PROVE  /\ Recorded' = Recorded
         /\ ChainVerifies' = ChainVerifies
         /\ OneRecordPerBoundary' = OneRecordPerBoundary
         /\ \A year, reason : Claims(year, reason)' = Claims(year, reason)
<1>1. Recorded' = Recorded BY DEF Recorded
<1>2. \A day : LastBefore(day)' = LastBefore(day) BY <1>1 DEF LastBefore
<1>3. \A day : Verifies(day)' = Verifies(day) BY <1>1, <1>2 DEF Verifies, RecordOf
<1> QED BY <1>1, <1>3 DEF ChainVerifies, OneRecordPerBoundary, Claims

\* A run begins on a day after the tail of the chain.
LEMMA ShadowCollect ==
  ASSUME ShadowInv, NEW reason \in Reasons, NEW at \in SnapshotTimes, Collect(reason, at),
         reason \in Boundaries => ~Claims(YearOf[shown], reason),
         UNCHANGED <<shown, rawQuotes, records>>
  PROVE  ShadowInv'
<1>1. FilesInv' BY RecordsUnchanged DEF ShadowInv, FilesInv
<1>2. \A d \in Recorded : d < shown
  <2> SUFFICES ASSUME NEW d \in Recorded PROVE d < shown OBVIOUS
  <2>1. PICK m \in Recorded : (\A e \in Recorded : e <= m) /\ Newest.day = m
    BY NewestIsLast DEF Collect
  <2>2. shown \in Int /\ m \in Int /\ d \in Int BY RecordedDays, ShadowCalendar DEF ShadowInv, FilesInv
  <2> QED BY <2>1, <2>2 DEF Collect
<1>3. shown \in 1..shown
  <2>1. Newest.day \in Nat
    <3>1. CASE Recorded = {} BY <3>1, NewestIsLast DEF Collect, Initialization
    <3>2. CASE Recorded # {} BY <3>2, NewestIsLast, RecordedDays DEF Collect
    <3> QED BY <3>1, <3>2
  <2> QED BY <2>1, ShadowCalendar DEF Collect, ShadowInv, FilesInv
<1>4. observer' = [pc |-> "equity", day |-> shown, reason |-> reason, at |-> at] BY DEF Collect
<1>5. ValidRecordDate(shown, reason) BY DEF Collect
<1>6. RunInv'
  <2>1. shown \in Nat BY ShadowCalendar DEF ShadowInv, FilesInv
  <2>2. observer' \in ObservationRun BY <1>4, <2>1 DEF ObservationRun
  <2>3. observer'.day = shown /\ observer'.reason = reason /\ observer'.at = at
        /\ observer'.pc = "equity" /\ shown' = shown
    BY <1>4
  <2>4. ValidRecordDate(observer'.day, observer'.reason) BY <1>5, <2>3
  <2>5. reason \in Boundaries => ~Claims(YearOf[shown], reason)' BY RecordsUnchanged
  <2> QED BY <1>2, <1>3, <2>2, <2>3, <2>4, <2>5, RecordsUnchanged DEF RunInv
<1> QED BY <1>1, <1>6, RecordsUnchanged DEF ShadowInv

\* A quote is kept for a day that has no record, so no record is about it.
LEMMA ShadowKeepQuote ==
  ASSUME MissingIsNoQuote, ShadowInv, NEW role \in Roles, KeepQuote(role)
  PROVE  ShadowInv'
<1> DEFINE day == observer.day
<1>1. /\ role \in {"equity", "defensive"} /\ observer.pc = role /\ observer.pc # "off"
      /\ shown' = shown /\ records' = records
  BY DEF KeepQuote, Roles
<1>2. /\ day \in 1..shown /\ day \in MarketDays /\ observer.at \in SnapshotTimes
      /\ day \notin Recorded
  BY <1>1, RecordedDays, ShadowCalendar DEF ShadowInv, RunInv, FilesInv, MarketDays
<1>3. /\ rawQuotes \in [MarketDays -> [Roles -> SnapshotTimes \cup {Missing}]]
      /\ observer \in ObservationRun
  BY DEF ShadowInv, FilesInv, RunInv
<1>4. \/ /\ rawQuotes' = rawQuotes /\ observer' = AtRest
      \/ /\ observer' = [observer EXCEPT !.pc = AfterQuote[role]]
         /\ \/ rawQuotes' = rawQuotes /\ rawQuotes[day][role] = observer.at
            \/ rawQuotes' = [rawQuotes EXCEPT ![day][role] = observer.at]
  BY DEF KeepQuote
<1>5. /\ rawQuotes' \in [MarketDays -> [Roles -> SnapshotTimes \cup {Missing}]]
      /\ \A d \in MarketDays \ {day} : rawQuotes'[d] = rawQuotes[d]
  <2>1. CASE rawQuotes' = rawQuotes BY <1>3, <2>1
  <2>2. CASE rawQuotes' = [rawQuotes EXCEPT ![day][role] = observer.at]
    BY <1>2, <1>3, <2>2
  <2> QED BY <1>4, <2>1, <2>2
<1>6. Recorded' = Recorded BY <1>1 DEF Recorded
<1>7. \A d \in Recorded : Verifies(d)' = Verifies(d)
  <2> SUFFICES ASSUME NEW d \in Recorded PROVE Verifies(d)' = Verifies(d) OBVIOUS
  <2>1. d \in MarketDays /\ d # day BY <1>2, RecordedDays
  <2>2. rawQuotes'[d] = rawQuotes[d] BY <1>5, <2>1
  <2>3. LastBefore(d)' = LastBefore(d) BY <1>1, <1>6 DEF LastBefore
  <2> QED BY <1>1, <1>6, <2>2, <2>3 DEF Verifies, RecordOf
<1>8. ChainVerifies' BY <1>6, <1>7 DEF ChainVerifies, ShadowInv, FilesInv
<1>9. FilesInv' BY <1>1, <1>5, <1>6, <1>8 DEF ShadowInv, FilesInv
<1>10. OneRecordPerBoundary' /\ (\A year, reason : Claims(year, reason)' = Claims(year, reason))
  BY <1>1, <1>6 DEF ShadowInv, OneRecordPerBoundary, Claims
<1>11. RunInv'
  <2>1. CASE observer' = AtRest BY <2>1 DEF RunInv, AtRest, ObservationRun, Reasons
  <2>2. CASE /\ observer' = [observer EXCEPT !.pc = AfterQuote[role]]
             /\ \/ rawQuotes' = rawQuotes /\ rawQuotes[day][role] = observer.at
                \/ rawQuotes' = [rawQuotes EXCEPT ![day][role] = observer.at]
    <3>1. AfterQuote[role] \in {"defensive", "recording"}
          /\ (role = "equity" => AfterQuote[role] = "defensive")
          /\ (role = "defensive" => AfterQuote[role] = "recording")
      BY <1>1 DEF AfterQuote
    <3>2. /\ observer' \in ObservationRun /\ observer'.pc = AfterQuote[role]
          /\ observer'.day = day /\ observer'.reason = observer.reason
          /\ observer'.at = observer.at
      BY <1>3, <2>2, <3>1 DEF ObservationRun
    <3>3. rawQuotes'[day][role] = observer.at
          /\ \A r \in Roles \ {role} : rawQuotes'[day][r] = rawQuotes[day][r]
      BY <1>2, <1>3, <2>2
    <3>4. role = "defensive" => rawQuotes[day]["equity"] = observer.at
      BY <1>1 DEF ShadowInv, RunInv
    <3>5. ValidRecordDate(observer'.day, observer'.reason)
          /\ (observer.reason \in Boundaries
                 => ~Claims(YearOf[observer.day], observer.reason))'
      BY <1>1, <1>6, <3>2 DEF ShadowInv, RunInv, Claims
    <3>6. \A d \in Recorded' : d < observer'.day
      BY <1>1, <1>6, <3>2 DEF ShadowInv, RunInv
    <3> HIDE DEF day
    <3>7. rawQuotes'[observer'.day]["equity"] = observer'.at
      BY <1>1, <3>2, <3>3, <3>4 DEF Roles
    <3>8. observer'.pc = "recording" => rawQuotes'[observer'.day]["defensive"] = observer'.at
      BY <1>1, <3>1, <3>2, <3>3
    <3> QED BY <1>1, <1>2, <3>1, <3>2, <3>5, <3>6, <3>7, <3>8 DEF RunInv
  <2> QED BY <1>4, <2>1, <2>2
<1> QED BY <1>9, <1>10, <1>11 DEF ShadowInv

\* A record is written for the last day of all, after the tail of the chain, of
\* two quotes of one snapshot; for a boundary it is the first.
LEMMA ShadowWriteRecord ==
  ASSUME MissingIsNoQuote, MissingIsNoRecord, ShadowInv, WriteRecord
  PROVE  ShadowInv'
<1> PICK day : day = observer.day OBVIOUS
<1> PICK record : record = RecordOf(day, observer.reason, Newest) OBVIOUS
<1>1. /\ observer.pc = "recording" /\ observer' = AtRest
      /\ shown' = shown /\ rawQuotes' = rawQuotes
  BY DEF WriteRecord
<1>2. /\ day \in 1..shown /\ day \in MarketDays /\ observer.at \in SnapshotTimes
      /\ (\A d \in Recorded : d < day) /\ day \notin Recorded
      /\ observer.reason \in Reasons
      /\ ValidRecordDate(day, observer.reason)
      /\ observer.reason \in Boundaries => ~Claims(YearOf[day], observer.reason)
      /\ \A role \in Roles : rawQuotes[day][role] = observer.at
  BY <1>1, RecordedDays, ShadowCalendar
     DEF ShadowInv, RunInv, FilesInv, MarketDays, Roles, ObservationRun
<1>3. /\ records' = [records EXCEPT ![day] = record]
      /\ records = [d \in MarketDays |-> records[d]]
  BY <1>2 DEF WriteRecord, Recorded, ShadowInv, FilesInv
<1>4. /\ records' = [d \in MarketDays |-> records'[d]]
      /\ records'[day] = record
      /\ \A d \in MarketDays \ {day} : records'[d] = records[d]
  BY <1>2, <1>3
<1>5. record = [day |-> day, sequence |-> Newest.sequence + 1, previous |-> Newest,
                reason |-> observer.reason, quotes |-> rawQuotes[day]]
  BY DEF RecordOf
<1>6. record # Missing BY <1>5 DEF MissingIsNoRecord
<1>7. Recorded' = Recorded \cup {day} BY <1>2, <1>4, <1>6 DEF Recorded
<1>8. \A d \in Recorded : records'[d] = records[d] BY <1>2, <1>4, RecordedDays
<1>9. \A d \in Recorded : Verifies(d)'
  <2> SUFFICES ASSUME NEW d \in Recorded PROVE Verifies(d)' OBVIOUS
  <2>1. Verifies(d) BY DEF ShadowInv, FilesInv, ChainVerifies
  <2>2. d < day /\ ~(day < d) /\ ~(day <= d) /\ d \in Int
    BY <1>2, RecordedDays, ShadowCalendar DEF ShadowInv, FilesInv
  <2>3. {e \in Recorded' : e < d} = {e \in Recorded : e < d}
        /\ {e \in Recorded' : e <= d} = {e \in Recorded : e <= d}
    BY <1>7, <2>2
  <2>4. LastBefore(d)' = LastBefore(d)
    <3> DEFINE earlier == {e \in Recorded : e < d}
    <3>1. earlier # {} => LastDay(earlier) \in earlier
      <4>1. earlier \subseteq MarketDays BY RecordedDays
      <4> QED BY <4>1, LastDayIsIn
    <3>2. earlier # {} => records'[LastDay(earlier)] = records[LastDay(earlier)]
      BY <1>8, <3>1
    <3> QED BY <2>3, <3>2, TailOf
  <2>5. RecordOf(d, records[d].reason, records[d].previous)'
          = RecordOf(d, records[d].reason, records[d].previous)
    BY <1>1, <1>8 DEF RecordOf
  <2> QED BY <1>1, <1>8, <2>1, <2>3, <2>4, <2>5 DEF Verifies
<1>10. Verifies(day)'
  <2>1. records'[day].sequence = Cardinality({d \in Recorded' : d <= day})
    <3>1. {d \in Recorded' : d <= day} = Recorded \cup {day}
      BY <1>2, <1>7, RecordedDays, ShadowCalendar DEF MarketDays, ShadowInv, FilesInv
    <3>2. Cardinality(Recorded \cup {day}) = Cardinality(Recorded) + 1
      BY <1>2, RecordedDays, FS_AddElement
    <3>3. record.sequence = Cardinality(Recorded) + 1
      BY <1>5, NextSequence DEF ShadowInv, FilesInv
    <3> QED BY <1>4, <3>1, <3>2, <3>3
  <2>2. records'[day].previous = LastBefore(day)'
    <3>1. {d \in Recorded' : d < day} = Recorded
      BY <1>2, <1>7, RecordedDays, ShadowCalendar DEF MarketDays, ShadowInv, FilesInv
    <3>2. {d \in Recorded : d < Closes + 1} = Recorded BY RecordedDays, ShadowCalendar
    <3>3. Recorded # {} => LastDay(Recorded) \in Recorded BY RecordedDays, LastDayIsIn
    <3>4. Newest = IF Recorded = {} THEN Initialization ELSE records[LastDay(Recorded)]
      BY <3>2, TailOf DEF Newest
    <3>5. LastBefore(day)' = IF Recorded = {} THEN Initialization
                             ELSE records'[LastDay(Recorded)]
      BY <3>1, TailOf
    <3>6. LastBefore(day)' = Newest BY <1>8, <3>3, <3>4, <3>5
    <3> QED BY <1>4, <1>5, <3>6
  <2>3. records'[day].reason = observer.reason /\ records'[day] = record BY <1>4, <1>5
  <2>4. RecordOf(day, records[day].reason, records[day].previous)' = record
    BY <1>1, <1>4, <1>5 DEF RecordOf
  <2>5. observer.at # Missing BY <1>2 DEF MissingIsNoQuote
  <2> QED BY <1>1, <1>2, <2>1, <2>2, <2>3, <2>4, <2>5 DEF Verifies, Roles
<1>11. FilesInv'
  <2>0. records'[day].reason \in Reasons /\ day <= shown BY <1>2, <1>4, <1>5
  <2>1. \A d \in Recorded' : d <= shown' /\ records'[d].reason \in Reasons
    BY <1>1, <1>7, <1>8, <2>0 DEF ShadowInv, FilesInv
  <2> QED BY <1>1, <1>4, <1>7, <1>9, <1>10, <2>1 DEF FilesInv, ShadowInv, ChainVerifies
<1>12. RunInv' BY <1>1 DEF RunInv, AtRest, ObservationRun, Reasons
<1>13. OneRecordPerBoundary'
  <2>1. \A d \in Recorded : ~(/\ YearOf[d] = YearOf[day]
                              /\ records[d].reason = observer.reason
                              /\ observer.reason \in Boundaries)
    BY <1>2 DEF Claims
  <2>2. records'[day].reason = observer.reason BY <1>4, <1>5
  <2> QED BY <1>7, <1>8, <2>1, <2>2 DEF ShadowInv, OneRecordPerBoundary
<1> QED BY <1>11, <1>12, <1>13 DEF ShadowInv

\* Every step of the ledger of observations keeps the invariant.
LEMMA ShadowStep ==
  ASSUME MissingIsNoQuote, MissingIsNoRecord, ShadowInv, [ShadowNext]_shadowVars
  PROVE  ShadowInv'
<1>1. CASE CollectWeekly
  BY <1>1, ShadowCollect DEF CollectWeekly, Reasons, Boundaries
<1>2. ASSUME NEW reason \in Boundaries, CollectBoundary(reason) PROVE ShadowInv'
  BY <1>2, ShadowCollect DEF CollectBoundary, Reasons
<1>3. CASE UNCHANGED shadowVars
  <2>1. FilesInv' BY <1>3, RecordsUnchanged DEF shadowVars, ShadowInv, FilesInv
  <2>2. RunInv' BY <1>3, RecordsUnchanged DEF shadowVars, ShadowInv, RunInv
  <2> QED BY <1>3, <2>1, <2>2, RecordsUnchanged DEF shadowVars, ShadowInv
<1>4. CASE ReturnRecorded BY <1>3, <1>4 DEF ReturnRecorded
<1>5. ASSUME NEW role \in Roles, KeepQuote(role) PROVE ShadowInv'
  BY <1>5, ShadowKeepQuote
<1>6. CASE WriteRecord BY <1>6, ShadowWriteRecord
<1>7. CASE ObserverKilled
  <2>1. UNCHANGED <<shown, rawQuotes, records>> /\ observer' = AtRest
    BY <1>7 DEF ObserverKilled
  <2>2. FilesInv' BY <2>1, RecordsUnchanged DEF ShadowInv, FilesInv
  <2>3. RunInv' BY <2>1 DEF RunInv, AtRest, ObservationRun, Reasons
  <2> QED BY <2>1, <2>2, <2>3, RecordsUnchanged DEF ShadowInv
<1>8. CASE MarketCloses
  <2>1. UNCHANGED <<rawQuotes, records, observer>> /\ shown' = shown + 1 /\ shown < Closes
    BY <1>8 DEF MarketCloses
  <2>0. shown \in 0..Closes /\ Closes \in Nat /\ \A d \in Recorded : d \in Nat /\ d <= shown
    BY RecordedDays, ShadowCalendar DEF ShadowInv, FilesInv
  <2>2. shown \in Nat /\ shown' \in 0..Closes /\ \A d \in Recorded : d <= shown'
    BY <2>0, <2>1
  <2>3. FilesInv' BY <2>1, <2>2, RecordsUnchanged DEF ShadowInv, FilesInv
  <2>4. observer.day \in 1..shown => observer.day \in 1..shown' BY <2>1, <2>2
  <2>5. RunInv' BY <2>1, <2>4, RecordsUnchanged DEF ShadowInv, RunInv
  <2> QED BY <2>1, <2>3, <2>5, RecordsUnchanged DEF ShadowInv
<1> QED BY <1>1, <1>2, <1>3, <1>4, <1>5, <1>6, <1>7, <1>8 DEF ShadowNext

\* The records are numbered from 1 on, each number once.
NumbersInv ==
    /\ \A n \in 1..Cardinality(Recorded) : \E d \in Recorded : records[d].sequence = n
    /\ \A d \in Recorded : records[d].sequence \in 1..Cardinality(Recorded)
    /\ \A d, e \in Recorded : records[d].sequence = records[e].sequence => d = e

\* What a step of the ledger does to the records: nothing, or one more that
\* follows the last.
OneMoreRecord(day) ==
    /\ day \in MarketDays \ Recorded /\ Recorded' = Recorded \cup {day}
    /\ \A d \in Recorded : records'[d] = records[d] /\ d < day
    /\ records'[day].day = day
    /\ records'[day].sequence = Cardinality(Recorded) + 1

\* Only the last step of a run touches the records, and it adds one.
LEMMA RecordsGrow ==
  ASSUME MissingIsNoRecord, ShadowInv, [ShadowNext]_shadowVars
  PROVE  records' = records \/ \E day \in MarketDays : OneMoreRecord(day)
<1>1. CASE ~WriteRecord
  BY <1>1 DEF ShadowNext, CollectWeekly, CollectBoundary, ReturnRecorded, KeepQuote,
              ObserverKilled, MarketCloses, shadowVars
<1>2. CASE WriteRecord
  <2> PICK day : day = observer.day OBVIOUS
  <2> PICK record : record = RecordOf(day, observer.reason, Newest) OBVIOUS
  <2>1. /\ day \in 1..shown /\ day \in MarketDays /\ (\A d \in Recorded : d < day)
        /\ day \notin Recorded
    BY <1>2, RecordedDays, ShadowCalendar DEF WriteRecord, ShadowInv, RunInv, FilesInv, MarketDays
  <2>2. /\ records' = [records EXCEPT ![day] = record]
        /\ records = [d \in MarketDays |-> records[d]]
    BY <1>2, <2>1 DEF WriteRecord, Recorded, ShadowInv, FilesInv
  <2>3. records'[day] = record /\ \A d \in MarketDays \ {day} : records'[d] = records[d]
    BY <2>1, <2>2
  <2>4. record = [day |-> day, sequence |-> Newest.sequence + 1, previous |-> Newest,
                  reason |-> observer.reason, quotes |-> rawQuotes[day]]
    BY DEF RecordOf
  <2>5. record # Missing BY <2>4 DEF MissingIsNoRecord
  <2>6. record.day = day /\ record.sequence = Cardinality(Recorded) + 1
    BY <2>4, NextSequence DEF ShadowInv, FilesInv
  <2>7. Recorded' = Recorded \cup {day} BY <2>1, <2>3, <2>5 DEF Recorded
  <2>8. \A d \in Recorded : records'[d] = records[d] BY <2>1, <2>3, RecordedDays
  <2> QED BY <2>1, <2>3, <2>6, <2>7, <2>8 DEF OneMoreRecord
<1> QED BY <1>1, <1>2

\* One more record has the next number.
LEMMA OneMoreNumber ==
  ASSUME NumbersInv, NEW day \in MarketDays, OneMoreRecord(day)
  PROVE  /\ NumbersInv'
         /\ Cardinality(Recorded') = Cardinality(Recorded) + 1
         /\ Cardinality(Recorded) \in Nat
<1>1. Cardinality(Recorded') = Cardinality(Recorded) + 1 /\ Cardinality(Recorded) \in Nat
  BY RecordedDays, FS_AddElement, FS_CardinalityType DEF OneMoreRecord
<1> DEFINE n == Cardinality(Recorded)
           m == Cardinality(Recorded')
<1>2. m = n + 1 /\ n \in Nat BY <1>1
<1>3. /\ \A k \in 1..n : \E d \in Recorded : records[d].sequence = k
      /\ \A d \in Recorded : records[d].sequence \in 1..n
      /\ \A d, e \in Recorded : records[d].sequence = records[e].sequence => d = e
  BY DEF NumbersInv
<1>4. records'[day].sequence = n + 1 BY DEF OneMoreRecord
<1> HIDE DEF n, m
<1>5. \A k \in 1..m : \E d \in Recorded' : records'[d].sequence = k
  <2> SUFFICES ASSUME NEW k \in 1..m PROVE \E d \in Recorded' : records'[d].sequence = k
      OBVIOUS
  <2>1. CASE k = n + 1 BY <1>4, <2>1 DEF OneMoreRecord
  <2>2. CASE k \in 1..n BY <1>3, <2>2 DEF OneMoreRecord
  <2> QED BY <1>2, <2>1, <2>2
<1>6. \A d \in Recorded' : records'[d].sequence \in 1..m
  BY <1>2, <1>3, <1>4 DEF OneMoreRecord
<1>7. \A d \in Recorded : records'[d].sequence # records'[day].sequence
  BY <1>2, <1>3, <1>4 DEF OneMoreRecord
<1>8. \A d, e \in Recorded' : records'[d].sequence = records'[e].sequence => d = e
  BY <1>3, <1>7 DEF OneMoreRecord
<1> QED BY <1>1, <1>5, <1>6, <1>8 DEF NumbersInv, m

EntriesAreRecords ==
    /\ RecordsInOrder \in Seq({records[d] : d \in Recorded})
    /\ Len(RecordsInOrder) = Cardinality(Recorded)
    /\ \A d \in Recorded : RecordsInOrder[records[d].sequence] = records[d]
    /\ \A n \in 1..Cardinality(Recorded) :
          \E d \in Recorded : records[d].sequence = n /\ RecordsInOrder[n] = records[d]

\* The entry of a number is the record that has it.
LEMMA EntryIsRecord == NumbersInv => EntriesAreRecords
<1> SUFFICES ASSUME NumbersInv PROVE EntriesAreRecords OBVIOUS
<1> DEFINE n == Cardinality(Recorded)
           entry(k) == CHOOSE r \in {records[d] : d \in Recorded} : r.sequence = k
<1>1. n \in Nat BY RecordedDays, FS_CardinalityType
<1>2. RecordsInOrder = [k \in 1..n |-> entry(k)] BY DEF RecordsInOrder
<1>3. \A d \in Recorded : entry(records[d].sequence) = records[d]
  BY DEF NumbersInv
<1> HIDE DEF entry
<1>4. /\ \A k \in 1..n : \E d \in Recorded : records[d].sequence = k
      /\ \A d \in Recorded : records[d].sequence \in 1..n
  BY DEF NumbersInv
<1> HIDE DEF n
<1>5. \A d \in Recorded : RecordsInOrder[records[d].sequence] = records[d]
  BY <1>2, <1>3, <1>4
<1>6. \A k \in 1..n : RecordsInOrder[k] \in {records[d] : d \in Recorded}
  BY <1>4, <1>5
<1>7. RecordsInOrder \in Seq({records[d] : d \in Recorded}) /\ Len(RecordsInOrder) = n
  BY <1>1, <1>2, <1>6
<1> QED BY <1>4, <1>5, <1>7 DEF n, EntriesAreRecords

\* One more record is one more entry, of a later day, after the same entries.
LEMMA OneMoreEntry ==
  ASSUME NumbersInv, NEW day \in MarketDays, OneMoreRecord(day),
         \A d \in Recorded : records[d].day = d
  PROVE  Log!Add
<1> DEFINE n == Cardinality(Recorded)
           old == RecordsInOrder
           new == RecordsInOrder'
           S == {records[d] : d \in Recorded}
           T == {records'[d] : d \in Recorded'}
<1>1. NumbersInv' /\ Cardinality(Recorded') = n + 1 /\ n \in Nat
  BY OneMoreNumber
<1>2. /\ old \in Seq(S) /\ Len(old) = n
      /\ \A k \in 1..n : \E d \in Recorded : records[d].sequence = k /\ old[k] = records[d]
  BY EntryIsRecord DEF EntriesAreRecords
<1>3. /\ new \in Seq(T) /\ Len(new) = n + 1
      /\ \A d \in Recorded' : new[records'[d].sequence] = records'[d]
  <2>1. NumbersInv' => EntriesAreRecords' BY EntryIsRecord, PTL
  <2> QED BY <1>1, <2>1 DEF EntriesAreRecords
<1> HIDE DEF n, old, new, S, T
<1>4. \A k \in 1..n : new[k] = old[k]
  <2> SUFFICES ASSUME NEW k \in 1..n PROVE new[k] = old[k] OBVIOUS
  <2>1. PICK d \in Recorded : records[d].sequence = k /\ old[k] = records[d] BY <1>2
  <2>2. d \in Recorded' /\ records'[d] = records[d] BY <2>1 DEF OneMoreRecord
  <2> QED BY <1>3, <2>1, <2>2
<1>5. SubSeq(new, 1, n) = old
  <2>1. /\ SubSeq(new, 1, n) \in Seq(T) /\ Len(SubSeq(new, 1, n)) = n
        /\ \A k \in 1..n : SubSeq(new, 1, n)[k] = new[k]
    <3>1. 1 \in Nat /\ n \in Nat /\ n <= Len(new) BY <1>1, <1>3
    <3>2. \A k \in 1..n : k \in 1..(n - 1 + 1) /\ 1 + k - 1 = k BY <1>1
    <3>3. SubSeq(new, 1, n) = [k \in 1..n |-> new[k]]
      BY <1>1, <1>3, <3>1
    <3>4. \A k \in 1..n : new[k] \in T BY <1>1, <1>3
    <3> QED BY <1>1, <3>3, <3>4
  <2>2. old = [k \in 1..n |-> old[k]] /\ SubSeq(new, 1, n) = [k \in 1..n |-> new[k]]
    BY <1>1, <1>2, <2>1
  <2> QED BY <1>4, <2>2
<1>6. old # << >> => new[n + 1].day > old[n].day
  <2>1. new[n + 1].day = day
    <3>1. day \in Recorded' /\ records'[day].sequence = n + 1 /\ records'[day].day = day
      BY DEF OneMoreRecord, n
    <3> QED BY <1>3, <3>1
  <2>2. old # << >> => n \in 1..n BY <1>1, <1>2
  <2>3. n \in 1..n => old[n].day < day
    <3> SUFFICES ASSUME n \in 1..n PROVE old[n].day < day OBVIOUS
    <3>1. PICK d \in Recorded : old[n] = records[d] BY <1>2
    <3> QED BY <3>1 DEF OneMoreRecord
  <2>4. n \in 1..n => old[n].day \in Int
    BY <1>2, RecordedDays
  <2> QED BY <2>1, <2>2, <2>3, <2>4, ShadowCalendar DEF MarketDays
<1> QED BY <1>2, <1>3, <1>5, <1>6 DEF Log!Add, old, new

ShadowSpec == ShadowInit /\ [][ShadowNext]_shadowVars

\* The invariant of the ledger of observations, along every history of runs,
\* kills and closings.
LEMMA ShadowInvAlways ==
  ASSUME MissingIsNoQuote, MissingIsNoRecord PROVE ShadowSpec => []ShadowInv
<1>1. ShadowInv /\ [ShadowNext]_shadowVars => ShadowInv' BY ShadowStep
<1> QED BY <1>1, ShadowInitInv, PTL DEF ShadowSpec

\* A step of the ledger adds a record at the end, or none.
LEMMA ShadowLog ==
  ASSUME MissingIsNoQuote, MissingIsNoRecord PROVE ShadowSpec => RefinesLog
<1>1. ShadowInit => NumbersInv /\ Log!Init
  <2> SUFFICES ASSUME ShadowInit PROVE NumbersInv /\ Log!Init OBVIOUS
  <2>1. Recorded = {} /\ Cardinality(Recorded) = 0
    BY FS_EmptySet DEF ShadowInit, Recorded
  <2>2. NumbersInv BY <2>1 DEF NumbersInv
  <2>3. RecordsInOrder \in Seq({records[d] : d \in Recorded}) /\ Len(RecordsInOrder) = 0
    BY <2>1, <2>2, EntryIsRecord DEF EntriesAreRecords
  <2> QED BY <2>2, <2>3 DEF Log!Init
<1>2. ShadowInv /\ NumbersInv /\ [ShadowNext]_shadowVars =>
         NumbersInv' /\ [Log!Add]_RecordsInOrder
  <2> SUFFICES ASSUME ShadowInv, NumbersInv, [ShadowNext]_shadowVars
               PROVE  NumbersInv' /\ [Log!Add]_RecordsInOrder
      OBVIOUS
  <2>1. CASE records' = records BY <2>1 DEF NumbersInv, RecordsInOrder, Recorded
  <2>2. ASSUME NEW day \in MarketDays, OneMoreRecord(day)
        PROVE  NumbersInv' /\ [Log!Add]_RecordsInOrder
    <3>1. ASSUME NEW d \in Recorded PROVE records[d].day = d
      <4>1. Verifies(d) BY DEF ShadowInv, FilesInv, ChainVerifies
      <4> QED BY <4>1 DEF Verifies, RecordOf
    <3> QED BY <2>2, <3>1, OneMoreNumber, OneMoreEntry
  <2> QED BY <2>1, <2>2, RecordsGrow
<1> QED BY <1>1, <1>2, ShadowInvAlways, PTL DEF ShadowSpec, RefinesLog, Log!Spec

\* The ledger of the job is the one of this part.
LEMMA ShadowJob == Spec => ShadowSpec
<1>1. Init => ShadowInit BY DEF Init
<1>2. [Next]_vars => [ShadowNext]_shadowVars
  BY DEF Next, vars, OnNegative, OnEvents, OnMarket, OnShadow, OnReplay
<1> QED BY <1>1, <1>2, PTL DEF Spec, ShadowSpec

\* However runs are repeated, and wherever they are killed, at most one record
\* claims a boundary of a year (_boundary_already_recorded is read before the
\* quotes are kept, and the record is written after them).
THEOREM OneRecordClaimsABoundary ==
  ASSUME MissingIsNoQuote, MissingIsNoRecord PROVE Spec => []OneRecordPerBoundary
<1>1. ShadowInv => OneRecordPerBoundary BY DEF ShadowInv
<1> QED BY <1>1, ShadowJob, ShadowInvAlways, PTL

\* The chain of records verifies at any time: each follows the one before it,
\* is numbered by its place, and has the quotes that are on disk for its day,
\* even though quotes of runs that were killed stay there.
THEOREM RecordsVerify ==
  ASSUME MissingIsNoQuote, MissingIsNoRecord PROVE Spec => []ChainVerifies
<1>1. ShadowInv => ChainVerifies BY DEF ShadowInv, FilesInv
<1> QED BY <1>1, ShadowJob, ShadowInvAlways, PTL

\* The records of any number of runs, killed anywhere and repeated, are a log
\* that only grows, each entry of a later day than the one before it
\* (AppendOnlyLog).
THEOREM RecordsAreALog ==
  ASSUME MissingIsNoQuote, MissingIsNoRecord PROVE Spec => RefinesLog
BY ShadowJob, ShadowLog, PTL

-----------------------------------------------------------------------------
(* The negative list *)

\* A file that is missing is told from one with any rows, or with none.
MissingIsNoRows ==
    /\ Missing # {}
    /\ \A w \in Worlds, p \in Partitions : \A answer \in w[p] : Kept(p, answer) # Missing

\* The rows of the first n partitions of the walk, with file f[p] for p.
RowsOfWalk(f, n) == UNION {{Walk[i]} \X f[Walk[i]] : i \in 1..n}

\* What a partition is built from: an answer that was accepted, whose rows are
\* in the file or have a receipt.
BuiltFrom(p, answer) ==
    /\ answer \in world[p] /\ Acceptable(p, answer)
    /\ partition[p] = Kept(p, answer)
    /\ Quarantined(p, answer) \subseteq receipts[p]

\* Receipts are of quarantined rows of some answer, and files are as built.
NegativeFiles ==
    /\ world \in Worlds
    /\ request \in Requests \cup {Missing}
    /\ partition = [p \in Partitions |-> partition[p]]
    /\ receipts = [p \in Partitions |-> receipts[p]]
    /\ source = [p \in Partitions |-> source[p]]
    /\ \A p \in Partitions : \A row \in receipts[p] :
         \E answer \in world[p] : row \in Quarantined(p, answer)
    /\ \A p \in Partitions : OnDisk(p) =>
         IF p \in PostWindow THEN partition[p] = {} ELSE BuiltFrom(p, source[p])

\* A run has passed partitions that are all on disk and has counted their rows.
WalkCounted ==
    /\ worker.at \in 1..(Len(Walk) + 1)
    /\ worker.pc # "off" =>
         /\ worker.request \in Requests /\ request = worker.request
         /\ manifest = Missing
         /\ \A i \in 1..(worker.at - 1) : OnDisk(Walk[i])
         /\ IsFiniteSet(RowsOfWalk(partition, worker.at - 1))
         /\ worker.rows = Cardinality(RowsOfWalk(partition, worker.at - 1))

\* An answer in memory was accepted; what it has to quarantine has a receipt or
\* is still to be written.
AnswerInMemory ==
    worker.pc = "answered" =>
        /\ worker.at <= Len(Walk) /\ At \notin PostWindow /\ ~OnDisk(At)
        /\ worker.answer \in world[At] /\ Acceptable(At, worker.answer)
        /\ worker.toWrite \subseteq DOMAIN worker.answer
        /\ \A i \in worker.toWrite : worker.answer[i] \in Quarantined(At, worker.answer)
        /\ \A row \in Quarantined(At, worker.answer) :
             row \in receipts[At] \/ \E i \in worker.toWrite : worker.answer[i] = row

\* The files that seal a collection agree with what they are computed from.
SealsAgree ==
    /\ worker.pc \in {"quality", "manifest"} =>
         /\ worker.at = Len(Walk) + 1 /\ SummaryAccepts
         /\ \E instant \in Instants : sourceManifest = SourceManifest(instant)
    /\ worker.pc = "manifest" => qualityReport = QualityReport(TotalRows)
    /\ manifest # Missing => worker.pc = "off" /\ request # Missing /\ Verified

WorkerShape ==
    /\ worker.pc \in {"off", "walking", "answered", "quality", "manifest"}
    /\ worker = [pc |-> worker.pc, request |-> worker.request, at |-> worker.at,
                 answer |-> worker.answer, toWrite |-> worker.toWrite, rows |-> worker.rows]

NegativeInv == NegativeFiles /\ WorkerShape /\ WalkCounted /\ AnswerInMemory /\ SealsAgree

\* What the policy lets through was disclosed in the window, and what it puts
\* aside after it.
LEMMA BoundarySplits ==
  ASSUME NEW endpoint, NEW row
  PROVE  /\ Boundary(endpoint, row) = "allow" =>
               /\ row.end # "after" /\ row.ann \notin {"before", "after"}
               /\ row.f_ann # "after"
         /\ Boundary(endpoint, row) = "quarantine" =>
               row.end # "after" /\ "after" \in {row.ann, row.f_ann}
         /\ Boundary(endpoint, row) \in {"reject", "allow", "quarantine"}
BY DEF Boundary

\* The walk visits each partition once.
LEMMA WalkVisits ==
  /\ Len(Walk) \in Nat
  /\ \A i \in 1..Len(Walk) : Walk[i] \in Partitions
  /\ Partitions = {Walk[i] : i \in 1..Len(Walk)}
  /\ \A i, j \in 1..Len(Walk) : Walk[i] = Walk[j] => i = j
BY CollectionConstants DEF Partitions, ToSet, IsInjective

\* The answers have finitely many rows, all usable.
LEMMA AnswersAreFinite ==
  ASSUME NEW w \in Worlds, NEW p \in Partitions, NEW answer \in w[p]
  PROVE  /\ IsFiniteSet(ToSet(answer)) /\ IsFiniteSet(Kept(p, answer))
         /\ \A row \in ToSet(answer) : RowOK(row)
         /\ DOMAIN answer = 1..Len(answer) /\ Len(answer) \in Nat
<1>1. answer \in Seq(ToSet(answer)) /\ \A row \in ToSet(answer) : RowOK(row)
  BY CollectionAnswers
<1>2. answer \in Surjection(1..Len(answer), ToSet(answer))
  BY <1>1 DEF Surjection, ToSet
<1>3. IsFiniteSet(ToSet(answer))
  BY <1>1, <1>2, FS_NatSurjection DEF ExistsSurjection
<1>4. Kept(p, answer) \subseteq ToSet(answer) BY DEF Kept
<1> QED BY <1>1, <1>3, <1>4, FS_Subset

\* A partition built from an answer that was accepted is one that is reused.
LEMMA AcceptedIsCanonical ==
  ASSUME NEW w \in Worlds, NEW p \in Partitions, NEW answer \in w[p], Acceptable(p, answer),
         partition[p] = Kept(p, answer), p \notin PostWindow
  PROVE  CanonicalPartition(p)
<1>1. \A row \in Kept(p, answer) : row.end # "after" /\ row.ann \in {"none", "inside"}
  <2> SUFFICES ASSUME NEW row \in Kept(p, answer)
               PROVE  row.end # "after" /\ row.ann \in {"none", "inside"}
      OBVIOUS
  <2>1. RowOK(row) BY AnswersAreFinite DEF Kept
  <2>2. Boundary(Endpoint[p], row) = "allow" BY DEF Kept
  <2> QED BY <2>1, <2>2, BoundarySplits DEF RowOK, Dates
<1> QED BY <1>1 DEF CanonicalPartition, Acceptable

\* The rows of one more partition are added to those before it.
LEMMA RowsOfNext ==
  ASSUME NEW f, NEW g, NEW n \in 1..Len(Walk),
         \A i \in 1..(n - 1) : g[Walk[i]] = f[Walk[i]],
         IsFiniteSet(RowsOfWalk(f, n - 1)), IsFiniteSet(g[Walk[n]])
  PROVE  /\ IsFiniteSet(RowsOfWalk(g, n))
         /\ Cardinality(RowsOfWalk(g, n))
              = Cardinality(RowsOfWalk(f, n - 1)) + Cardinality(g[Walk[n]])
<1> DEFINE more == {Walk[n]} \X g[Walk[n]]
           before == RowsOfWalk(f, n - 1)
<1>1. RowsOfWalk(g, n) = before \cup more
  <2>1. 1..n = 1..(n - 1) \cup {n} /\ n \in Nat BY WalkVisits
  <2> QED BY <2>1 DEF RowsOfWalk
<1>2. IsFiniteSet(more) /\ Cardinality(more) = Cardinality(g[Walk[n]])
  <2>1. IsFiniteSet({Walk[n]}) /\ Cardinality({Walk[n]}) = 1 BY FS_Singleton
  <2>2. Cardinality(more) = 1 * Cardinality(g[Walk[n]]) /\ IsFiniteSet(more)
    BY <2>1, FS_Product
  <2>3. Cardinality(g[Walk[n]]) \in Nat BY FS_CardinalityType
  <2> QED BY <2>2, <2>3
<1>3. before \cap more = {}
  <2>1. \A i \in 1..(n - 1) : Walk[i] # Walk[n] BY WalkVisits
  <2> QED BY <2>1 DEF RowsOfWalk
<1>4. Cardinality(before) \in Nat /\ Cardinality(more) \in Nat BY <1>2, FS_CardinalityType
<1>5. /\ IsFiniteSet(before \cup more)
      /\ Cardinality(before \cup more) = Cardinality(before) + Cardinality(more) - Cardinality({})
  <2>1. IsFiniteSet(before) OBVIOUS
  <2>2. \A S, T : IsFiniteSet(S) /\ IsFiniteSet(T) /\ S \cap T = {} =>
          /\ IsFiniteSet(S \cup T)
          /\ Cardinality(S \cup T) = Cardinality(S) + Cardinality(T) - Cardinality({})
    <3> SUFFICES ASSUME NEW S, NEW T, IsFiniteSet(S), IsFiniteSet(T), S \cap T = {}
                 PROVE  /\ IsFiniteSet(S \cup T)
                        /\ Cardinality(S \cup T) = Cardinality(S) + Cardinality(T) - Cardinality({})
        OBVIOUS
    <3>1. /\ IsFiniteSet(S \cup T)
          /\ Cardinality(S \cup T)
               = Cardinality(S) + Cardinality(T) - Cardinality(S \cap T)
      BY FS_Union
    <3> QED BY <3>1
  <2> HIDE DEF before, more
  <2> QED BY <1>2, <1>3, <2>1, <2>2
<1>6. Cardinality({}) = 0 BY FS_EmptySet
<1> HIDE DEF before, more
<1> QED BY <1>1, <1>2, <1>4, <1>5, <1>6 DEF before

\* At the end of the walk the rows counted are all there are.
LEMMA AllRowsCounted ==
  TotalRows = Cardinality(RowsOfWalk(partition, Len(Walk)))
<1>1. UNION {{p} \X partition[p] : p \in Partitions} = RowsOfWalk(partition, Len(Walk))
  BY WalkVisits DEF RowsOfWalk
<1> QED BY <1>1 DEF TotalRows

\* The files of partitions that are reused are as they were built, and finite.
LEMMA HeldAreFinite ==
  ASSUME NegativeFiles, NEW p \in Partitions, OnDisk(p)
  PROVE  IsFiniteSet(partition[p]) /\ CanonicalPartition(p)
<1>1. CASE p \in PostWindow
  BY <1>1, FS_EmptySet DEF NegativeFiles, CanonicalPartition
<1>2. CASE p \notin PostWindow
  <2>1. BuiltFrom(p, source[p]) BY <1>2 DEF NegativeFiles
  <2> QED BY <1>2, <2>1, AnswersAreFinite, AcceptedIsCanonical DEF BuiltFrom, NegativeFiles
<1> QED BY <1>1, <1>2

\* When a run has ended, only the seals are left to agree.
LEMMA RunEnds ==
  ASSUME NegativeInv, worker' = Off, NegativeFiles',
         manifest' # Missing => request' # Missing /\ Verified'
  PROVE  NegativeInv'
<1>1. 1 \in 1..(Len(Walk) + 1) BY WalkVisits
<1>2. WorkerShape' /\ WalkCounted' /\ AnswerInMemory' /\ SealsAgree'
  BY <1>1 DEF Off, WorkerShape, WalkCounted, AnswerInMemory, SealsAgree
<1> QED BY <1>2 DEF NegativeInv

\* Going on from a partition that is on disk by then.
LEMMA RunGoesOn ==
  ASSUME NegativeInv, worker.pc \in {"walking", "answered"}, worker.at <= Len(Walk),
         \A i \in 1..(worker.at - 1) : partition'[Walk[i]] = partition[Walk[i]],
         IsFiniteSet(partition'[At]), partition'[At] # Missing,
         GoOn(partition'[At]), NegativeFiles', UNCHANGED <<request, manifest>>
  PROVE  NegativeInv'
<1> PICK n : n = worker.at OBVIOUS
<1> PICK rows : rows = partition'[At] OBVIOUS
<1>1. /\ n \in 1..Len(Walk) /\ worker.request \in Requests /\ request = worker.request
      /\ manifest = Missing /\ \A i \in 1..(n - 1) : OnDisk(Walk[i])
      /\ IsFiniteSet(RowsOfWalk(partition, n - 1))
      /\ worker.rows = Cardinality(RowsOfWalk(partition, n - 1))
  BY WalkVisits DEF NegativeInv, WalkCounted
<1>2. worker' = [pc |-> "walking", request |-> worker.request, at |-> n + 1, answer |-> << >>,
                 toWrite |-> {}, rows |-> worker.rows + Cardinality(rows)]
  BY DEF GoOn, NegativeInv, WorkerShape
<1>3. worker'.pc = "walking" /\ worker'.request = worker.request /\ worker'.at = n + 1
      /\ worker'.rows = worker.rows + Cardinality(rows)
  BY <1>2
<1>4. worker'.at - 1 = n /\ worker'.at \in 1..(Len(Walk) + 1) BY <1>1, <1>3, WalkVisits
<1>5. WorkerShape' BY <1>2 DEF WorkerShape
<1>6. \A i \in 1..n : OnDisk(Walk[i])'
  <2>1. \A i \in 1..(n - 1) : partition'[Walk[i]] # Missing BY <1>1 DEF OnDisk
  <2>2. Walk[n] = At BY DEF At
  <2>3. \A i \in 1..n : i \in 1..(n - 1) \/ i = n BY <1>1, WalkVisits
  <2> QED BY <2>1, <2>2, <2>3 DEF OnDisk
<1>7. /\ IsFiniteSet(RowsOfWalk(partition', n))
      /\ Cardinality(RowsOfWalk(partition', n))
           = Cardinality(RowsOfWalk(partition, n - 1)) + Cardinality(rows)
  <2> PICK f, g : f = partition /\ g = partition' OBVIOUS
  <2>1. g[Walk[n]] = rows /\ \A i \in 1..(n - 1) : g[Walk[i]] = f[Walk[i]] BY DEF At
  <2>2. IsFiniteSet(RowsOfWalk(f, n - 1)) /\ IsFiniteSet(rows) BY <1>1
  <2>3. /\ IsFiniteSet(RowsOfWalk(g, n))
        /\ Cardinality(RowsOfWalk(g, n)) = Cardinality(RowsOfWalk(f, n - 1)) + Cardinality(rows)
    BY <1>1, <2>1, <2>2, RowsOfNext
  <2> QED BY <2>3 DEF RowsOfWalk
<1>8. WalkCounted'
  BY <1>1, <1>3, <1>4, <1>6, <1>7 DEF WalkCounted
<1>9. AnswerInMemory' /\ SealsAgree' BY <1>1, <1>3 DEF AnswerInMemory, SealsAgree
<1> QED BY <1>5, <1>8, <1>9 DEF NegativeInv

\* A step that writes no file of a partition leaves those files as they are.
LEMMA FilesStay ==
  ASSUME NegativeInv, UNCHANGED <<world, partition, receipts, source>>,
         request' \in Requests \cup {Missing}
  PROVE  NegativeFiles'
BY DEF NegativeInv, NegativeFiles, OnDisk, BuiltFrom

\* What is sealed verifies as long as nothing is written.
LEMMA VerifiedStays ==
  ASSUME UNCHANGED <<staging, authorized, seals>>
  PROVE  /\ Verified' = Verified /\ SummaryAccepts' = SummaryAccepts
         /\ \A instant : SourceManifest(instant)' = SourceManifest(instant)
         /\ QualityReport(TotalRows)' = QualityReport(TotalRows)
         /\ \A p : CanonicalPartition(p)' = CanonicalPartition(p)
<1>1. UNCHANGED <<request, partition, receipts, strayTemp, authorized, sourceManifest,
                  qualityReport, manifest>>
  BY DEF staging, seals
<1>2. SummaryAccepts' = SummaryAccepts /\ TotalRows' = TotalRows
      /\ CollectionManifest' = CollectionManifest
  BY <1>1 DEF SummaryAccepts, Finalized, TotalRows, CollectionManifest
<1>3. \A instant : SourceManifest(instant)' = SourceManifest(instant)
  BY <1>1 DEF SourceManifest, Finalized
<1>4. QualityReport(TotalRows)' = QualityReport(TotalRows)
  BY <1>1, <1>2 DEF QualityReport, Finalized
<1>5. \A p : CanonicalPartition(p)' = CanonicalPartition(p) BY <1>1 DEF CanonicalPartition
<1>6. Verified' = Verified BY <1>1, <1>2, <1>3, <1>4, <1>5 DEF Verified
<1> QED BY <1>2, <1>3, <1>4, <1>5, <1>6

\* At first nothing is on disk and no run is under way.
LEMMA NegativeStarts == NegativeInit => NegativeInv
<1> SUFFICES ASSUME NegativeInit PROVE NegativeInv OBVIOUS
<1>1. NegativeFiles BY DEF NegativeInit, NegativeFiles, OnDisk
<1>2. 1 \in 1..(Len(Walk) + 1) BY WalkVisits
<1>3. worker = Off /\ manifest = Missing BY DEF NegativeInit
<1> QED BY <1>1, <1>2, <1>3
        DEF NegativeInv, Off, WorkerShape, WalkCounted, AnswerInMemory, SealsAgree

\* A run starts only where there is no manifest.
LEMMA OpenStagingKeeps ==
  ASSUME NegativeInv, NEW r \in Requests, OpenStaging(r) PROVE NegativeInv'
<1>1. UNCHANGED <<world, partition, receipts, strayTemp, authorized, seals, source>>
  BY DEF OpenStaging
<1>2. request' \in Requests \cup {Missing}
  BY DEF OpenStaging, NegativeInv, NegativeFiles
<1>3. NegativeFiles' BY <1>1, <1>2, FilesStay
<1>4. CASE worker' = Off
  <2> SUFFICES ASSUME manifest # Missing PROVE request' # Missing /\ Verified'
    BY <1>1, <1>3, <1>4, RunEnds DEF seals
  <2>1. request # Missing /\ Verified BY DEF NegativeInv, SealsAgree
  <2>2. request' = request BY <2>1 DEF OpenStaging
  <2> QED BY <1>1, <2>1, <2>2, VerifiedStays DEF staging
<1>5. CASE worker' # Off
  <2>1. /\ manifest = Missing /\ manifest' = Missing /\ request' = r
        /\ worker' = [Off EXCEPT !.pc = "walking", !.request = r]
    BY <1>1, <1>5 DEF OpenStaging, Stop, seals
  <2>2. worker' = [pc |-> "walking", request |-> r, at |-> 1, answer |-> << >>,
                   toWrite |-> {}, rows |-> 0]
    BY <2>1 DEF Off
  <2>3. worker'.pc = "walking" /\ worker'.request = r /\ worker'.at = 1 /\ worker'.rows = 0
        /\ worker'.at - 1 = 0
    BY <2>2
  <2>4. 1 \in 1..(Len(Walk) + 1) BY WalkVisits
  <2>5. RowsOfWalk(partition', 0) = {} BY DEF RowsOfWalk
  <2>6. WalkCounted' BY <2>1, <2>3, <2>4, <2>5, FS_EmptySet DEF WalkCounted
  <2>7. WorkerShape' BY <2>2 DEF WorkerShape
  <2>8. AnswerInMemory' /\ SealsAgree' BY <2>1, <2>3 DEF AnswerInMemory, SealsAgree
  <2> QED BY <1>3, <2>6, <2>7, <2>8 DEF NegativeInv
<1> QED BY <1>4, <1>5

\* What a running collector has: no manifest yet, and the partition it is at.
LEMMA WhereItIs ==
  ASSUME NegativeInv
  PROVE  /\ worker.pc # "off" => manifest = Missing /\ request \in Requests
         /\ worker.at \in 1..(Len(Walk) + 1) /\ worker.at \in Nat /\ Len(Walk) \in Nat
         /\ worker.at <= Len(Walk) =>
              /\ At \in Partitions
              /\ \A i \in 1..(worker.at - 1) : Walk[i] # At /\ Walk[i] \in Partitions
BY WalkVisits DEF NegativeInv, WalkCounted, At

\* A partition that is reused adds its rows to those of the walk.
LEMMA ReuseKeeps == ASSUME NegativeInv, Reuse PROVE NegativeInv'
<1>1. /\ UNCHANGED <<world, request, partition, receipts, source, manifest>>
      /\ worker.pc = "walking" /\ worker.at <= Len(Walk) /\ OnDisk(At)
      /\ \/ worker' = Off
         \/ GoOn(partition[At])
  BY DEF Reuse, Walking, staging, seals, Stop
<1>2. manifest' = Missing BY <1>1, WhereItIs
<1>3. NegativeFiles' BY <1>1, FilesStay DEF NegativeInv, NegativeFiles
<1>4. IsFiniteSet(partition[At]) BY <1>1, WhereItIs, HeldAreFinite DEF NegativeInv
<1>5. CASE worker' = Off BY <1>2, <1>3, <1>5, RunEnds
<1>6. CASE GoOn(partition[At])
  <2>1. partition'[At] = partition[At] /\ partition[At] # Missing BY <1>1 DEF OnDisk
  <2>2. GoOn(partition'[At]) BY <1>6, <2>1
  <2> QED BY <1>1, <1>3, <1>4, <2>1, <2>2, RunGoesOn
<1> QED BY <1>1, <1>5, <1>6

\* Writing the file of a partition that is not on disk: a post-window one is
\* empty, any other holds what is kept of an accepted answer.
PartitionStep(p, rows, answer) ==
    /\ p = At
    /\ worker.pc \in {"walking", "answered"} /\ worker.at <= Len(Walk) /\ ~OnDisk(p)
    /\ p \notin PostWindow =>
         /\ answer \in world[p] /\ Acceptable(p, answer)
         /\ rows = Kept(p, answer) /\ Quarantined(p, answer) \subseteq receipts[p]
         /\ source'[p] = answer
    /\ p \in PostWindow => rows = {}
    /\ partition' = [partition EXCEPT ![p] = rows]
    /\ source' = [q \in Partitions |-> source'[q]]
    /\ \A q \in Partitions \ {p} : source'[q] = source[q]
    /\ GoOn(rows)
    /\ UNCHANGED <<world, request, receipts, manifest>>

\* The partition the run is at gets its file and its answer, both at once.
LEMMA PartitionWritten ==
  ASSUME MissingIsNoRows, NegativeInv, NEW p, NEW rows, NEW answer, PartitionStep(p, rows, answer)
  PROVE  NegativeInv'
<1> USE DEF PartitionStep
<1>1. p \in Partitions /\ \A i \in 1..(worker.at - 1) : Walk[i] # p /\ Walk[i] \in Partitions
  BY WhereItIs
<1>2. NegativeFiles BY DEF NegativeInv
<1>3. IsFiniteSet(rows) /\ rows # Missing
  <2>1. CASE p \in PostWindow BY <2>1, FS_EmptySet DEF MissingIsNoRows
  <2>2. CASE p \notin PostWindow
    BY <1>1, <1>2, <2>2, AnswersAreFinite DEF MissingIsNoRows, NegativeFiles
  <2> QED BY <2>1, <2>2
<1>4. partition'[p] = rows /\ \A q \in Partitions \ {p} : partition'[q] = partition[q]
  BY <1>1, <1>2 DEF NegativeFiles
<1>6. NegativeFiles'
  <2>1. partition' = [q \in Partitions |-> partition'[q]] BY <1>1, <1>2 DEF NegativeFiles
  <2>2. ASSUME NEW q \in Partitions, partition'[q] # Missing
        PROVE  IF q \in PostWindow THEN partition'[q] = {} ELSE BuiltFrom(q, source[q])'
    <3>1. CASE q = p BY <1>4, <3>1 DEF BuiltFrom
    <3>2. CASE q # p
      <4>1. IF q \in PostWindow THEN partition[q] = {} ELSE BuiltFrom(q, source[q])
        BY <1>2, <1>4, <2>2, <3>2 DEF NegativeFiles, OnDisk
      <4> QED BY <1>4, <3>2, <4>1 DEF BuiltFrom
    <3> QED BY <3>1, <3>2
  <2> QED BY <1>2, <2>1, <2>2 DEF NegativeFiles, OnDisk
<1>7. \A i \in 1..(worker.at - 1) : partition'[Walk[i]] = partition[Walk[i]] BY <1>1, <1>4
<1>8. partition'[At] = rows BY <1>4
<1>9. GoOn(partition'[At]) BY <1>8
<1> QED BY <1>3, <1>6, <1>7, <1>8, <1>9, RunGoesOn

\* What was set aside goes to its own file, before the partition it belongs to.
LEMMA WritePostWindowKeeps ==
  ASSUME MissingIsNoRows, NegativeInv, WritePostWindow PROVE NegativeInv'
<1> PICK p, rows, answer : p = At /\ rows = {} /\ answer = << >> OBVIOUS
<1>1. /\ worker.pc = "walking" /\ worker.at <= Len(Walk) /\ ~OnDisk(p) /\ p \in PostWindow
      /\ partition' = [partition EXCEPT ![p] = rows] /\ GoOn(rows)
      /\ source' = source /\ UNCHANGED <<world, request, receipts, manifest>>
  BY DEF WritePostWindow, Walking, seals
<1>2. source = [q \in Partitions |-> source[q]] BY DEF NegativeInv, NegativeFiles
<1>3. PartitionStep(p, rows, answer) BY <1>1, <1>2 DEF PartitionStep
<1> QED BY <1>3, PartitionWritten

\* The rows inside the window go to the partition, and the run goes on.
LEMMA WritePartitionKeeps ==
  ASSUME MissingIsNoRows, NegativeInv, WritePartition PROVE NegativeInv'
<1> PICK p, answer : p = At /\ answer = worker.answer OBVIOUS
<1> PICK rows : rows = Kept(p, answer) OBVIOUS
<1>1. /\ worker.pc = "answered" /\ worker.toWrite = {}
      /\ partition' = [partition EXCEPT ![p] = rows]
      /\ source' = [source EXCEPT ![p] = answer] /\ GoOn(rows)
      /\ UNCHANGED <<world, request, receipts, manifest>>
  BY DEF WritePartition, seals
<1>2. /\ worker.at <= Len(Walk) /\ p \notin PostWindow /\ ~OnDisk(p)
      /\ answer \in world[p] /\ Acceptable(p, answer)
      /\ Quarantined(p, answer) \subseteq receipts[p]
  BY <1>1 DEF NegativeInv, AnswerInMemory
<1>3. p \in Partitions BY <1>2, WhereItIs
<1>4. /\ source' = [q \in Partitions |-> source'[q]] /\ source'[p] = answer
      /\ \A q \in Partitions \ {p} : source'[q] = source[q]
  BY <1>1, <1>3 DEF NegativeInv, NegativeFiles
<1>5. PartitionStep(p, rows, answer) BY <1>1, <1>2, <1>4 DEF PartitionStep
<1> QED BY <1>5, PartitionWritten

\* An answer is accepted whole or ends the run; nothing is on disk of it yet.
LEMMA QueryKeeps == ASSUME NegativeInv, Query PROVE NegativeInv'
<1>1. /\ UNCHANGED <<world, request, partition, receipts, source, manifest>>
      /\ worker.pc = "walking" /\ worker.at <= Len(Walk) /\ ~OnDisk(At) /\ At \notin PostWindow
  BY DEF Query, Walking, staging, seals
<1>2. NegativeFiles' BY <1>1, FilesStay DEF NegativeInv, NegativeFiles
<1>3. manifest' = Missing /\ manifest = Missing BY <1>1, WhereItIs
<1>4. CASE worker' = Off BY <1>2, <1>3, <1>4, RunEnds
<1>5. ASSUME NEW answer \in world[At], Acceptable(At, answer),
             worker' = [worker EXCEPT !.pc = "answered", !.answer = answer,
                         !.toWrite = {i \in DOMAIN answer : answer[i] \in Quarantined(At, answer)}]
      PROVE  NegativeInv'
  <2> PICK toWrite : toWrite = {i \in DOMAIN answer : answer[i] \in Quarantined(At, answer)}
      OBVIOUS
  <2>1. worker' = [pc |-> "answered", request |-> worker.request, at |-> worker.at,
                   answer |-> answer, toWrite |-> toWrite, rows |-> worker.rows]
    BY <1>5 DEF NegativeInv, WorkerShape
  <2>2. /\ worker'.pc = "answered" /\ worker'.request = worker.request
        /\ worker'.at = worker.at /\ worker'.answer = answer /\ worker'.toWrite = toWrite
        /\ worker'.rows = worker.rows
    BY <2>1
  <2>3. WorkerShape' BY <2>1 DEF WorkerShape
  <2>4. WalkCounted' BY <1>1, <1>3, <2>2 DEF NegativeInv, WalkCounted, OnDisk, RowsOfWalk
  <2>5. At' = At BY <2>2 DEF At
  <2>6. \A row \in Quarantined(At, answer) : \E i \in toWrite : answer[i] = row
    BY DEF Quarantined, ToSet
  <2>7. AnswerInMemory'
    BY <1>1, <1>5, <2>2, <2>5, <2>6 DEF AnswerInMemory, OnDisk
  <2>8. SealsAgree' BY <1>3, <2>2 DEF SealsAgree
  <2> QED BY <1>2, <2>3, <2>4, <2>7, <2>8 DEF NegativeInv
<1> QED BY <1>4, <1>5 DEF Query, Stop

\* A receipt is of a row that was to be quarantined, and is no longer to write.
LEMMA WriteReceiptKeeps == ASSUME NegativeInv, WriteReceipt PROVE NegativeInv'
<1> PICK next : next = CHOOSE i \in worker.toWrite : \A j \in worker.toWrite : i <= j OBVIOUS
<1> PICK row : row = worker.answer[next] OBVIOUS
<1> PICK p : p = At OBVIOUS
<1>1. /\ worker.pc = "answered" /\ worker.toWrite # {}
      /\ \/ worker' = Off /\ receipts' = receipts
         \/ /\ receipts' = [receipts EXCEPT ![p] = @ \cup {row}]
            /\ worker' = [worker EXCEPT !.toWrite = @ \ {next}]
      /\ UNCHANGED <<world, request, partition, source, manifest>>
  BY DEF WriteReceipt, Stop, seals
<1>2. /\ worker.at <= Len(Walk) /\ p \notin PostWindow /\ ~OnDisk(p)
      /\ worker.answer \in world[p] /\ Acceptable(p, worker.answer)
      /\ worker.toWrite \subseteq DOMAIN worker.answer
      /\ \A i \in worker.toWrite : worker.answer[i] \in Quarantined(p, worker.answer)
      /\ \A r \in Quarantined(p, worker.answer) :
           r \in receipts[p] \/ \E i \in worker.toWrite : worker.answer[i] = r
  BY <1>1 DEF NegativeInv, AnswerInMemory
<1>3. p \in Partitions /\ manifest = Missing /\ manifest' = Missing /\ NegativeFiles
  BY <1>1, <1>2, WhereItIs DEF NegativeInv
<1>4. next \in worker.toWrite
  <2>1. worker.toWrite \subseteq Nat
    BY <1>2, <1>3, AnswersAreFinite DEF NegativeFiles
  <2>2. \E i \in worker.toWrite : \A j \in worker.toWrite : i <= j
    BY <1>1, <2>1, SmallestOfNaturals
  <2> QED BY <2>2
<1>5. CASE worker' = Off /\ receipts' = receipts
  <2>1. NegativeFiles' BY <1>1, <1>3, <1>5, FilesStay DEF NegativeFiles
  <2> QED BY <1>3, <1>5, <2>1, RunEnds
<1>6. CASE /\ receipts' = [receipts EXCEPT ![p] = @ \cup {row}]
           /\ worker' = [worker EXCEPT !.toWrite = @ \ {next}]
  <2>1. /\ receipts'[p] = receipts[p] \cup {row}
        /\ \A q \in Partitions \ {p} : receipts'[q] = receipts[q]
        /\ receipts' = [q \in Partitions |-> receipts'[q]]
    BY <1>3, <1>6 DEF NegativeFiles
  <2>2. worker' = [pc |-> worker.pc, request |-> worker.request, at |-> worker.at,
                   answer |-> worker.answer, toWrite |-> worker.toWrite \ {next},
                   rows |-> worker.rows]
    BY <1>6 DEF NegativeInv, WorkerShape
  <2>3. /\ worker'.pc = "answered" /\ worker'.request = worker.request
        /\ worker'.at = worker.at /\ worker'.answer = worker.answer
        /\ worker'.toWrite = worker.toWrite \ {next} /\ worker'.rows = worker.rows
    BY <1>1, <2>2
  <2>4. row \in Quarantined(p, worker.answer) BY <1>2, <1>4
  <2>5. NegativeFiles'
    <3>1. ASSUME NEW q \in Partitions, NEW r \in receipts'[q]
          PROVE  \E answer \in world[q] : r \in Quarantined(q, answer)
      <4>1. CASE r \in receipts[q] BY <1>3, <4>1 DEF NegativeFiles
      <4>2. CASE q = p /\ r = row BY <1>2, <2>4, <4>2
      <4> QED BY <2>1, <4>1, <4>2
    <3>2. ASSUME NEW q \in Partitions, OnDisk(q), q \notin PostWindow
          PROVE  BuiltFrom(q, source[q])'
      <4>1. BuiltFrom(q, source[q]) /\ q # p BY <1>2, <1>3, <3>2 DEF NegativeFiles
      <4> QED BY <1>1, <2>1, <4>1 DEF BuiltFrom
    <3> QED BY <1>1, <1>3, <2>1, <3>1, <3>2 DEF NegativeFiles, OnDisk
  <2>6. WorkerShape' BY <1>1, <2>2 DEF WorkerShape
  <2>7. WalkCounted' BY <1>1, <1>3, <2>3 DEF NegativeInv, WalkCounted, OnDisk, RowsOfWalk
  <2>8. At' = p BY <2>3 DEF At
  <2>9. \A r \in Quarantined(p, worker.answer) :
           r \in receipts'[p] \/ \E i \in worker.toWrite \ {next} : worker.answer[i] = r
    BY <1>2, <2>1
  <2>10. AnswerInMemory'
    BY <1>1, <1>2, <2>3, <2>8, <2>9 DEF AnswerInMemory, OnDisk
  <2>11. SealsAgree' BY <1>3, <2>3 DEF SealsAgree
  <2> QED BY <2>5, <2>6, <2>7, <2>10, <2>11 DEF NegativeInv
<1> QED BY <1>1, <1>5, <1>6

\* Past the walk every partition is on disk, and the rows counted are all.
LEMMA WalkIsDone ==
  ASSUME NegativeInv, worker.pc # "off", worker.at = Len(Walk) + 1
  PROVE  (\A p \in Partitions : OnDisk(p)) /\ worker.rows = TotalRows
<1>1. worker.at - 1 = Len(Walk) BY WalkVisits
<1>2. /\ \A i \in 1..Len(Walk) : OnDisk(Walk[i])
      /\ worker.rows = Cardinality(RowsOfWalk(partition, Len(Walk)))
  BY <1>1 DEF NegativeInv, WalkCounted
<1> QED BY <1>2, AllRowsCounted, WalkVisits

\* The steps that write a seal: partitions and receipts are as they were.
LEMMA SealSteps ==
  ASSUME NegativeInv, worker.pc # "off", NEW pc \in {"quality", "manifest"},
         worker' = [worker EXCEPT !.pc = pc], manifest' = Missing,
         UNCHANGED <<world, staging, source>>
  PROVE  /\ NegativeFiles' /\ WorkerShape' /\ WalkCounted' /\ AnswerInMemory'
         /\ worker'.pc = pc /\ worker'.at = worker.at
<1>1. UNCHANGED <<request, partition, receipts>> BY DEF staging
<1>2. NegativeFiles' BY <1>1, FilesStay DEF NegativeInv, NegativeFiles
<1>3. worker' = [pc |-> pc, request |-> worker.request, at |-> worker.at,
                 answer |-> worker.answer, toWrite |-> worker.toWrite, rows |-> worker.rows]
  BY DEF NegativeInv, WorkerShape
<1>4. /\ worker'.pc = pc /\ worker'.request = worker.request
      /\ worker'.at = worker.at /\ worker'.rows = worker.rows
  BY <1>3
<1>5. WorkerShape' BY <1>3 DEF WorkerShape
<1>6. WalkCounted' BY <1>1, <1>4 DEF NegativeInv, WalkCounted, OnDisk, RowsOfWalk
<1>7. AnswerInMemory' BY <1>4 DEF AnswerInMemory
<1> QED BY <1>2, <1>4, <1>5, <1>6, <1>7

\* The first of the seals has the files as they are.
LEMMA WriteSourceManifestKeeps == ASSUME NegativeInv, WriteSourceManifest PROVE NegativeInv'
<1>1. /\ worker.pc = "walking" /\ worker.at > Len(Walk)
      /\ UNCHANGED <<world, staging, authorized, source, manifest>>
      /\ \/ SummaryAccepts /\ worker' = [worker EXCEPT !.pc = "quality"]
            /\ \E instant \in Instants : sourceManifest' = SourceManifest(instant)
         \/ worker' = Off
  BY DEF WriteSourceManifest, Stop
<1>2. manifest' = Missing /\ worker.at = Len(Walk) + 1 BY <1>1, WhereItIs
<1>3. CASE worker' = Off
  <2>1. NegativeFiles' BY <1>1, FilesStay DEF NegativeInv, NegativeFiles, staging
  <2> QED BY <1>2, <1>3, <2>1, RunEnds
<1>4. CASE /\ SummaryAccepts /\ worker' = [worker EXCEPT !.pc = "quality"]
           /\ \E instant \in Instants : sourceManifest' = SourceManifest(instant)
  <2>1. /\ NegativeFiles' /\ WorkerShape' /\ WalkCounted' /\ AnswerInMemory'
        /\ worker'.pc = "quality" /\ worker'.at = worker.at
    BY <1>1, <1>2, <1>4, SealSteps
  <2>2. SummaryAccepts' = SummaryAccepts
        /\ \A instant : SourceManifest(instant)' = SourceManifest(instant)
    BY <1>1 DEF staging, SummaryAccepts, SourceManifest, Finalized
  <2>3. SealsAgree' BY <1>2, <1>4, <2>1, <2>2 DEF SealsAgree
  <2> QED BY <2>1, <2>3 DEF NegativeInv
<1> QED BY <1>1, <1>3, <1>4

\* The second has the rows that the run counted along its walk, which are all.
LEMMA WriteQualityReportKeeps == ASSUME NegativeInv, WriteQualityReport PROVE NegativeInv'
<1>1. /\ worker.pc = "quality" /\ worker' = [worker EXCEPT !.pc = "manifest"]
      /\ qualityReport' = QualityReport(worker.rows)
      /\ UNCHANGED <<world, staging, authorized, source, sourceManifest, manifest>>
  BY DEF WriteQualityReport
<1>2. /\ manifest' = Missing /\ worker.at = Len(Walk) + 1 /\ SummaryAccepts
      /\ \E instant \in Instants : sourceManifest = SourceManifest(instant)
  BY <1>1, WhereItIs DEF NegativeInv, SealsAgree
<1>3. /\ NegativeFiles' /\ WorkerShape' /\ WalkCounted' /\ AnswerInMemory'
      /\ worker'.pc = "manifest" /\ worker'.at = worker.at
  BY <1>1, <1>2, SealSteps
<1>4. worker.rows = TotalRows BY <1>1, <1>2, WalkIsDone
<1>5. /\ SummaryAccepts' = SummaryAccepts
      /\ \A instant : SourceManifest(instant)' = SourceManifest(instant)
      /\ QualityReport(TotalRows)' = QualityReport(TotalRows)
  BY <1>1 DEF staging, SummaryAccepts, SourceManifest, Finalized, QualityReport, TotalRows
<1>6. SealsAgree' BY <1>1, <1>2, <1>3, <1>4, <1>5 DEF SealsAgree
<1> QED BY <1>3, <1>6 DEF NegativeInv

\* The manifest is written over files that the verifier accepts.
LEMMA WriteManifestKeeps == ASSUME NegativeInv, WriteManifest PROVE NegativeInv'
<1>1. /\ worker.pc = "manifest" /\ worker' = Off /\ manifest' = CollectionManifest
      /\ UNCHANGED <<world, staging, authorized, source, sourceManifest, qualityReport>>
  BY DEF WriteManifest, Stop
<1>2. UNCHANGED <<request, partition, receipts, strayTemp>> BY <1>1 DEF staging
<1>3. NegativeFiles' BY <1>1, <1>2, FilesStay DEF NegativeInv, NegativeFiles
<1>4. /\ worker.at = Len(Walk) + 1 /\ SummaryAccepts
      /\ \E instant \in Instants : sourceManifest = SourceManifest(instant)
      /\ qualityReport = QualityReport(TotalRows)
  BY <1>1 DEF NegativeInv, SealsAgree
<1>5. \A p \in Partitions : partition[p] # Missing /\ CanonicalPartition(p)
  BY <1>1, <1>4, WalkIsDone, HeldAreFinite DEF NegativeInv, OnDisk
<1>6. /\ SummaryAccepts' = SummaryAccepts /\ CollectionManifest' = CollectionManifest
      /\ \A instant : SourceManifest(instant)' = SourceManifest(instant)
      /\ QualityReport(TotalRows)' = QualityReport(TotalRows)
      /\ \A p : CanonicalPartition(p)' = CanonicalPartition(p)
  BY <1>1, <1>2 DEF SummaryAccepts, SourceManifest, Finalized, QualityReport, TotalRows,
                    CollectionManifest, CanonicalPartition
<1>7. Verified' BY <1>1, <1>2, <1>4, <1>5, <1>6 DEF Verified
<1>8. request' # Missing BY <1>1, <1>2, WhereItIs, CollectionConstants
<1> QED BY <1>1, <1>3, <1>7, <1>8, RunEnds

\* A kill loses what is in memory only.
LEMMA KillKeeps == ASSUME NegativeInv, Kill PROVE NegativeInv'
<1>1. /\ worker.pc # "off" /\ worker' = Off
      /\ UNCHANGED <<world, request, partition, receipts, source, manifest>>
  BY DEF Kill, Stop, seals
<1>2. NegativeFiles' BY <1>1, FilesStay DEF NegativeInv, NegativeFiles
<1>3. manifest' = Missing BY <1>1, WhereItIs
<1> QED BY <1>1, <1>2, <1>3, RunEnds

\* Between two runs nothing is in memory, and before the seal nothing agrees yet.
LEMMA NothingWritten ==
  ASSUME NegativeInv, UNCHANGED <<world, staging, seals, worker, source>>,
         \/ authorized' = authorized
         \/ worker.pc = "off" /\ manifest = Missing
  PROVE  NegativeInv'
<1>1. UNCHANGED <<request, partition, receipts, strayTemp, sourceManifest, qualityReport, manifest>>
  BY DEF staging, seals
<1>2. NegativeFiles' BY <1>1, FilesStay DEF NegativeInv, NegativeFiles
<1>3. WorkerShape' /\ WalkCounted' /\ AnswerInMemory'
  BY <1>1 DEF NegativeInv, WorkerShape, WalkCounted, AnswerInMemory, OnDisk, At, RowsOfWalk
<1>4. CASE authorized' = authorized
  <2>1. SealsAgree' BY <1>1, <1>4, VerifiedStays DEF NegativeInv, SealsAgree
  <2> QED BY <1>2, <1>3, <2>1 DEF NegativeInv
<1>5. CASE worker.pc = "off" /\ manifest = Missing
  <2>1. SealsAgree' BY <1>1, <1>5 DEF SealsAgree
  <2> QED BY <1>2, <1>3, <2>1 DEF NegativeInv
<1> QED BY <1>4, <1>5

\* Every step of the collection keeps the invariant.
LEMMA NegativeStep ==
  ASSUME MissingIsNoRows PROVE NegativeInv /\ [NegativeNext]_negativeVars => NegativeInv'
<1> SUFFICES ASSUME NegativeInv, [NegativeNext]_negativeVars PROVE NegativeInv' OBVIOUS
<1>1. ASSUME NEW r \in Requests, OpenStaging(r) PROVE NegativeInv' BY <1>1, OpenStagingKeeps
<1>2. CASE Reuse BY <1>2, ReuseKeeps
<1>3. CASE WritePostWindow BY <1>3, WritePostWindowKeeps
<1>4. CASE Query BY <1>4, QueryKeeps
<1>5. CASE WriteReceipt BY <1>5, WriteReceiptKeeps
<1>6. CASE WritePartition BY <1>6, WritePartitionKeeps
<1>7. CASE WriteSourceManifest BY <1>7, WriteSourceManifestKeeps
<1>8. CASE WriteQualityReport BY <1>8, WriteQualityReportKeeps
<1>9. CASE WriteManifest BY <1>9, WriteManifestKeeps
<1>10. CASE Kill BY <1>10, KillKeeps
<1>11. CASE AuthorizeFinalization BY <1>11, NothingWritten DEF AuthorizeFinalization
<1>12. CASE UNCHANGED negativeVars BY <1>12, NothingWritten DEF negativeVars
<1> QED BY <1>1, <1>2, <1>3, <1>4, <1>5, <1>6, <1>7, <1>8, <1>9, <1>10, <1>11, <1>12
        DEF NegativeNext, WorkerStep

NegativeSpec == NegativeInit /\ [][NegativeNext]_negativeVars

\* So it holds in every behaviour of the collection.
LEMMA NegativeInvAlways ==
  ASSUME MissingIsNoRows PROVE NegativeSpec => []NegativeInv
BY NegativeStarts, NegativeStep, PTL DEF NegativeSpec

\* The files a reader finds were built from one answer each.
LEMMA RowsSplit == NegativeInv => RowsAccountedFor /\ WindowSplitsTheRows
<1> SUFFICES ASSUME NegativeInv PROVE RowsAccountedFor /\ WindowSplitsTheRows OBVIOUS
<1>1. ASSUME NEW p \in Partitions \ PostWindow, OnDisk(p)
      PROVE  /\ ToSet(source[p]) \subseteq partition[p] \cup receipts[p]
             /\ partition[p] \cap receipts[p] = {}
             /\ (\A answer \in world[p] : answer = source[p])
                   => ToSet(source[p]) = partition[p] \cup receipts[p]
  <2> PICK answer : answer = source[p] OBVIOUS
  <2>1. /\ answer \in world[p] /\ Acceptable(p, answer) /\ partition[p] = Kept(p, answer)
        /\ Quarantined(p, answer) \subseteq receipts[p]
        /\ \A row \in receipts[p] : \E a \in world[p] : row \in Quarantined(p, a)
    BY <1>1 DEF NegativeInv, NegativeFiles, BuiltFrom
  <2>2. \A row \in ToSet(answer) : row \in Kept(p, answer) \/ row \in Quarantined(p, answer)
    BY <2>1, BoundarySplits DEF Acceptable, Kept, Quarantined
  <2>3. \A row \in receipts[p] : row \notin Kept(p, answer)
    BY <2>1 DEF Kept, Quarantined
  <2>4. Kept(p, answer) \subseteq ToSet(answer) /\ Quarantined(p, answer) \subseteq ToSet(answer)
    BY DEF Kept, Quarantined
  <2> QED BY <2>1, <2>2, <2>3, <2>4
<1>2. ASSUME NEW p \in Partitions
      PROVE  /\ OnDisk(p) => \A row \in partition[p] : "after" \notin {row.ann, row.f_ann, row.end}
             /\ \A row \in receipts[p] : row.end # "after" /\ "after" \in {row.ann, row.f_ann}
  <2>1. OnDisk(p) => \A row \in partition[p] : Boundary(Endpoint[p], row) = "allow"
    <3>1. OnDisk(p) => partition[p] = {} \/ partition[p] = Kept(p, source[p])
      BY DEF NegativeInv, NegativeFiles, BuiltFrom
    <3> QED BY <3>1 DEF Kept
  <2>2. \A row \in receipts[p] : Boundary(Endpoint[p], row) = "quarantine"
    BY DEF NegativeInv, NegativeFiles, Quarantined
  <2> QED BY <2>1, <2>2, BoundarySplits
<1> QED BY <1>1, <1>2 DEF RowsAccountedFor, WindowSplitsTheRows

\* The types, with what a run has counted.
LEMMA NegativeTypes == NegativeInv => CollectionTypeOK
<1> SUFFICES ASSUME NegativeInv PROVE CollectionTypeOK OBVIOUS
<1>1. \A p \in Partitions : OnDisk(p) => CanonicalPartition(p) BY HeldAreFinite DEF NegativeInv
<1> QED BY <1>1 DEF NegativeInv, NegativeFiles, WorkerShape, WalkCounted, CollectionTypeOK, RowsOfWalk

\* A step of the collection is one of what it promises, or none.
LEMMA NegativeStepIsStaged ==
  ASSUME MissingIsNoRows, NegativeInv, NegativeInv', [NegativeNext]_negativeVars
  PROVE  [Collection!Next]_(Collection!stagedVars)
<1> DEFINE Sealed == IF manifest = Missing THEN Missing ELSE manifest.data
<1>1. CASE WritePostWindow \/ WritePartition
  <2> PICK p : p = At OBVIOUS
  <2>1. /\ p \in Partitions /\ ~OnDisk(p) /\ manifest = Missing /\ manifest' = manifest
        /\ \E rows : partition' = [partition EXCEPT ![p] = rows]
    BY <1>1, WhereItIs DEF NegativeInv, AnswerInMemory, WritePostWindow, WritePartition, Walking, seals
  <2>2. partition'[p] # Missing
    <3>1. partition = [q \in Partitions |-> partition[q]] BY DEF NegativeInv, NegativeFiles
    <3>2. CASE WritePostWindow
      <4>1. partition' = [partition EXCEPT ![p] = {}] BY <3>2 DEF WritePostWindow
      <4> QED BY <2>1, <3>1, <4>1 DEF MissingIsNoRows
    <3>3. CASE WritePartition
      <4>1. partition' = [partition EXCEPT ![p] = Kept(p, worker.answer)] /\ worker.pc = "answered"
        BY <3>3 DEF WritePartition
      <4>2. worker.answer \in world[p] /\ world \in Worlds
        BY <4>1 DEF NegativeInv, AnswerInMemory, NegativeFiles
      <4> QED BY <2>1, <3>1, <4>1, <4>2 DEF MissingIsNoRows
    <3> QED BY <1>1, <3>2, <3>3
  <2>3. partition' = [partition EXCEPT ![p] = partition'[p]]
    BY <2>1 DEF NegativeInv, NegativeFiles
  <2> QED BY <2>1, <2>2, <2>3 DEF Collection!Next, Collection!Hold, OnDisk
<1>2. CASE WriteManifest
  <2>1. /\ worker.pc = "manifest" /\ partition' = partition /\ manifest' = CollectionManifest
    BY <1>2 DEF WriteManifest, staging
  <2>2. /\ manifest = Missing /\ \A p \in Partitions : partition[p] # Missing
    BY <2>1, WhereItIs, WalkIsDone DEF NegativeInv, SealsAgree, OnDisk
  <2>3. manifest'.data = partition BY <2>1 DEF CollectionManifest
  <2>4. CASE manifest' = Missing BY <2>1, <2>2, <2>4 DEF Collection!stagedVars
  <2>5. CASE manifest' # Missing
    BY <2>1, <2>2, <2>3, <2>5 DEF Collection!Next, Collection!Seal
  <2> QED BY <2>4, <2>5
<1>3. CASE ~(WritePostWindow \/ WritePartition \/ WriteManifest)
  <2>1. UNCHANGED <<partition, manifest>>
    BY <1>3 DEF NegativeNext, WorkerStep, OpenStaging, Reuse, Query, WriteReceipt,
                WriteSourceManifest, WriteQualityReport, Kill, AuthorizeFinalization,
                negativeVars, staging, seals
  <2> QED BY <2>1 DEF Collection!stagedVars
<1> QED BY <1>1, <1>2, <1>3

\* The collection of this part takes the steps of what it promises.
LEMMA NegativeStaged ==
  ASSUME MissingIsNoRows PROVE NegativeSpec => RefinesStaged
<1>1. NegativeInit => Collection!Init BY DEF NegativeInit, Collection!Init
<1>2. NegativeInv /\ NegativeInv' /\ [NegativeNext]_negativeVars
        => [Collection!Next]_(Collection!stagedVars)
  BY NegativeStepIsStaged
<1> QED BY <1>1, <1>2, NegativeInvAlways, PTL DEF NegativeSpec, RefinesStaged, Collection!Spec

\* The collection of the job is the one of this part.
LEMMA NegativeJob == Spec => NegativeSpec
<1>1. Init => NegativeInit BY DEF Init
<1>2. [Next]_vars => [NegativeNext]_negativeVars
  BY DEF Next, vars, OnNegative, OnEvents, OnMarket, OnShadow, OnReplay
<1> QED BY <1>1, <1>2, PTL DEF Spec, NegativeSpec

\* No row is lost or held twice: whatever runs were killed and whatever other
\* answers the provider gave, each row of the answer a file was built from is
\* in it or has its receipt.
THEOREM RowsAreAccountedFor ==
  ASSUME MissingIsNoRows PROVE Spec => []RowsAccountedFor
BY NegativeJob, NegativeInvAlways, RowsSplit, PTL

\* Of all answers, no row that was disclosed after the window is stored, and
\* only such rows are quarantined.
THEOREM WindowIsKept ==
  ASSUME MissingIsNoRows PROVE Spec => []WindowSplitsTheRows
BY NegativeJob, NegativeInvAlways, RowsSplit, PTL

\* A collection that has its manifest is one its verifier accepts, although the
\* totals were counted along the walk, over files that earlier runs had left,
\* and the owner may have authorized the finalization in between.
THEOREM SealedListVerifies ==
  ASSUME MissingIsNoRows PROVE Spec => []SealedMeansVerified
<1>1. NegativeInv => SealedMeansVerified BY DEF NegativeInv, SealsAgree, SealedMeansVerified
<1> QED BY <1>1, NegativeJob, NegativeInvAlways, PTL

\* Over any kills and restarts, and whatever the provider answers when, each
\* partition of the negative list is held once, with a content that is never
\* replaced, and the collection is sealed as it is held (StagedCollection).
THEOREM NegativeListIsStaged ==
  ASSUME MissingIsNoRows PROVE Spec => RefinesStaged
BY NegativeJob, NegativeStaged, PTL

-----------------------------------------------------------------------------
(* The events *)

\* Any row of any answer, as it comes or with its first announcement day removed.
Answers ==
    (UNION {w.answers[p] : w \in EventWorlds, p \in EventParts})
        \cup (UNION {w.market[d] : w \in EventWorlds, d \in Covered})
EventRows == UNION {ToSet(answer) : answer \in Answers}
StoredRows == EventRows \cup {Sanitized(row) : row \in EventRows}

\* A file that is missing is told from one with any rows, or with none.
MissingIsNoEvents ==
    /\ Missing \notin SUBSET StoredRows
    /\ \A market \in Markets : OwnRequest(market) # Missing

\* Where a provider keeps to its answers, those by stock that are not cut off
\* have what it publishes by day, and a stock has no rows before its listing.
ProviderAgrees ==
    \A w \in EventWorlds :
        /\ \A d \in Covered : \A rows \in w.market[d] : \A row \in ToSet(rows) :
             row.stock \in Stocks => d >= ListedOn[row.stock]
        /\ \A p \in EventParts : \A answer \in w.answers[p] :
             (p.source = "share_float" /\ ~Untrusted(p.stock, answer)
                /\ w.answers[p] = {answer} /\ \A d \in Covered : \E rows \in w.market[d] : w.market[d] = {rows})
               => Prepared(p, ToSet(answer))
                    = UNION {Select(UNION {ToSet(rows) : rows \in w.market[d]}, p.stock) : d \in Covered}

\* What the market days have of a stock, from its listing to day n, and whether
\* all of them up to there are known.
FromDays(stock, n) ==
    UNION {Select(marketDays[d], stock) : d \in {e \in Covered : e >= ListedOn[stock] /\ e <= n}}
DayKnown(stock, d) ==
    IF d < ListedOn[stock] THEN symbolDays[stock][d] # Missing ELSE marketDays[d] # Missing
DaysKnown(stock, n) == \A d \in Covered : d <= n => DayKnown(stock, d)

\* A day that is kept has rows of that day; of a provider that keeps to its
\* answers all of them.
MarketDayRight(d) ==
    /\ marketDays[d] \in SUBSET EventRows /\ \A row \in marketDays[d] : row.ann = d
    /\ Stable => \A rows \in eventWorld.market[d] : marketDays[d] = ToSet(rows)

\* A stock's own days agree with the days of the market, and once its audit is
\* written none is added.
CachesAgree ==
    /\ \A d \in Covered : marketDays[d] # Missing => MarketDayRight(d)
    /\ \A s \in Stocks, d \in Covered : symbolDays[s][d] # Missing =>
         IF d < ListedOn[s] THEN symbolDays[s][d] = {}
         ELSE marketDays[d] # Missing /\ symbolDays[s][d] = Select(marketDays[d], s)
    /\ \A s \in Stocks : audits[s] # Missing =>
         audits[s].files = CachedDays(s) /\ DaysKnown(s, LastCovered)

\* What a partition was built from.
BuiltBy(p, mode, rows) ==
    /\ rows \in SUBSET EventRows
    /\ mode \in {"primary", "fallback"}
    /\ mode = "primary" => \E answer \in eventWorld.answers[p] :
          rows = ToSet(answer) /\ ~(p.source = "share_float" /\ Untrusted(p.stock, answer))
    /\ mode = "fallback" =>
          p.source = "share_float" /\ rows = FromDays(p.stock, LastCovered) /\ DaysKnown(p.stock, LastCovered)

PartitionsBuilt ==
    \A p \in EventParts : answered[p] # Missing =>
        /\ eventPartition[p] = Prepared(p, answered[p].rows) /\ Present(p)
        /\ BuiltBy(p, answered[p].mode, answered[p].rows)
        /\ p.source = "forecast" => {row \in answered[p].rows : row.late} \subseteq anomalies

EventFiles ==
    /\ eventWorld \in EventWorlds
    /\ eventPartition = [p \in EventParts |-> eventPartition[p]]
    /\ answered = [p \in EventParts |-> answered[p]]
    /\ audits = [s \in Stocks |-> audits[s]]
    /\ marketDays = [d \in Covered |-> marketDays[d]]
    /\ symbolDays = [s \in Stocks |-> [d \in Covered |-> symbolDays[s][d]]]

\* The rows of the pages fetched of a day.
Fetched == UNION {ToSet(collector.pages[i]) : i \in 1..Len(collector.pages)}

\* A day that is being fetched has no file yet, and no audit counts it; of a
\* provider that keeps to its answers the pages have the first rows of the day,
\* and at the last page all of them.
PagesRight ==
    /\ collector.pages \in Seq(Seq(EventRows))
    /\ (collector.pc = "fallback" /\ collector.pages # << >>) \/ collector.pc \in {"paged", "cached"} =>
         /\ Day \in Covered /\ Day >= ListedOn[Current.stock]
         /\ symbolDays[Current.stock][Day] = Missing
         /\ audits[Current.stock] = Missing
         /\ collector.pc # "cached" => marketDays[Day] = Missing
    /\ collector.pc = "cached" => marketDays[Day] # Missing /\ collector.memory[Day] = marketDays[Day]
    /\ collector.pc \in {"fallback", "paged"} =>
         /\ Fetched \subseteq EventRows /\ \A row \in Fetched : row.ann = Day
         /\ (Stable /\ Day \in Covered) => \A rows \in eventWorld.market[Day] :
              /\ Fetched \subseteq ToSet(rows)
              /\ \A j \in 1..Len(rows) :
                   collector.pc = "paged" \/ j <= Len(collector.pages) * PageLimit => rows[j] \in Fetched

CollectorShape ==
    /\ collector.pc \in {"off", "walking", "fallback", "paged", "cached", "answered",
                         "source", "quality", "manifest"}
    /\ collector = [pc |-> collector.pc, at |-> collector.at, rows |-> collector.rows,
                    mode |-> collector.mode, day |-> collector.day, pages |-> collector.pages,
                    memory |-> collector.memory]
    /\ collector.memory = [d \in Covered |-> collector.memory[d]]
    /\ \A d \in Covered : collector.memory[d] \in {Missing, marketDays[d]}
    /\ collector.day \in Nat \ {0}

\* The request of a run is its own, with the anomaly policy.
OwnRequestKept == \E market \in Markets : eventRequest = OwnRequest(market)

\* A run has passed partitions that are all on disk; the one it works on is not.
RunsAlong ==
    /\ collector.at \in 1..(Len(EventWalk) + 1)
    /\ collector.pc # "off" =>
         /\ eventManifest = Missing /\ OwnRequestKept
         /\ \A i \in 1..(collector.at - 1) : Present(EventWalk[i])
    /\ collector.pc \in {"fallback", "paged", "cached", "answered"} =>
         collector.at <= Len(EventWalk) /\ ~Present(Current)
    /\ collector.pc \in {"fallback", "paged", "cached"} =>
         /\ Current.source = "share_float" /\ collector.mode = "fallback"
         /\ collector.rows = FromDays(Current.stock, Day - 1) /\ DaysKnown(Current.stock, Day - 1)
    /\ collector.pc = "answered" => BuiltBy(Current, collector.mode, collector.rows)
    /\ collector.pc = "walking" =>
         collector.rows = {} /\ collector.day = 1 /\ collector.pages = << >>

\* The files that seal the pack agree with what they are computed from.
PackAgrees ==
    /\ collector.pc \in {"source", "quality", "manifest"} => collector.at = Len(EventWalk) + 1
    /\ collector.pc \in {"quality", "manifest"} => eventSource.exports = exports
    /\ collector.pc = "manifest" => eventQuality.anomalies = Cardinality(anomalies)
    /\ eventManifest # Missing =>
         collector.pc = "off" /\ EventVerified /\ OwnRequestKept

EventInv ==
    EventFiles /\ CachesAgree /\ PartitionsBuilt /\ CollectorShape /\ RunsAlong /\ PagesRight /\ PackAgrees

\* The walk visits the partitions, and each of them.
LEMMA EventWalkVisits ==
  /\ Len(EventWalk) \in Nat
  /\ \A i \in 1..Len(EventWalk) : EventWalk[i] \in EventParts
  /\ \A p \in EventParts : \E i \in 1..Len(EventWalk) : EventWalk[i] = p
  /\ \A p \in EventParts : p.stock \in Stocks /\ ListedOn[p.stock] \in Nat
  /\ \A s \in Stocks : ListedOn[s] \in Nat
  /\ \A d \in Covered : d \in Nat /\ d >= 1 /\ d <= LastCovered
<1>1. EventWalk \in Seq(EventParts) /\ Len(EventWalk) \in Nat /\ DOMAIN EventWalk = 1..Len(EventWalk)
  BY EventConstants
<1>2. \A p \in EventParts : \E i \in 1..Len(EventWalk) : EventWalk[i] = p
  BY <1>1 DEF EventParts, ToSet
<1>3. \A p \in EventParts : p.stock \in Stocks BY DEF Stocks
<1> QED BY <1>1, <1>2, <1>3, EventConstants DEF Covered

\* Answers are finite sequences of rows.
LEMMA AnswersHaveRows ==
  ASSUME NEW w \in EventWorlds
  PROVE  /\ \A p \in EventParts : \A answer \in w.answers[p] :
              answer \in Seq(EventRows) /\ ToSet(answer) \in SUBSET EventRows
         /\ \A d \in Covered : \A rows \in w.market[d] :
              rows \in Seq(EventRows) /\ ToSet(rows) \in SUBSET EventRows
<1>1. ASSUME NEW answer \in Answers, answer \in Seq(ToSet(answer))
      PROVE  answer \in Seq(EventRows) /\ ToSet(answer) \in SUBSET EventRows
  <2>1. ToSet(answer) \in SUBSET EventRows BY DEF EventRows
  <2> QED BY <1>1, <2>1
<1>2. ASSUME NEW p \in EventParts, NEW answer \in w.answers[p]
      PROVE  answer \in Answers /\ answer \in Seq(ToSet(answer))
  BY EventAnswers DEF Answers
<1>3. ASSUME NEW d \in Covered, NEW rows \in w.market[d]
      PROVE  rows \in Answers /\ rows \in Seq(ToSet(rows))
  BY EventAnswers DEF Answers
<1> QED BY <1>1, <1>2, <1>3

\* What is stored of some rows is a set of rows.
LEMMA PreparedIsStored ==
  ASSUME MissingIsNoEvents, NEW p, NEW rows \in SUBSET EventRows
  PROVE  Prepared(p, rows) # Missing
<1>1. Prepared(p, rows) \in SUBSET StoredRows BY DEF Prepared, StoredRows
<1> QED BY <1>1 DEF MissingIsNoEvents

\* Files that are there stay as they are, and so does what was built from them.
Grows ==
    /\ eventWorld' = eventWorld
    /\ \A d \in Covered : marketDays[d] # Missing => marketDays'[d] = marketDays[d]
    /\ \A s \in Stocks, d \in Covered :
         symbolDays[s][d] # Missing => symbolDays'[s][d] = symbolDays[s][d]

\* What is known of days, and what partitions were built of them, stays as caches grow.
LEMMA CachesGrow ==
  ASSUME Grows
  PROVE  /\ Stable' = Stable
         /\ \A s \in Stocks : \A n : DaysKnown(s, n) => DaysKnown(s, n)' /\ FromDays(s, n)' = FromDays(s, n)
         /\ \A p \in EventParts : \A mode, rows : BuiltBy(p, mode, rows) => BuiltBy(p, mode, rows)'
         /\ \A d \in Covered : marketDays[d] # Missing /\ MarketDayRight(d) => MarketDayRight(d)'
<1>1. Stable' = Stable BY DEF Grows, Stable
<1>2. ASSUME NEW s \in Stocks, NEW n, DaysKnown(s, n)
      PROVE  DaysKnown(s, n)' /\ FromDays(s, n)' = FromDays(s, n)
  <2>1. DaysKnown(s, n)' BY <1>2 DEF Grows, DaysKnown, DayKnown
  <2>2. \A d \in Covered : d >= ListedOn[s] /\ d <= n => marketDays'[d] = marketDays[d]
    <3> SUFFICES ASSUME NEW d \in Covered, d >= ListedOn[s], d <= n
                 PROVE  marketDays'[d] = marketDays[d]
        OBVIOUS
    <3>1. ~(d < ListedOn[s]) BY EventWalkVisits
    <3> QED BY <1>2, <3>1 DEF Grows, DaysKnown, DayKnown
  <2>3. FromDays(s, n)' = FromDays(s, n) BY <2>2 DEF FromDays, Select
  <2> QED BY <2>1, <2>3
<1>3. ASSUME NEW p \in EventParts, NEW mode, NEW rows, BuiltBy(p, mode, rows)
      PROVE  BuiltBy(p, mode, rows)'
  <2>1. p.stock \in Stocks BY EventWalkVisits
  <2>2. mode = "fallback" => /\ DaysKnown(p.stock, LastCovered)'
                             /\ FromDays(p.stock, LastCovered)' = FromDays(p.stock, LastCovered)
    BY <1>2, <1>3, <2>1 DEF BuiltBy
  <2> QED BY <1>3, <2>2 DEF BuiltBy, Grows
<1>4. \A d \in Covered : marketDays[d] # Missing /\ MarketDayRight(d) => MarketDayRight(d)'
  BY <1>1 DEF MarketDayRight, Grows
<1> QED BY <1>1, <1>2, <1>3, <1>4

\* A step that leaves the caches and what is known of them alone.
LEMMA CachesStay ==
  ASSUME UNCHANGED <<eventWorld, audits, eventCaches>>
  PROVE  /\ Grows /\ CachesAgree' = CachesAgree
         /\ \A s, n : FromDays(s, n)' = FromDays(s, n) /\ DaysKnown(s, n)' = DaysKnown(s, n)
<1>1. UNCHANGED <<marketDays, symbolDays>> BY DEF eventCaches
<1>2. Stable' = Stable BY DEF Stable
<1>3. \A s, n : FromDays(s, n)' = FromDays(s, n) /\ DaysKnown(s, n)' = DaysKnown(s, n)
  BY <1>1 DEF FromDays, DaysKnown, DayKnown
<1>4. \A s : CachedDays(s)' = CachedDays(s) BY <1>1 DEF CachedDays
<1>5. CachesAgree' = CachesAgree BY <1>1, <1>2, <1>3, <1>4 DEF CachesAgree, MarketDayRight
<1> QED BY <1>1, <1>3, <1>5 DEF Grows

\* Partitions that stay were built from what has stayed too.
LEMMA PartitionsStay ==
  ASSUME PartitionsBuilt, Grows, UNCHANGED <<eventPartition, answered>>, anomalies \subseteq anomalies'
  PROVE  PartitionsBuilt' /\ \A p : Present(p)' = Present(p)
<1>1. \A p : Present(p)' = Present(p) BY DEF Present
<1>2. ASSUME NEW p \in EventParts, answered[p] # Missing
      PROVE  BuiltBy(p, answered[p].mode, answered[p].rows)'
  <2> PICK mode, rows : mode = answered[p].mode /\ rows = answered[p].rows OBVIOUS
  <2>1. BuiltBy(p, mode, rows) BY <1>2 DEF PartitionsBuilt
  <2>2. BuiltBy(p, mode, rows)' BY <2>1, CachesGrow
  <2>3. answered'[p].mode = mode /\ answered'[p].rows = rows OBVIOUS
  <2> QED BY <2>2, <2>3 DEF BuiltBy
<1> QED BY <1>1, <1>2 DEF PartitionsBuilt

\* A run that has ended leaves files that are as they must be.
LEMMA EventRunEnds ==
  ASSUME EventFiles', CachesAgree', PartitionsBuilt', collector' = Resting,
         eventManifest' = Missing \/ (EventVerified' /\ OwnRequestKept')
  PROVE  EventInv'
<1>1. /\ collector'.pc = "off" /\ collector'.at = 1 /\ collector'.day = 1
      /\ collector'.pages = << >> /\ collector'.memory = NoDays
  BY DEF Resting
<1>2. CollectorShape' BY <1>1 DEF CollectorShape, Resting, NoDays
<1>3. RunsAlong' BY <1>1, EventWalkVisits DEF RunsAlong
<1>4. PagesRight' BY <1>1 DEF PagesRight
<1>5. PackAgrees' BY <1>1 DEF PackAgrees
<1> QED BY <1>2, <1>3, <1>4, <1>5 DEF EventInv

\* A run goes on to the next partition when the one it was at is on disk.
LEMMA EventRunGoesOn ==
  ASSUME CollectorShape, RunsAlong, collector.at <= Len(EventWalk), NextPart,
         EventFiles', CachesAgree', PartitionsBuilt', eventManifest' = Missing, OwnRequestKept',
         \A i \in 1..collector.at : Present(EventWalk[i])',
         \A d \in Covered : collector.memory[d] \in {Missing, marketDays'[d]}
  PROVE  EventInv'
<1>1. collector' = [pc |-> "walking", at |-> collector.at + 1, rows |-> {}, mode |-> "none",
                    day |-> 1, pages |-> << >>, memory |-> collector.memory]
  BY DEF NextPart, Resting
<1>2. /\ collector'.pc = "walking" /\ collector'.at = collector.at + 1 /\ collector'.day = 1
      /\ collector'.rows = {} /\ collector'.pages = << >> /\ collector'.memory = collector.memory
  BY <1>1
<1>3. CollectorShape' BY <1>1 DEF CollectorShape
<1>4. collector'.at \in 1..(Len(EventWalk) + 1) /\ 1..(collector'.at - 1) = 1..collector.at
  BY <1>2, EventWalkVisits DEF RunsAlong
<1>5. RunsAlong' BY <1>2, <1>4 DEF RunsAlong
<1>6. PagesRight' BY <1>2 DEF PagesRight
<1>7. PackAgrees' BY <1>2 DEF PackAgrees
<1> QED BY <1>3, <1>5, <1>6, <1>7 DEF EventInv

\* Where a running collector is.
LEMMA WhereTheRunIs ==
  ASSUME EventInv
  PROVE  /\ collector.at \in Nat /\ collector.at >= 1 /\ collector.at <= Len(EventWalk) + 1
         /\ collector.pc # "off" => eventManifest = Missing /\ OwnRequestKept
         /\ collector.at <= Len(EventWalk) =>
              Current \in EventParts /\ Current.stock \in Stocks /\ ListedOn[Current.stock] \in Nat
         /\ eventManifest # Missing => collector.pc = "off"
BY EventWalkVisits DEF EventInv, RunsAlong, PackAgrees, Current

\* A run starts at the first partition, with nothing in memory.
LEMMA StartEventsKeeps ==
  ASSUME MissingIsNoEvents, EventInv, NEW market \in Markets, StartEvents(market)
  PROVE  EventInv'
<1>1. /\ collector.pc = "off"
      /\ \/ /\ eventRequest = Missing \/ eventRequest.market = market
            /\ eventRequest' = OwnRequest(market)
            /\ collector' = IF eventManifest = Missing THEN [Resting EXCEPT !.pc = "walking"] ELSE Resting
         \/ collector' = Resting /\ eventRequest' = eventRequest
      /\ UNCHANGED <<eventFrame, eventPartition, audits, anomalies, eventCaches, eventSeals, answered>>
  BY DEF StartEvents, EndRun
<1>2. UNCHANGED <<eventWorld, exports, eventSource, eventQuality, eventManifest, marketDays, symbolDays>>
  BY <1>1 DEF eventFrame, eventSeals, eventCaches
<1>3. EventFiles' BY <1>1, <1>2 DEF EventInv, EventFiles
<1>4. CachesAgree' /\ Grows BY <1>1, <1>2, CachesStay DEF EventInv
<1>5. PartitionsBuilt' BY <1>1, <1>4, PartitionsStay DEF EventInv
<1>6. CASE eventManifest # Missing
  <2>1. EventVerified /\ OwnRequestKept BY <1>6 DEF EventInv, PackAgrees
  <2>2. eventRequest' = eventRequest
    <3>1. PICK m \in Markets : eventRequest = OwnRequest(m) BY <2>1 DEF OwnRequestKept
    <3>2. eventRequest.market = m /\ eventRequest # Missing
      BY <3>1 DEF OwnRequest, MissingIsNoEvents
    <3> QED BY <1>1, <3>1, <3>2
  <2>3. EventVerified' /\ OwnRequestKept'
    BY <1>1, <1>2, <2>1, <2>2 DEF EventVerified, EventManifest, Present, OwnRequestKept, eventCaches
  <2> QED BY <1>1, <1>3, <1>4, <1>5, <1>6, <2>3, EventRunEnds
<1>7. CASE eventManifest = Missing /\ collector' = Resting
  BY <1>2, <1>3, <1>4, <1>5, <1>7, EventRunEnds
<1>8. CASE /\ eventManifest = Missing /\ eventRequest' = OwnRequest(market)
           /\ collector' = [Resting EXCEPT !.pc = "walking"]
  <2>1. collector' = [pc |-> "walking", at |-> 1, rows |-> {}, mode |-> "none",
                      day |-> 1, pages |-> << >>, memory |-> NoDays]
    BY <1>8 DEF Resting
  <2>2. CollectorShape' BY <2>1 DEF CollectorShape, NoDays
  <2>3. RunsAlong' BY <1>2, <1>8, <2>1, EventWalkVisits DEF RunsAlong, OwnRequestKept
  <2>4. PagesRight' BY <2>1 DEF PagesRight
  <2>5. PackAgrees' BY <1>2, <1>8, <2>1 DEF PackAgrees
  <2> QED BY <1>3, <1>4, <1>5, <2>2, <2>3, <2>4, <2>5 DEF EventInv
<1> QED BY <1>1, <1>6, <1>7, <1>8

\* A partition that is there is passed.
LEMMA ReuseEventsKeeps == ASSUME EventInv, ReuseEvents PROVE EventInv'
<1>1. /\ collector.pc = "walking" /\ collector.at <= Len(EventWalk) /\ Present(Current)
      /\ collector' = Resting \/ NextPart
      /\ UNCHANGED <<eventFrame, eventRequest, eventPartition, audits, anomalies, eventCaches,
                     eventSeals, answered>>
  BY DEF ReuseEvents, InWalk, EndRun
<1>2. UNCHANGED <<eventWorld, eventManifest, marketDays, symbolDays>>
  BY <1>1 DEF eventFrame, eventSeals, eventCaches
<1>3. EventFiles' BY <1>1, <1>2 DEF EventInv, EventFiles
<1>4. CachesAgree' /\ Grows BY <1>1, <1>2, CachesStay DEF EventInv
<1>5. PartitionsBuilt' /\ \A p : Present(p)' = Present(p)
  BY <1>1, <1>4, PartitionsStay DEF EventInv
<1>6. eventManifest' = Missing /\ OwnRequestKept'
  BY <1>1, <1>2, WhereTheRunIs DEF OwnRequestKept
<1>7. \A i \in 1..collector.at : Present(EventWalk[i])
  <2>1. \A i \in 1..collector.at : i \in 1..(collector.at - 1) \/ i = collector.at
    BY WhereTheRunIs
  <2> QED BY <1>1, <2>1 DEF EventInv, RunsAlong, Current
<1>8. CASE collector' = Resting BY <1>3, <1>4, <1>5, <1>6, <1>8, EventRunEnds
<1>9. CASE NextPart
  <2>1. \A d \in Covered : collector.memory[d] \in {Missing, marketDays'[d]}
    BY <1>2 DEF EventInv, CollectorShape
  <2>2. \A i \in 1..collector.at : Present(EventWalk[i])' BY <1>5, <1>7
  <2>3. CollectorShape /\ RunsAlong BY DEF EventInv
  <2> QED BY <1>1, <1>3, <1>4, <1>5, <1>6, <1>9, <2>1, <2>2, <2>3, EventRunGoesOn
<1> QED BY <1>1, <1>8, <1>9

\* A partition that was not on disk is written.
EventPartitionStep(p, content) ==
    /\ p = Current /\ collector.pc # "off" /\ collector.at <= Len(EventWalk) /\ NextPart
    /\ content # Missing /\ eventPartition' = [eventPartition EXCEPT ![p] = content]
    /\ answered' = [q \in EventParts |-> answered'[q]]
    /\ \A q \in EventParts \ {p} : answered'[q] = answered[q]
    /\ answered'[p] # Missing =>
         /\ content = Prepared(p, answered'[p].rows)
         /\ BuiltBy(p, answered'[p].mode, answered'[p].rows)
         /\ p.source = "forecast" => {row \in answered'[p].rows : row.late} \subseteq anomalies
    /\ UNCHANGED <<eventFrame, eventRequest, audits, anomalies, eventCaches, eventSeals>>

\* The partition the run is at gets its file and what it was built from.
LEMMA EventPartitionWritten ==
  ASSUME MissingIsNoEvents, EventInv, NEW p, NEW content, EventPartitionStep(p, content)
  PROVE  EventInv'
<1> USE DEF EventPartitionStep
<1>1. p \in EventParts BY WhereTheRunIs
<1>2. UNCHANGED <<eventWorld, eventManifest, marketDays, symbolDays>>
  BY DEF eventFrame, eventSeals, eventCaches
<1>3. /\ eventPartition' = [q \in EventParts |-> eventPartition'[q]] /\ eventPartition'[p] = content
      /\ \A q \in EventParts \ {p} : eventPartition'[q] = eventPartition[q]
  BY <1>1 DEF EventInv, EventFiles
<1>4. EventFiles' BY <1>2, <1>3 DEF EventInv, EventFiles
<1>5. CachesAgree' /\ Grows BY <1>2, CachesStay DEF EventInv
<1>6. Present(p)' /\ \A q \in EventParts : Present(q) => Present(q)' BY <1>3 DEF Present
<1>7. PartitionsBuilt'
  <2> SUFFICES ASSUME NEW q \in EventParts, answered'[q] # Missing
               PROVE  /\ eventPartition'[q] = Prepared(q, answered'[q].rows) /\ Present(q)'
                      /\ BuiltBy(q, answered[q].mode, answered[q].rows)'
                      /\ q.source = "forecast" =>
                           {row \in answered'[q].rows : row.late} \subseteq anomalies'
      BY DEF PartitionsBuilt
  <2> PICK mode, rows : mode = answered'[q].mode /\ rows = answered'[q].rows OBVIOUS
  <2>1. /\ eventPartition'[q] = Prepared(q, rows) /\ Present(q)' /\ BuiltBy(q, mode, rows)
        /\ q.source = "forecast" => {row \in rows : row.late} \subseteq anomalies'
    <3>1. CASE q = p BY <1>3, <1>6, <3>1
    <3>2. CASE q # p
      <4>1. answered[q].mode = mode /\ answered[q].rows = rows /\ answered[q] # Missing BY <3>2
      <4> QED BY <1>3, <1>6, <3>2, <4>1 DEF EventInv, PartitionsBuilt
    <3> QED BY <3>1, <3>2
  <2>2. BuiltBy(q, mode, rows)' BY <1>5, <2>1, CachesGrow
  <2> QED BY <2>1, <2>2
<1>8. eventManifest' = Missing /\ OwnRequestKept' BY <1>2, WhereTheRunIs DEF OwnRequestKept
<1>9. \A i \in 1..collector.at : Present(EventWalk[i])'
  <2>1. \A i \in 1..collector.at : i \in 1..(collector.at - 1) \/ EventWalk[i] = p
    BY WhereTheRunIs DEF Current
  <2>2. \A i \in 1..(collector.at - 1) : Present(EventWalk[i]) /\ EventWalk[i] \in EventParts
    BY WhereTheRunIs, EventWalkVisits DEF EventInv, RunsAlong
  <2> QED BY <1>6, <2>1, <2>2
<1>10. \A d \in Covered : collector.memory[d] \in {Missing, marketDays'[d]}
  BY <1>2 DEF EventInv, CollectorShape
<1>11. CollectorShape /\ RunsAlong BY DEF EventInv
<1> QED BY <1>4, <1>5, <1>7, <1>8, <1>9, <1>10, <1>11, EventRunGoesOn

\* A stock that was not listed has an empty partition, which nothing was asked for.
LEMMA WriteUnlistedKeeps ==
  ASSUME MissingIsNoEvents, EventInv, WriteUnlisted PROVE EventInv'
<1> PICK p, content : p = Current /\ content = {} OBVIOUS
<1>1. /\ collector.pc = "walking" /\ collector.at <= Len(EventWalk) /\ ~Present(p) /\ NextPart
      /\ eventPartition' = [eventPartition EXCEPT ![p] = content] /\ answered' = answered
      /\ UNCHANGED <<eventFrame, eventRequest, audits, anomalies, eventCaches, eventSeals>>
  BY DEF WriteUnlisted, InWalk
<1>2. p \in EventParts BY <1>1, WhereTheRunIs
<1>3. answered[p] = Missing /\ answered = [q \in EventParts |-> answered[q]]
  BY <1>1, <1>2 DEF EventInv, PartitionsBuilt, EventFiles
<1>4. content # Missing BY DEF MissingIsNoEvents
<1>5. EventPartitionStep(p, content) BY <1>1, <1>2, <1>3, <1>4 DEF EventPartitionStep
<1> QED BY <1>5, EventPartitionWritten

\* An answer is written as it was prepared, and the run goes on.
LEMMA WriteEventPartitionKeeps ==
  ASSUME MissingIsNoEvents, EventInv, WriteEventPartition PROVE EventInv'
<1> PICK p : p = Current OBVIOUS
<1> PICK mode, rows : mode = collector.mode /\ rows = collector.rows OBVIOUS
<1> PICK content : content = Prepared(p, rows) OBVIOUS
<1>1. /\ collector.pc = "answered" /\ Unrecorded = {} /\ NextPart
      /\ eventPartition' = [eventPartition EXCEPT ![p] = content]
      /\ answered' = [answered EXCEPT ![p] = [mode |-> mode, rows |-> rows]]
      /\ UNCHANGED <<eventFrame, eventRequest, audits, anomalies, eventCaches, eventSeals>>
  BY DEF WriteEventPartition
<1>2. collector.at <= Len(EventWalk) /\ ~Present(p) /\ BuiltBy(p, mode, rows)
  BY <1>1 DEF EventInv, RunsAlong
<1>3. p \in EventParts BY <1>2, WhereTheRunIs
<1>4. /\ answered' = [q \in EventParts |-> answered'[q]]
      /\ answered'[p] = [mode |-> mode, rows |-> rows]
      /\ \A q \in EventParts \ {p} : answered'[q] = answered[q]
  BY <1>1, <1>3 DEF EventInv, EventFiles
<1>5. answered'[p].mode = mode /\ answered'[p].rows = rows BY <1>4
<1>6. content # Missing BY <1>2, PreparedIsStored DEF BuiltBy
<1>7. p.source = "forecast" => {row \in rows : row.late} \subseteq anomalies
  BY <1>1 DEF Unrecorded
<1>8. EventPartitionStep(p, content)
  BY <1>1, <1>2, <1>4, <1>5, <1>6, <1>7 DEF EventPartitionStep
<1> QED BY <1>8, EventPartitionWritten

\* Steps that leave the files under the staging directory as they are.
LEMMA FilesAsTheyAre ==
  ASSUME EventInv,
         UNCHANGED <<eventWorld, eventRequest, eventPartition, audits, eventCaches, answered>>,
         anomalies \subseteq anomalies'
  PROVE  /\ EventFiles' /\ CachesAgree' /\ Grows /\ PartitionsBuilt'
         /\ (\A p : Present(p)' = Present(p)) /\ OwnRequestKept' = OwnRequestKept
         /\ UNCHANGED <<marketDays, symbolDays>> /\ Stable' = Stable
         /\ \A s, n : FromDays(s, n)' = FromDays(s, n) /\ DaysKnown(s, n)' = DaysKnown(s, n)
<1>1. UNCHANGED <<marketDays, symbolDays>> BY DEF eventCaches
<1>2. EventFiles' BY <1>1 DEF EventInv, EventFiles
<1>3. /\ CachesAgree' /\ Grows
      /\ \A s, n : FromDays(s, n)' = FromDays(s, n) /\ DaysKnown(s, n)' = DaysKnown(s, n)
  BY CachesStay DEF EventInv
<1>4. PartitionsBuilt' /\ \A p : Present(p)' = Present(p)
  BY <1>3, PartitionsStay DEF EventInv
<1> QED BY <1>1, <1>2, <1>3, <1>4 DEF OwnRequestKept, Stable

\* An answer is kept in memory, or cut off and so left to the fallback by days.
LEMMA QueryEventsKeeps == ASSUME EventInv, QueryEvents PROVE EventInv'
<1> PICK p : p = Current OBVIOUS
<1>1. /\ collector.pc = "walking" /\ collector.at <= Len(EventWalk) /\ ~Present(p)
      /\ UNCHANGED <<eventFrame, eventRequest, eventPartition, audits, anomalies, eventCaches,
                     eventSeals, answered>>
      /\ \E answer \in eventWorld.answers[p] :
           \/ /\ p.source = "share_float"
              /\ collector' = [collector EXCEPT !.pc = "fallback", !.mode = "fallback"]
           \/ collector' = Resting
           \/ /\ ~(p.source = "share_float" /\ Untrusted(p.stock, answer))
              /\ collector' = [collector EXCEPT !.pc = "answered", !.rows = ToSet(answer),
                                                !.mode = "primary"]
  BY DEF QueryEvents, InWalk, EndRun
<1>2. UNCHANGED <<eventWorld, eventManifest>> BY <1>1 DEF eventFrame, eventSeals
<1>3. /\ EventFiles' /\ CachesAgree' /\ Grows /\ PartitionsBuilt' /\ OwnRequestKept'
      /\ (\A q : Present(q)' = Present(q)) /\ eventManifest = Missing /\ eventManifest' = Missing
      /\ UNCHANGED <<marketDays, symbolDays>>
  BY <1>1, <1>2, FilesAsTheyAre, WhereTheRunIs
<1>4. p \in EventParts BY <1>1, WhereTheRunIs
<1>5. /\ CollectorShape /\ RunsAlong /\ collector.pages = << >> /\ collector.day = 1
      /\ collector.rows = {}
  BY <1>1 DEF EventInv, RunsAlong
<1>6. CASE collector' = Resting BY <1>3, <1>6, EventRunEnds
<1>7. CASE /\ p.source = "share_float"
           /\ collector' = [collector EXCEPT !.pc = "fallback", !.mode = "fallback"]
  <2>1. collector' = [pc |-> "fallback", at |-> collector.at, rows |-> {}, mode |-> "fallback",
                      day |-> 1, pages |-> << >>, memory |-> collector.memory]
    BY <1>5, <1>7 DEF CollectorShape
  <2>2. /\ collector'.pc = "fallback" /\ collector'.at = collector.at /\ collector'.rows = {}
        /\ collector'.mode = "fallback" /\ collector'.day = 1 /\ collector'.pages = << >>
        /\ collector'.memory = collector.memory
    BY <2>1
  <2>3. CollectorShape' BY <1>3, <1>5, <2>1, <2>2 DEF CollectorShape
  <2>4. Current' = p BY <2>2 DEF Current
  <2>5. \A s : FromDays(s, 0)' = {} /\ DaysKnown(s, 0)'
    BY EventWalkVisits DEF FromDays, DaysKnown
  <2>6. RunsAlong'
    <3>1. \A i \in 1..(collector.at - 1) : Present(EventWalk[i])' BY <1>1, <1>3, <1>5 DEF RunsAlong
    <3>2. (Day - 1)' = 0 BY <2>2 DEF Day
    <3>3. /\ FromDays(Current.stock, Day - 1)' = FromDays(p.stock, 0)'
          /\ DaysKnown(Current.stock, Day - 1)' = DaysKnown(p.stock, 0)'
      BY <2>4, <3>2 DEF FromDays, DaysKnown, DayKnown
    <3>4. ~Present(p)' BY <1>1, <1>3
    <3> QED BY <1>1, <1>3, <1>5, <1>7, <2>2, <2>4, <2>5, <3>1, <3>3, <3>4 DEF RunsAlong
  <2>7. Fetched' = {} BY <2>2 DEF Fetched
  <2>8. PagesRight'
    <3>1. \A rows : \A j \in 1..Len(rows) : ~(j <= Len(<< >>) * PageLimit)
      BY EventConstants
    <3> QED BY <2>2, <2>7, <3>1 DEF PagesRight
  <2>9. PackAgrees' BY <1>3, <2>2 DEF PackAgrees
  <2> QED BY <1>3, <2>3, <2>6, <2>8, <2>9 DEF EventInv
<1>8. ASSUME NEW answer \in eventWorld.answers[p],
             ~(p.source = "share_float" /\ Untrusted(p.stock, answer)),
             collector' = [collector EXCEPT !.pc = "answered", !.rows = ToSet(answer),
                                            !.mode = "primary"]
      PROVE  EventInv'
  <2> PICK rows : rows = ToSet(answer) OBVIOUS
  <2>1. collector' = [pc |-> "answered", at |-> collector.at, rows |-> rows, mode |-> "primary",
                      day |-> 1, pages |-> << >>, memory |-> collector.memory]
    BY <1>5, <1>8 DEF CollectorShape
  <2>2. /\ collector'.pc = "answered" /\ collector'.at = collector.at /\ collector'.rows = rows
        /\ collector'.mode = "primary" /\ collector'.pages = << >>
        /\ collector'.memory = collector.memory
    BY <2>1
  <2>3. CollectorShape' BY <1>3, <1>5, <2>1, <2>2 DEF CollectorShape
  <2>4. Current' = p BY <2>2 DEF Current
  <2>5. BuiltBy(p, "primary", rows)'
    <3>1. rows \in SUBSET EventRows BY <1>4, <1>8, AnswersHaveRows DEF EventInv, EventFiles
    <3> QED BY <1>2, <1>8, <3>1 DEF BuiltBy
  <2>6. RunsAlong'
    <3>1. \A i \in 1..(collector.at - 1) : Present(EventWalk[i])' BY <1>1, <1>3, <1>5 DEF RunsAlong
    <3>2. ~Present(p)' BY <1>1, <1>3
    <3>3. BuiltBy(Current, collector.mode, collector.rows)' BY <2>2, <2>4, <2>5 DEF BuiltBy
    <3> QED BY <1>1, <1>3, <1>5, <2>2, <2>4, <3>1, <3>2, <3>3 DEF RunsAlong
  <2>7. PagesRight' BY <2>2 DEF PagesRight
  <2>8. PackAgrees' BY <1>3, <2>2 DEF PackAgrees
  <2> QED BY <1>3, <2>3, <2>6, <2>7, <2>8 DEF EventInv
<1> QED BY <1>1, <1>6, <1>7, <1>8

\* The log of anomalies only grows.
LEMMA RecordAnomalyKeeps == ASSUME EventInv, RecordAnomaly PROVE EventInv'
<1>1. /\ collector.pc = "answered" /\ anomalies \subseteq anomalies' /\ collector' = collector
      /\ UNCHANGED <<eventFrame, eventRequest, eventPartition, audits, eventCaches, eventSeals, answered>>
  BY DEF RecordAnomaly
<1>2. UNCHANGED <<eventWorld, eventManifest>> BY <1>1 DEF eventFrame, eventSeals
<1>3. /\ EventFiles' /\ CachesAgree' /\ Grows /\ PartitionsBuilt' /\ OwnRequestKept'
      /\ (\A q : Present(q)' = Present(q)) /\ eventManifest = Missing
      /\ UNCHANGED <<marketDays, symbolDays>>
  <2>1. OwnRequestKept /\ eventManifest = Missing BY <1>1, WhereTheRunIs
  <2> QED BY <1>1, <1>2, <2>1, FilesAsTheyAre
<1>4. CollectorShape' BY <1>1, <1>3 DEF EventInv, CollectorShape
<1>5. Current' = Current BY <1>1 DEF Current
<1>6. RunsAlong'
  <2>1. BuiltBy(Current, collector.mode, collector.rows) /\ Current \in EventParts
    BY <1>1, WhereTheRunIs DEF EventInv, RunsAlong
  <2> PICK p, mode, rows : p = Current /\ mode = collector.mode /\ rows = collector.rows OBVIOUS
  <2>2. BuiltBy(p, mode, rows)' BY <1>3, <2>1, CachesGrow
  <2>3. BuiltBy(Current, collector.mode, collector.rows)' BY <1>1, <1>5, <2>2 DEF BuiltBy
  <2> QED BY <1>1, <1>2, <1>3, <1>5, <2>3 DEF EventInv, RunsAlong
<1>7. PagesRight' BY <1>1 DEF EventInv, PagesRight
<1>8. PackAgrees' BY <1>1, <1>2, <1>3 DEF PackAgrees
<1> QED BY <1>3, <1>4, <1>6, <1>7, <1>8 DEF EventInv

\* A kill loses what is in memory only; the caches on disk stay.
LEMMA KillCollectorKeeps == ASSUME EventInv, KillCollector PROVE EventInv'
<1>1. /\ collector.pc # "off" /\ collector' = Resting
      /\ UNCHANGED <<eventWorld, eventRequest, eventPartition, audits, anomalies, eventCaches,
                     eventSeals, answered>>
  BY DEF KillCollector, EndRun
<1>2. eventManifest' = Missing BY <1>1, WhereTheRunIs DEF eventSeals
<1> QED BY <1>1, <1>2, FilesAsTheyAre, EventRunEnds

\* The steps towards the seal: partitions, audits and caches are as they were.
LEMMA EventSealSteps ==
  ASSUME EventInv, NEW pc \in {"source", "quality", "manifest"},
         collector.pc \in {"walking", "source", "quality"},
         collector' = [collector EXCEPT !.pc = pc], eventManifest' = Missing,
         UNCHANGED <<eventFrame, eventRequest, eventPartition, audits, anomalies, eventCaches, answered>>
  PROVE  /\ EventFiles' /\ CachesAgree' /\ PartitionsBuilt' /\ CollectorShape' /\ RunsAlong'
         /\ PagesRight' /\ collector'.pc = pc /\ collector'.at = collector.at
<1>1. eventWorld' = eventWorld BY DEF eventFrame
<1>2. /\ EventFiles' /\ CachesAgree' /\ PartitionsBuilt' /\ (\A p : Present(p)' = Present(p))
      /\ UNCHANGED <<marketDays, symbolDays>> /\ OwnRequestKept' = OwnRequestKept
  BY <1>1, FilesAsTheyAre
<1>3. OwnRequestKept BY WhereTheRunIs
<1>4. CollectorShape /\ RunsAlong /\ PagesRight BY DEF EventInv
<1>5. collector' = [pc |-> pc, at |-> collector.at, rows |-> collector.rows,
                    mode |-> collector.mode, day |-> collector.day, pages |-> collector.pages,
                    memory |-> collector.memory]
  BY <1>4 DEF CollectorShape
<1>6. /\ collector'.pc = pc /\ collector'.at = collector.at /\ collector'.memory = collector.memory
      /\ collector'.pages = collector.pages
  BY <1>5
<1>7. CollectorShape' BY <1>2, <1>4, <1>5, <1>6 DEF CollectorShape
<1>8. RunsAlong' BY <1>2, <1>3, <1>4, <1>6 DEF RunsAlong
<1>9. PagesRight' BY <1>4, <1>6 DEF PagesRight
<1> QED BY <1>2, <1>6, <1>7, <1>8, <1>9

\* Exports are written past the walk.
LEMMA WriteExportsKeeps == ASSUME EventInv, WriteExports PROVE EventInv'
<1>1. /\ collector.pc = "walking" /\ collector.at > Len(EventWalk)
      /\ collector' = [collector EXCEPT !.pc = "source"] /\ eventManifest' = eventManifest
      /\ UNCHANGED <<eventFrame, eventRequest, eventPartition, audits, anomalies, eventCaches, answered>>
  BY DEF WriteExports
<1>2. eventManifest' = Missing /\ collector.at = Len(EventWalk) + 1
  BY <1>1, WhereTheRunIs, EventWalkVisits
<1>3. /\ EventFiles' /\ CachesAgree' /\ PartitionsBuilt' /\ CollectorShape' /\ RunsAlong'
      /\ PagesRight' /\ collector'.pc = "source" /\ collector'.at = collector.at
  BY <1>1, <1>2, EventSealSteps
<1>4. PackAgrees' BY <1>2, <1>3 DEF PackAgrees
<1> QED BY <1>3, <1>4 DEF EventInv

\* The first seal names them.
LEMMA WriteEventSourceKeeps == ASSUME EventInv, WriteEventSource PROVE EventInv'
<1>1. /\ collector.pc = "source"
      /\ collector' = [collector EXCEPT !.pc = "quality"] /\ eventManifest' = eventManifest
      /\ \E instant \in Instants : eventSource' = [exports |-> exports, at |-> instant]
      /\ exports' = exports
      /\ UNCHANGED <<eventFrame, eventRequest, eventPartition, audits, anomalies, eventCaches, answered>>
  BY DEF WriteEventSource
<1>2. eventManifest' = Missing /\ collector.at = Len(EventWalk) + 1
  BY <1>1, WhereTheRunIs DEF EventInv, PackAgrees
<1>3. /\ EventFiles' /\ CachesAgree' /\ PartitionsBuilt' /\ CollectorShape' /\ RunsAlong'
      /\ PagesRight' /\ collector'.pc = "quality" /\ collector'.at = collector.at
  BY <1>1, <1>2, EventSealSteps
<1>4. eventSource'.exports = exports' BY <1>1
<1>5. PackAgrees' BY <1>2, <1>3, <1>4 DEF PackAgrees
<1> QED BY <1>3, <1>5 DEF EventInv

\* The second has the anomalies that are logged.
LEMMA WriteEventQualityKeeps == ASSUME EventInv, WriteEventQuality PROVE EventInv'
<1>1. /\ collector.pc = "quality" /\ eventManifest' = eventManifest
      /\ \/ eventQuality' = Quality /\ collector' = [collector EXCEPT !.pc = "manifest"]
         \/ collector' = Resting
      /\ UNCHANGED <<exports, eventSource>>
      /\ UNCHANGED <<eventFrame, eventRequest, eventPartition, audits, anomalies, eventCaches, answered>>
  BY DEF WriteEventQuality, EndRun
<1>2. /\ eventManifest' = Missing /\ collector.at = Len(EventWalk) + 1 /\ eventSource.exports = exports
      /\ eventWorld' = eventWorld
  BY <1>1, WhereTheRunIs DEF EventInv, PackAgrees, eventFrame
<1>3. CASE collector' = Resting BY <1>1, <1>2, <1>3, FilesAsTheyAre, EventRunEnds
<1>4. CASE eventQuality' = Quality /\ collector' = [collector EXCEPT !.pc = "manifest"]
  <2>1. /\ EventFiles' /\ CachesAgree' /\ PartitionsBuilt' /\ CollectorShape' /\ RunsAlong'
        /\ PagesRight' /\ collector'.pc = "manifest" /\ collector'.at = collector.at
    BY <1>1, <1>2, <1>4, EventSealSteps
  <2>2. eventQuality'.anomalies = Cardinality(anomalies) /\ anomalies' = anomalies
    BY <1>1, <1>4 DEF Quality
  <2>3. PackAgrees' BY <1>1, <1>2, <2>1, <2>2 DEF PackAgrees
  <2> QED BY <2>1, <2>3 DEF EventInv
<1> QED BY <1>1, <1>3, <1>4

\* The manifest is written over files that the next start accepts.
LEMMA WriteEventManifestKeeps == ASSUME EventInv, WriteEventManifest PROVE EventInv'
<1>1. /\ collector.pc = "manifest" /\ eventManifest' = EventManifest /\ collector' = Resting
      /\ UNCHANGED <<exports, eventSource, eventQuality>>
      /\ UNCHANGED <<eventFrame, eventRequest, eventPartition, audits, anomalies, eventCaches, answered>>
  BY DEF WriteEventManifest, EndRun
<1>2. /\ collector.at = Len(EventWalk) + 1 /\ eventSource.exports = exports
      /\ eventQuality.anomalies = Cardinality(anomalies) /\ eventWorld' = eventWorld /\ OwnRequestKept
  BY <1>1, WhereTheRunIs DEF EventInv, PackAgrees, eventFrame
<1>3. \A p \in EventParts : Present(p)
  <2>1. collector.at - 1 = Len(EventWalk) BY <1>2, EventWalkVisits
  <2>2. \A i \in 1..Len(EventWalk) : Present(EventWalk[i]) BY <1>1, <2>1 DEF EventInv, RunsAlong
  <2> QED BY <2>2, EventWalkVisits
<1>4. EventManifest' = EventManifest BY <1>1 DEF EventManifest
<1>5. EventVerified' BY <1>1, <1>2, <1>3, <1>4 DEF EventVerified, Present
<1> QED BY <1>1, <1>2, <1>5, FilesAsTheyAre, EventRunEnds

-----------------------------------------------------------------------------
(* The events: the days of the fallback *)

\* One more day, and what the days before it have.
LEMMA NextDay ==
  ASSUME NEW s \in Stocks, NEW day \in Covered
  PROVE  /\ FromDays(s, day)
              = FromDays(s, day - 1) \cup
                  (IF day >= ListedOn[s] THEN Select(marketDays[day], s) ELSE {})
         /\ DaysKnown(s, day - 1) /\ DayKnown(s, day) => DaysKnown(s, day)
<1>1. \A d \in Covered : d <= day <=> d <= day - 1 \/ d = day BY EventWalkVisits
<1> QED BY <1>1 DEF FromDays, DaysKnown

\* Where a fallback is.
LEMMA InTheFallback ==
  ASSUME EventInv, collector.pc \in {"fallback", "paged", "cached"}
  PROVE  /\ collector.at <= Len(EventWalk) /\ ~Present(Current) /\ Current \in EventParts
         /\ Current.source = "share_float" /\ Current.stock \in Stocks
         /\ ListedOn[Current.stock] \in Nat /\ collector.mode = "fallback"
         /\ collector.rows = FromDays(Current.stock, Day - 1) /\ DaysKnown(Current.stock, Day - 1)
         /\ eventManifest = Missing /\ OwnRequestKept /\ Day \in Nat \ {0}
         /\ Day <= LastCovered => Day \in Covered
         /\ \A i \in 1..(collector.at - 1) : Present(EventWalk[i])
<1>1. collector.at <= Len(EventWalk) BY DEF EventInv, RunsAlong
<1>2. Day \in Nat \ {0} BY DEF EventInv, CollectorShape, Day
<1>3. Day <= LastCovered => Day \in Covered BY <1>2, EventConstants DEF Covered
<1> QED BY <1>1, <1>2, <1>3, WhereTheRunIs DEF EventInv, RunsAlong

\* What no step of a fallback touches.
FallbackFrame ==
    /\ Grows /\ EventFiles' /\ CachesAgree'
    /\ UNCHANGED <<eventRequest, eventPartition, anomalies, answered, eventManifest>>

\* A step of the fallback touches no partition, and what is known of days stays.
LEMMA FallbackKeeps ==
  ASSUME EventInv, collector.pc \in {"fallback", "paged", "cached"}, FallbackFrame
  PROVE  /\ PartitionsBuilt' /\ OwnRequestKept' /\ eventManifest' = Missing /\ Stable' = Stable
         /\ \A p : Present(p)' = Present(p)
         /\ \A s \in Stocks : \A n : DaysKnown(s, n) => DaysKnown(s, n)' /\ FromDays(s, n)' = FromDays(s, n)
<1>1. PartitionsBuilt' /\ \A p : Present(p)' = Present(p)
  BY PartitionsStay DEF EventInv, FallbackFrame
<1>2. OwnRequestKept' /\ eventManifest' = Missing
  BY InTheFallback DEF OwnRequestKept, FallbackFrame
<1> QED BY <1>1, <1>2, CachesGrow DEF FallbackFrame

\* A day is done: its rows are added, and the next one begins without pages.
DayDone(p, day, rows, memory) ==
    /\ p = Current /\ day = Day /\ collector.pc \in {"fallback", "cached"} /\ day \in Covered
    /\ collector' = [pc |-> "fallback", at |-> collector.at, rows |-> collector.rows \cup rows,
                     mode |-> "fallback", day |-> day + 1, pages |-> << >>, memory |-> memory]
    /\ memory = [d \in Covered |-> memory[d]]
    /\ \A d \in Covered : memory[d] \in {Missing, marketDays'[d]}
    /\ rows = IF day >= ListedOn[p.stock] THEN Select(marketDays'[day], p.stock) ELSE {}
    /\ DayKnown(p.stock, day)'
    /\ FallbackFrame

\* One more day of the fallback has given its rows.
LEMMA DayDoneKeeps ==
  ASSUME EventInv, NEW p, NEW day, NEW rows, NEW memory, DayDone(p, day, rows, memory)
  PROVE  EventInv'
<1>1. /\ p \in EventParts /\ p.stock \in Stocks /\ p.source = "share_float" /\ ~Present(p)
      /\ collector.at <= Len(EventWalk)
      /\ collector.rows = FromDays(p.stock, day - 1) /\ DaysKnown(p.stock, day - 1)
      /\ day \in Nat \ {0} /\ \A i \in 1..(collector.at - 1) : Present(EventWalk[i])
  BY InTheFallback DEF DayDone
<1>2. /\ PartitionsBuilt' /\ OwnRequestKept' /\ eventManifest' = Missing
      /\ \A q : Present(q)' = Present(q)
      /\ DaysKnown(p.stock, day - 1)' /\ FromDays(p.stock, day - 1)' = FromDays(p.stock, day - 1)
  BY <1>1, FallbackKeeps DEF DayDone
<1>3. /\ collector'.pc = "fallback" /\ collector'.at = collector.at
      /\ collector'.rows = collector.rows \cup rows /\ collector'.mode = "fallback"
      /\ collector'.day = day + 1 /\ collector'.pages = << >> /\ collector'.memory = memory
  BY DEF DayDone
<1>4. CollectorShape' BY <1>1, <1>3 DEF CollectorShape, DayDone
<1>5. Current' = p BY <1>3 DEF Current, DayDone
<1>6. (Day - 1)' = day BY <1>1, <1>3 DEF Day
<1>7. /\ FromDays(p.stock, day)' = FromDays(p.stock, day - 1) \cup rows
      /\ DaysKnown(p.stock, day)'
  <2>1. /\ FromDays(p.stock, day)'
             = FromDays(p.stock, day - 1)' \cup
                 (IF day >= ListedOn[p.stock] THEN Select(marketDays'[day], p.stock) ELSE {})
        /\ DaysKnown(p.stock, day - 1)' /\ DayKnown(p.stock, day)' => DaysKnown(p.stock, day)'
    <3>1. \A d \in Covered : d <= day <=> d <= day - 1 \/ d = day
      BY EventWalkVisits DEF DayDone
    <3> QED BY <3>1 DEF FromDays, DaysKnown, DayDone
  <2> QED BY <1>2, <2>1 DEF DayDone
<1>8. /\ FromDays(Current.stock, Day - 1)' = FromDays(p.stock, day)'
      /\ DaysKnown(Current.stock, Day - 1)' = DaysKnown(p.stock, day)'
  BY <1>5, <1>6 DEF FromDays, DaysKnown, DayKnown
<1>9. RunsAlong'
  <2>1. ~Present(p)' /\ \A i \in 1..(collector.at - 1) : Present(EventWalk[i])' BY <1>1, <1>2
  <2>2. collector.at \in 1..(Len(EventWalk) + 1) BY DEF EventInv, RunsAlong
  <2> QED BY <1>1, <1>2, <1>3, <1>5, <1>7, <1>8, <2>1, <2>2 DEF RunsAlong
<1>10. Fetched' = {} BY <1>3 DEF Fetched
<1>11. PagesRight'
  <2>1. \A rs : \A j \in 1..Len(rs) : ~(j <= Len(<< >>) * PageLimit) BY EventConstants
  <2> QED BY <1>3, <1>10, <2>1 DEF PagesRight
<1>12. PackAgrees' BY <1>2, <1>3 DEF PackAgrees
<1> QED BY <1>2, <1>4, <1>9, <1>11, <1>12 DEF EventInv, DayDone, FallbackFrame

\* A step that adds no file to the caches.
LEMMA NothingCached ==
  ASSUME EventInv,
         UNCHANGED <<eventFrame, eventRequest, eventPartition, audits, anomalies, eventCaches,
                     eventSeals, answered>>
  PROVE  FallbackFrame /\ UNCHANGED <<eventWorld, marketDays, symbolDays, audits>>
<1>1. UNCHANGED <<eventWorld, eventManifest>> BY DEF eventFrame, eventSeals
<1> QED BY <1>1, FilesAsTheyAre DEF FallbackFrame

\* A day that the stock has of its own is used as it is.
LEMMA UseSymbolDayKeeps == ASSUME EventInv, UseSymbolDay PROVE EventInv'
<1> PICK p, day, memory : p = Current /\ day = Day /\ memory = collector.memory OBVIOUS
<1> PICK rows : rows = symbolDays[p.stock][day] OBVIOUS
<1>1. /\ collector.pc = "fallback" /\ day <= LastCovered /\ rows # Missing /\ KeepDay(rows)
      /\ UNCHANGED <<eventFrame, eventRequest, eventPartition, audits, anomalies, eventCaches,
                     eventSeals, answered>>
  BY DEF UseSymbolDay, InFallback
<1>2. FallbackFrame /\ UNCHANGED <<marketDays, symbolDays>> BY <1>1, NothingCached
<1>3. day \in Covered /\ p.stock \in Stocks /\ collector.mode = "fallback"
      /\ ListedOn[p.stock] \in Nat
  BY <1>1, InTheFallback
<1>4. /\ rows = IF day >= ListedOn[p.stock] THEN Select(marketDays[day], p.stock) ELSE {}
      /\ DayKnown(p.stock, day)
  <2>1. day < ListedOn[p.stock] <=> ~(day >= ListedOn[p.stock]) BY <1>3, EventWalkVisits
  <2> QED BY <1>1, <1>3, <2>1 DEF EventInv, CachesAgree, DayKnown
<1>5. DayKnown(p.stock, day)' BY <1>2, <1>4 DEF DayKnown
<1>6. CollectorShape BY DEF EventInv
<1>7. collector' = [pc |-> "fallback", at |-> collector.at, rows |-> collector.rows \cup rows,
                    mode |-> "fallback", day |-> day + 1, pages |-> << >>, memory |-> memory]
  BY <1>1, <1>3, <1>6 DEF CollectorShape, KeepDay, Day
<1>8. DayDone(p, day, rows, memory)
  BY <1>1, <1>2, <1>3, <1>4, <1>5, <1>6, <1>7 DEF DayDone, CollectorShape
<1> QED BY <1>8, DayDoneKeeps

\* A day of the market is used for the rows of the stock.
LEMMA UseMarketDayKeeps == ASSUME EventInv, UseMarketDay PROVE EventInv'
<1> PICK p, day : p = Current /\ day = Day OBVIOUS
<1> PICK known : known = KnownDay OBVIOUS
<1> PICK rows, memory : rows = Select(known, p.stock) /\ memory = [collector.memory EXCEPT ![day] = known]
  OBVIOUS
<1>1. /\ collector.pc = "fallback" /\ day <= LastCovered /\ known # Missing
      /\ symbolDays[p.stock][day] = Missing /\ day >= ListedOn[p.stock]
      /\ collector' = [collector EXCEPT !.rows = @ \cup rows, !.day = @ + 1, !.memory[day] = known]
      /\ UNCHANGED <<eventFrame, eventRequest, eventPartition, audits, anomalies, eventCaches,
                     eventSeals, answered>>
  BY DEF UseMarketDay, InFallback
<1>2. FallbackFrame /\ UNCHANGED <<marketDays, symbolDays>> BY <1>1, NothingCached
<1>3. day \in Covered /\ p.stock \in Stocks /\ collector.mode = "fallback"
      /\ ListedOn[p.stock] \in Nat
  BY <1>1, InTheFallback
<1>4. CollectorShape BY DEF EventInv
<1>5. known = marketDays[day] BY <1>1, <1>3, <1>4 DEF KnownDay, CollectorShape, Day
<1>6. collector.pages = << >>
  <2>1. collector.pages # << >> => marketDays[day] = Missing BY <1>1 DEF EventInv, PagesRight
  <2> QED BY <1>1, <1>5, <2>1
<1>7. DayKnown(p.stock, day)'
  <2>1. ~(day < ListedOn[p.stock]) BY <1>1, <1>3, EventWalkVisits
  <2> QED BY <1>1, <1>2, <1>5, <2>1 DEF DayKnown
<1>8. collector' = [pc |-> "fallback", at |-> collector.at, rows |-> collector.rows \cup rows,
                    mode |-> "fallback", day |-> day + 1, pages |-> << >>, memory |-> memory]
  BY <1>1, <1>3, <1>4, <1>6 DEF CollectorShape, Day
<1>9. /\ memory = [d \in Covered |-> memory[d]]
      /\ \A d \in Covered : memory[d] \in {Missing, marketDays'[d]}
  BY <1>2, <1>3, <1>4, <1>5 DEF CollectorShape
<1>10. DayDone(p, day, rows, memory)
  BY <1>1, <1>2, <1>3, <1>5, <1>7, <1>8, <1>9 DEF DayDone
<1> QED BY <1>10, DayDoneKeeps

\* A file of a stock's day is added where its audit does not count it.
SymbolDayStep(p, day, rows) ==
    /\ p \in EventParts /\ day \in Covered /\ rows # Missing
    /\ symbolDays[p.stock][day] = Missing /\ audits[p.stock] = Missing
    /\ rows = IF day < ListedOn[p.stock] THEN {} ELSE Select(marketDays[day], p.stock)
    /\ day >= ListedOn[p.stock] => marketDays[day] # Missing
    /\ symbolDays' = [symbolDays EXCEPT ![p.stock][day] = rows]
    /\ UNCHANGED <<eventFrame, eventRequest, eventPartition, audits, anomalies, marketDays,
                   eventSeals, answered>>

\* A day that a stock gets of its own agrees with the market; no audit counts it yet.
LEMMA SymbolDayAdded ==
  ASSUME EventInv, NEW p, NEW day, NEW rows, SymbolDayStep(p, day, rows)
  PROVE  FallbackFrame /\ symbolDays'[p.stock][day] = rows
<1> USE DEF SymbolDayStep
<1> PICK s : s = p.stock OBVIOUS
<1>1. s \in Stocks /\ ListedOn[s] \in Nat BY EventWalkVisits
<1>2. symbolDays = [t \in Stocks |-> [d \in Covered |-> symbolDays[t][d]]] BY DEF EventInv, EventFiles
<1>3. /\ symbolDays' = [t \in Stocks |-> [d \in Covered |-> symbolDays'[t][d]]]
      /\ symbolDays'[s][day] = rows
      /\ \A d \in Covered \ {day} : symbolDays'[s][d] = symbolDays[s][d]
      /\ \A t \in Stocks \ {s} : symbolDays'[t] = symbolDays[t]
  BY <1>1, <1>2
<1>4. UNCHANGED <<eventWorld, eventManifest>> BY DEF eventFrame, eventSeals
<1>5. Grows BY <1>3, <1>4 DEF Grows
<1>6. EventFiles' BY <1>3, <1>4 DEF EventInv, EventFiles
<1>7. CachesAgree'
  <2>1. \A d \in Covered : marketDays'[d] # Missing => MarketDayRight(d)'
    BY <1>5, CachesGrow DEF EventInv, CachesAgree
  <2>2. ASSUME NEW t \in Stocks, NEW d \in Covered, symbolDays'[t][d] # Missing
        PROVE  IF d < ListedOn[t] THEN symbolDays'[t][d] = {}
               ELSE marketDays[d] # Missing /\ symbolDays'[t][d] = Select(marketDays[d], t)
    <3>1. CASE t = s /\ d = day
      <4>1. ~(day < ListedOn[s]) => day >= ListedOn[s] BY <1>1, EventWalkVisits
      <4> QED BY <1>3, <3>1, <4>1
    <3>2. CASE ~(t = s /\ d = day)
      <4>1. symbolDays'[t][d] = symbolDays[t][d] BY <1>3, <3>2
      <4> QED BY <2>2, <4>1 DEF EventInv, CachesAgree
    <3> QED BY <3>1, <3>2
  <2>3. ASSUME NEW t \in Stocks, audits[t] # Missing
        PROVE  audits[t].files = CachedDays(t)' /\ DaysKnown(t, LastCovered)'
    <3>1. t # s BY <2>3
    <3>2. CachedDays(t)' = CachedDays(t) BY <1>3, <3>1 DEF CachedDays
    <3>3. audits[t].files = CachedDays(t) /\ DaysKnown(t, LastCovered)
      BY <2>3 DEF EventInv, CachesAgree
    <3> QED BY <1>5, <3>2, <3>3, CachesGrow
  <2> QED BY <2>1, <2>2, <2>3 DEF CachesAgree
<1> QED BY <1>3, <1>4, <1>5, <1>6, <1>7 DEF FallbackFrame

\* No day is added to a stock whose audit is written.
LEMMA NoAuditYet ==
  ASSUME EventInv, NEW s \in Stocks, NEW day \in Covered, ~DayKnown(s, day)
  PROVE  audits[s] = Missing
<1>1. day <= LastCovered BY EventWalkVisits
<1> QED BY <1>1 DEF EventInv, CachesAgree, DaysKnown

\* A day before the listing is kept for the stock, empty.
LEMMA SkipUnlistedDayKeeps ==
  ASSUME MissingIsNoEvents, EventInv, SkipUnlistedDay PROVE EventInv'
<1> PICK p, day, memory : p = Current /\ day = Day /\ memory = collector.memory OBVIOUS
<1> PICK rows : rows = {} OBVIOUS
<1>1. /\ collector.pc = "fallback" /\ day <= LastCovered /\ KeepDay(rows)
      /\ symbolDays[p.stock][day] = Missing /\ day < ListedOn[p.stock]
      /\ symbolDays' = [symbolDays EXCEPT ![p.stock][day] = rows]
      /\ UNCHANGED <<eventFrame, eventRequest, eventPartition, audits, anomalies, marketDays,
                     eventSeals, answered>>
  BY DEF SkipUnlistedDay, InFallback
<1>2. /\ day \in Covered /\ p.stock \in Stocks /\ collector.mode = "fallback"
      /\ ListedOn[p.stock] \in Nat /\ p \in EventParts
  BY <1>1, InTheFallback
<1>3. ~(day >= ListedOn[p.stock]) BY <1>1, <1>2, EventWalkVisits
<1>4. audits[p.stock] = Missing BY <1>1, <1>2, NoAuditYet DEF DayKnown
<1>5. rows # Missing BY DEF MissingIsNoEvents
<1>6. FallbackFrame /\ symbolDays'[p.stock][day] = rows
  <2>1. SymbolDayStep(p, day, rows)
    BY <1>1, <1>2, <1>3, <1>4, <1>5 DEF SymbolDayStep
  <2> QED BY <2>1, SymbolDayAdded
<1>7. DayKnown(p.stock, day)' BY <1>1, <1>5, <1>6 DEF DayKnown
<1>8. CollectorShape BY DEF EventInv
<1>9. collector' = [pc |-> "fallback", at |-> collector.at, rows |-> collector.rows \cup rows,
                    mode |-> "fallback", day |-> day + 1, pages |-> << >>, memory |-> memory]
  BY <1>1, <1>2, <1>8 DEF CollectorShape, KeepDay, Day
<1>10. DayDone(p, day, rows, memory)
  BY <1>1, <1>2, <1>3, <1>6, <1>7, <1>8, <1>9 DEF DayDone, CollectorShape
<1> QED BY <1>10, DayDoneKeeps

\* A day that was fetched is kept for the stock as well.
LEMMA WriteSymbolDayKeeps ==
  ASSUME MissingIsNoEvents, EventInv, WriteSymbolDay PROVE EventInv'
<1> PICK p, day, memory : p = Current /\ day = Day /\ memory = collector.memory OBVIOUS
<1> PICK rows : rows = Select(memory[day], p.stock) OBVIOUS
<1>1. /\ collector.pc = "cached" /\ KeepDay(rows)
      /\ symbolDays' = [symbolDays EXCEPT ![p.stock][day] = rows]
      /\ UNCHANGED <<eventFrame, eventRequest, eventPartition, audits, anomalies, marketDays,
                     eventSeals, answered>>
  BY DEF WriteSymbolDay
<1>2. /\ day \in Covered /\ day >= ListedOn[p.stock] /\ symbolDays[p.stock][day] = Missing
      /\ audits[p.stock] = Missing /\ marketDays[day] # Missing /\ memory[day] = marketDays[day]
  BY <1>1 DEF EventInv, PagesRight, Day
<1>3. /\ p.stock \in Stocks /\ collector.mode = "fallback"
      /\ ListedOn[p.stock] \in Nat /\ p \in EventParts
  BY <1>1, InTheFallback
<1>4. ~(day < ListedOn[p.stock]) BY <1>2, <1>3, EventWalkVisits
<1>5. rows # Missing
  <2>1. marketDays[day] \in SUBSET EventRows
    BY <1>2 DEF EventInv, CachesAgree, MarketDayRight
  <2>2. rows \in SUBSET StoredRows BY <1>2, <2>1 DEF Select, StoredRows
  <2> QED BY <2>2 DEF MissingIsNoEvents
<1>6. FallbackFrame /\ symbolDays'[p.stock][day] = rows
  <2>1. SymbolDayStep(p, day, rows)
    BY <1>1, <1>2, <1>3, <1>4, <1>5 DEF SymbolDayStep
  <2> QED BY <2>1, SymbolDayAdded
<1>7. DayKnown(p.stock, day)' BY <1>1, <1>2, <1>4 DEF DayKnown
<1>8. CollectorShape BY DEF EventInv
<1>9. collector' = [pc |-> "fallback", at |-> collector.at, rows |-> collector.rows \cup rows,
                    mode |-> "fallback", day |-> day + 1, pages |-> << >>, memory |-> memory]
  BY <1>1, <1>3, <1>8 DEF CollectorShape, KeepDay, Day
<1>10. DayDone(p, day, rows, memory)
  BY <1>1, <1>2, <1>6, <1>7, <1>8, <1>9 DEF DayDone, CollectorShape
<1> QED BY <1>10, DayDoneKeeps

-----------------------------------------------------------------------------
(* The events: pages *)

\* A page has the rows from its offset on, as many as fit; a short page ends
\* with the last row.
PageOf(page, rows, offset) ==
    /\ page \in Seq(EventRows)
    /\ \A i \in 1..Len(page) : \E j \in 1..Len(rows) : page[i] = rows[j]
    /\ \A j \in 1..Len(rows) : (j > offset /\ j <= offset + PageLimit)
          => \E i \in 1..Len(page) : page[i] = rows[j]
    /\ Len(page) # PageLimit => Len(rows) <= offset + PageLimit

\* That is what a page is.
LEMMA PageHasRows ==
  ASSUME NEW rows \in Seq(EventRows), NEW offset \in Nat
  PROVE  PageOf(Page(rows, offset), rows, offset)
<1> DEFINE last == Min({Len(rows), offset + PageLimit})
           n == last - offset
           page == Page(rows, offset)
<1>1. /\ PageLimit \in Nat /\ PageLimit > 0 /\ Len(rows) \in Nat /\ offset + PageLimit \in Nat
      /\ \A i \in 1..Len(rows) : rows[i] \in EventRows
  BY EventConstants
<1>2. last \in {Len(rows), offset + PageLimit} /\ last <= Len(rows) /\ last <= offset + PageLimit
  BY <1>1, MinOfTwo
<1>3. page = SubSeq(rows, offset + 1, last) BY DEF Page
<1> HIDE DEF last, page
<1>4. last \in Nat BY <1>1, <1>2
<1>5. CASE offset + 1 <= last
  <2>1. /\ page = [i \in 1..n |-> rows[offset + i]] /\ n \in Nat
        /\ \A i \in 1..n : offset + i \in 1..Len(rows)
    <3>1. /\ page \in Seq(EventRows) /\ Len(page) = n /\ n \in Nat
          /\ \A i \in 1..n : page[i] = rows[offset + i] /\ offset + i \in 1..Len(rows)
      BY <1>1, <1>2, <1>3, <1>4, <1>5
    <3> QED BY <3>1
  <2>2. page \in Seq(EventRows) /\ Len(page) = n BY <1>1, <2>1
  <2>3. \A i \in 1..Len(page) : \E j \in 1..Len(rows) : page[i] = rows[j] BY <2>1, <2>2
  <2>4. \A j \in 1..Len(rows) : (j > offset /\ j <= offset + PageLimit)
               => \E i \in 1..Len(page) : page[i] = rows[j]
    <3> SUFFICES ASSUME NEW j \in 1..Len(rows), j > offset, j <= offset + PageLimit
                 PROVE  \E i \in 1..n : page[i] = rows[j]
        BY <2>2
    <3>1. j - offset \in 1..n /\ offset + (j - offset) = j BY <1>1, <1>2, <1>4
    <3> QED BY <2>1, <3>1
  <2>5. Len(page) # PageLimit => Len(rows) <= offset + PageLimit BY <1>1, <1>2, <1>4, <2>2
  <2>6. PageOf(page, rows, offset) BY <2>2, <2>3, <2>4, <2>5 DEF PageOf
  <2> QED BY <2>6 DEF page
<1>6. CASE ~(offset + 1 <= last)
  <2>1. page = << >> BY <1>1, <1>2, <1>3, <1>4, <1>6
  <2>2. Len(rows) <= offset
    BY <1>1, <1>2, <1>4, <1>6
  <2>3. PageOf(page, rows, offset) BY <1>1, <2>1, <2>2 DEF PageOf
  <2> QED BY <2>3 DEF page
<1> QED BY <1>5, <1>6

\* One more page.
LEMMA OneMorePage ==
  ASSUME NEW pages \in Seq(Seq(EventRows)), NEW page \in Seq(EventRows)
  PROVE  /\ Append(pages, page) \in Seq(Seq(EventRows)) /\ Len(Append(pages, page)) = Len(pages) + 1
         /\ UNION {ToSet(Append(pages, page)[i]) : i \in 1..Len(Append(pages, page))}
              = (UNION {ToSet(pages[i]) : i \in 1..Len(pages)}) \cup ToSet(page)
<1> PICK n : n = Len(pages) OBVIOUS
<1> PICK more : more = Append(pages, page) OBVIOUS
<1>1. n \in Nat /\ 1..(n + 1) = (1..n) \cup {n + 1} OBVIOUS
<1>2. /\ more \in Seq(Seq(EventRows)) /\ Len(more) = n + 1 /\ more[n + 1] = page
      /\ \A i \in 1..n : more[i] = pages[i]
  OBVIOUS
<1>3. UNION {ToSet(more[i]) : i \in 1..(n + 1)} = (UNION {ToSet(pages[i]) : i \in 1..n}) \cup ToSet(page)
  BY <1>1, <1>2
<1> QED BY <1>2, <1>3

\* A page more of the day, or the run ends.
LEMMA FetchPageKeeps == ASSUME EventInv, FetchPage PROVE EventInv'
<1> PICK p, day, pages : p = Current /\ day = Day /\ pages = collector.pages OBVIOUS
<1> PICK n : n = Len(pages) OBVIOUS
<1> PICK offset : offset = IF eventWorld.ignoresOffset THEN 0 ELSE n * PageLimit OBVIOUS
<1>1. /\ collector.pc = "fallback" /\ day <= LastCovered /\ symbolDays[p.stock][day] = Missing
      /\ day >= ListedOn[p.stock] /\ KnownDay = Missing
      /\ UNCHANGED <<eventFrame, eventRequest, eventPartition, audits, anomalies, eventCaches,
                     eventSeals, answered>>
      /\ \E rows \in eventWorld.market[day] : \E page :
           /\ page = Page(rows, offset)
           /\ \/ collector' = Resting
              \/ /\ \A i \in 1..Len(page) : page[i].ann = day
                 /\ collector' = [collector EXCEPT !.pages = Append(@, page),
                        !.pc = IF Len(page) = PageLimit THEN @ ELSE "paged"]
  BY DEF FetchPage, InFallback, EndRun
<1>2. /\ FallbackFrame /\ UNCHANGED <<eventWorld, marketDays, symbolDays, audits>>
  BY <1>1, NothingCached
<1>3. /\ PartitionsBuilt' /\ OwnRequestKept' /\ eventManifest' = Missing /\ Stable' = Stable
      /\ \A q : Present(q)' = Present(q)
      /\ \A s \in Stocks : \A m : DaysKnown(s, m) => DaysKnown(s, m)' /\ FromDays(s, m)' = FromDays(s, m)
  BY <1>1, <1>2, FallbackKeeps
<1>4. /\ day \in Covered /\ p \in EventParts /\ p.stock \in Stocks /\ p.source = "share_float"
      /\ collector.at <= Len(EventWalk) /\ ~Present(p) /\ ListedOn[p.stock] \in Nat
      /\ collector.mode = "fallback" /\ day \in Nat
      /\ collector.rows = FromDays(p.stock, day - 1) /\ DaysKnown(p.stock, day - 1)
      /\ \A i \in 1..(collector.at - 1) : Present(EventWalk[i])
  BY <1>1, InTheFallback
<1>5. CollectorShape /\ RunsAlong /\ PagesRight BY DEF EventInv
<1>6. marketDays[day] = Missing
  BY <1>1, <1>4, <1>5 DEF KnownDay, CollectorShape, Day
<1>7. audits[p.stock] = Missing
  <2>1. ~(day < ListedOn[p.stock]) BY <1>1, <1>4
  <2> QED BY <1>4, <1>6, <2>1, NoAuditYet DEF DayKnown
<1>8. /\ pages \in Seq(Seq(EventRows)) /\ n \in Nat /\ PageLimit \in Nat /\ offset \in Nat
  <2>1. pages \in Seq(Seq(EventRows)) BY <1>5 DEF PagesRight
  <2>2. n \in Nat /\ PageLimit \in Nat BY <2>1, EventConstants
  <2>3. n * PageLimit \in Nat BY <2>2
  <2> QED BY <2>1, <2>2, <2>3
<1>9. CASE collector' = Resting BY <1>2, <1>3, <1>9, EventRunEnds DEF FallbackFrame
<1>10. CASE collector' # Resting
  <2>r. PICK rows \in eventWorld.market[day] :
         \E page :
             /\ page = Page(rows, offset)
             /\ \A i \in 1..Len(page) : page[i].ann = day
             /\ collector' = [collector EXCEPT !.pages = Append(@, page),
                                   !.pc = IF Len(page) = PageLimit THEN @ ELSE "paged"]
      BY <1>1, <1>10
  <2>0. PICK page :
         /\ page = Page(rows, offset)
         /\ \A i \in 1..Len(page) : page[i].ann = day
         /\ collector' = [collector EXCEPT !.pages = Append(@, page),
                               !.pc = IF Len(page) = PageLimit THEN @ ELSE "paged"]
      BY <2>r
  <2> PICK pc : pc = IF Len(page) = PageLimit THEN "fallback" ELSE "paged" OBVIOUS
  <2> PICK more : more = Append(pages, page) OBVIOUS
  <2>1. collector' = [pc |-> pc, at |-> collector.at, rows |-> collector.rows,
                      mode |-> collector.mode, day |-> day, pages |-> more,
                      memory |-> collector.memory]
    BY <1>1, <1>5, <2>0 DEF CollectorShape, Day
  <2>2. /\ collector'.pc = pc /\ collector'.at = collector.at /\ collector'.rows = collector.rows
        /\ collector'.mode = collector.mode /\ collector'.day = day /\ collector'.pages = more
        /\ collector'.memory = collector.memory
    BY <2>1
  <2>3. CollectorShape' BY <1>2, <1>5, <2>1, <2>2 DEF CollectorShape, Day
  <2>4. Current' = p /\ Day' = day BY <2>2 DEF Current, Day
  <2>5. RunsAlong'
    <3>1. /\ FromDays(Current.stock, Day - 1)' = FromDays(p.stock, day - 1)'
          /\ DaysKnown(Current.stock, Day - 1)' = DaysKnown(p.stock, day - 1)'
      BY <2>4 DEF FromDays, DaysKnown, DayKnown
    <3>2. /\ FromDays(p.stock, day - 1)' = FromDays(p.stock, day - 1)
          /\ DaysKnown(p.stock, day - 1)'
      BY <1>3, <1>4
    <3>3. ~Present(p)' /\ \A i \in 1..(collector.at - 1) : Present(EventWalk[i])' BY <1>3, <1>4
    <3>4. pc \in {"fallback", "paged"} OBVIOUS
    <3> QED BY <1>3, <1>4, <1>5, <2>2, <2>4, <3>1, <3>2, <3>3, <3>4 DEF RunsAlong
  <2>6. rows \in Seq(EventRows) BY <1>4, AnswersHaveRows DEF EventInv, EventFiles
  <2>7. /\ page \in Seq(EventRows)
        /\ \A i \in 1..Len(page) : \E j \in 1..Len(rows) : page[i] = rows[j]
        /\ \A j \in 1..Len(rows) : (j > offset /\ j <= offset + PageLimit)
               => \E i \in 1..Len(page) : page[i] = rows[j]
        /\ Len(page) # PageLimit => Len(rows) <= offset + PageLimit
    <3>1. PageOf(page, rows, offset) BY <1>8, <2>0, <2>6, PageHasRows
    <3> QED BY <3>1 DEF PageOf
  <2> PICK fetched : fetched = Fetched OBVIOUS
  <2>8. /\ more \in Seq(Seq(EventRows)) /\ Len(more) = n + 1
        /\ Fetched' = fetched \cup ToSet(page)
    BY <1>8, <2>2, <2>7, OneMorePage DEF Fetched
  <2>9. ToSet(page) = {page[i] : i \in 1..Len(page)} /\ ToSet(rows) = {rows[j] : j \in 1..Len(rows)}
    <3>1. DOMAIN page = 1..Len(page) /\ DOMAIN rows = 1..Len(rows) BY <2>6, <2>7
    <3> QED BY <3>1 DEF ToSet
  <2>10. Fetched' \subseteq EventRows /\ \A row \in Fetched' : row.ann = day
    <3>1. fetched \subseteq EventRows /\ \A row \in fetched : row.ann = day
      BY <1>1, <1>5 DEF PagesRight
    <3>2. ToSet(page) \subseteq EventRows /\ \A row \in ToSet(page) : row.ann = day
      BY <2>0, <2>7, <2>9
    <3> QED BY <2>8, <3>1, <3>2
  <2>11. ASSUME Stable, NEW all \in eventWorld.market[day]
         PROVE  /\ Fetched' \subseteq ToSet(all)
                /\ \A j \in 1..Len(all) : pc = "paged" \/ j <= (n + 1) * PageLimit => all[j] \in Fetched'
    <3>1. all = rows /\ ~eventWorld.ignoresOffset BY <1>4, <2>11 DEF Stable
    <3>2. offset = n * PageLimit /\ (n + 1) * PageLimit = offset + PageLimit BY <1>8, <3>1
    <3>3. /\ fetched \subseteq ToSet(rows)
          /\ \A j \in 1..Len(rows) : j <= offset => rows[j] \in fetched
      BY <1>1, <1>4, <1>5, <2>11, <3>1, <3>2 DEF PagesRight
    <3>4. ToSet(page) \subseteq ToSet(rows) BY <2>7, <2>9
    <3>5. \A j \in 1..Len(rows) : j <= offset + PageLimit => rows[j] \in fetched \cup ToSet(page)
      BY <1>8, <2>7, <2>9, <3>3
    <3>6. pc = "paged" => Len(rows) <= offset + PageLimit BY <2>7
    <3>7. Len(rows) \in Nat /\ \A j \in 1..Len(rows) : j <= Len(rows) BY <2>6
    <3>8. pc = "paged" => \A j \in 1..Len(rows) : j <= offset + PageLimit BY <1>8, <3>6, <3>7
    <3> QED BY <2>8, <3>1, <3>2, <3>3, <3>4, <3>5, <3>8
  <2>12. PagesRight'
    <3>1. symbolDays'[p.stock][day] = Missing /\ audits'[p.stock] = Missing /\ marketDays'[day] = Missing
      BY <1>1, <1>2, <1>6, <1>7
    <3>2. pc \in {"fallback", "paged"} OBVIOUS
    <3>3. Stable' = Stable /\ eventWorld' = eventWorld BY <1>2, <1>3
    <3> QED BY <1>1, <1>4, <2>2, <2>4, <2>8, <2>10, <2>11, <3>1, <3>2, <3>3 DEF PagesRight
  <2>13. PackAgrees' BY <1>3, <2>2 DEF PackAgrees
  <2> QED BY <1>2, <1>3, <2>3, <2>5, <2>12, <2>13 DEF EventInv, FallbackFrame
<1> QED BY <1>1, <1>9, <1>10

\* The rows of all pages are kept as the day, which had no file.
LEMMA WriteMarketDayKeeps ==
  ASSUME MissingIsNoEvents, EventInv, WriteMarketDay PROVE EventInv'
<1> PICK p, day, rows : p = Current /\ day = Day /\ rows = Fetched OBVIOUS
<1> PICK memory : memory = [collector.memory EXCEPT ![day] = rows] OBVIOUS
<1>1. /\ collector.pc = "paged"
      /\ marketDays' = [marketDays EXCEPT ![day] = rows]
      /\ collector' = [collector EXCEPT !.pc = "cached", !.memory[day] = rows]
      /\ UNCHANGED <<eventFrame, eventRequest, eventPartition, audits, anomalies, symbolDays,
                     eventSeals, answered>>
  BY DEF WriteMarketDay, Fetched
<1>2. /\ day \in Covered /\ day >= ListedOn[p.stock] /\ symbolDays[p.stock][day] = Missing
      /\ audits[p.stock] = Missing /\ marketDays[day] = Missing
      /\ rows \subseteq EventRows /\ \A row \in rows : row.ann = day
      /\ Stable => \A all \in eventWorld.market[day] :
           rows \subseteq ToSet(all) /\ \A j \in 1..Len(all) : all[j] \in rows
      /\ collector.pages \in Seq(Seq(EventRows))
  BY <1>1 DEF EventInv, PagesRight, Day
<1>3. /\ p \in EventParts /\ p.stock \in Stocks /\ p.source = "share_float"
      /\ collector.at <= Len(EventWalk) /\ ~Present(p) /\ ListedOn[p.stock] \in Nat
      /\ collector.mode = "fallback" /\ day \in Nat
      /\ collector.rows = FromDays(p.stock, day - 1) /\ DaysKnown(p.stock, day - 1)
      /\ \A i \in 1..(collector.at - 1) : Present(EventWalk[i])
  BY <1>1, InTheFallback
<1>4. rows # Missing
  <2>1. rows \in SUBSET StoredRows BY <1>2 DEF StoredRows
  <2> QED BY <2>1 DEF MissingIsNoEvents
<1>5. UNCHANGED <<eventWorld, eventManifest>> BY <1>1 DEF eventFrame, eventSeals
<1>6. /\ marketDays' = [d \in Covered |-> marketDays'[d]] /\ marketDays'[day] = rows
      /\ \A d \in Covered \ {day} : marketDays'[d] = marketDays[d]
  BY <1>1, <1>2 DEF EventInv, EventFiles
<1>7. Grows BY <1>1, <1>2, <1>5, <1>6 DEF Grows
<1>8. EventFiles' BY <1>1, <1>5, <1>6 DEF EventInv, EventFiles
<1>9. Stable' = Stable BY <1>5 DEF Stable
<1>10. MarketDayRight(day)'
  <2>1. ASSUME Stable, NEW all \in eventWorld.market[day] PROVE rows = ToSet(all)
    <3>1. all \in Seq(EventRows) BY <1>2, AnswersHaveRows DEF EventInv, EventFiles
    <3>2. ToSet(all) = {all[j] : j \in 1..Len(all)} BY <3>1 DEF ToSet
    <3> QED BY <1>2, <2>1, <3>2
  <2> QED BY <1>2, <1>5, <1>6, <1>9, <2>1 DEF MarketDayRight
<1>11. CachesAgree'
  <2>1. ASSUME NEW d \in Covered, marketDays'[d] # Missing PROVE MarketDayRight(d)'
    <3>1. CASE d = day BY <1>10, <3>1
    <3>2. CASE d # day
      <4>1. marketDays[d] # Missing BY <1>6, <2>1, <3>2
      <4> QED BY <1>7, <4>1, CachesGrow DEF EventInv, CachesAgree
    <3> QED BY <3>1, <3>2
  <2>2. ASSUME NEW t \in Stocks, NEW d \in Covered, symbolDays'[t][d] # Missing
        PROVE  IF d < ListedOn[t] THEN symbolDays'[t][d] = {}
               ELSE marketDays'[d] # Missing /\ symbolDays'[t][d] = Select(marketDays'[d], t)
    <3>1. IF d < ListedOn[t] THEN symbolDays[t][d] = {}
          ELSE marketDays[d] # Missing /\ symbolDays[t][d] = Select(marketDays[d], t)
      BY <1>1, <2>2 DEF EventInv, CachesAgree
    <3>2. marketDays[d] # Missing => marketDays'[d] = marketDays[d] BY <1>7 DEF Grows
    <3> QED BY <1>1, <3>1, <3>2
  <2>3. ASSUME NEW t \in Stocks, audits'[t] # Missing
        PROVE  audits'[t].files = CachedDays(t)' /\ DaysKnown(t, LastCovered)'
    <3>1. audits'[t] = audits[t] /\ CachedDays(t)' = CachedDays(t) BY <1>1 DEF CachedDays
    <3>2. audits[t].files = CachedDays(t) /\ DaysKnown(t, LastCovered)
      BY <2>3, <3>1 DEF EventInv, CachesAgree
    <3> QED BY <1>7, <3>1, <3>2, CachesGrow
  <2> QED BY <2>1, <2>2, <2>3 DEF CachesAgree
<1>12. FallbackFrame BY <1>1, <1>5, <1>7, <1>8, <1>11 DEF FallbackFrame
<1>13. /\ PartitionsBuilt' /\ OwnRequestKept' /\ eventManifest' = Missing
       /\ \A q : Present(q)' = Present(q)
       /\ DaysKnown(p.stock, day - 1)' /\ FromDays(p.stock, day - 1)' = FromDays(p.stock, day - 1)
  BY <1>1, <1>3, <1>12, FallbackKeeps
<1>14. CollectorShape /\ RunsAlong BY DEF EventInv
<1>15. collector' = [pc |-> "cached", at |-> collector.at, rows |-> collector.rows,
                     mode |-> collector.mode, day |-> day, pages |-> collector.pages,
                     memory |-> memory]
  BY <1>1, <1>14 DEF CollectorShape, Day
<1>16. /\ collector'.pc = "cached" /\ collector'.at = collector.at /\ collector'.rows = collector.rows
       /\ collector'.mode = collector.mode /\ collector'.day = day
       /\ collector'.pages = collector.pages /\ collector'.memory = memory
  BY <1>15
<1>17. /\ memory = [d \in Covered |-> memory[d]] /\ memory[day] = rows
       /\ \A d \in Covered : memory[d] \in {Missing, marketDays'[d]}
  <2>1. /\ memory = [d \in Covered |-> memory[d]] /\ memory[day] = rows
        /\ \A d \in Covered \ {day} : memory[d] = collector.memory[d]
    BY <1>2, <1>14 DEF CollectorShape
  <2> QED BY <1>6, <1>14, <2>1 DEF CollectorShape
<1>18. CollectorShape' BY <1>3, <1>14, <1>15, <1>16, <1>17 DEF CollectorShape, Day
<1>19. Current' = p /\ Day' = day BY <1>16 DEF Current, Day
<1>20. RunsAlong'
  <2>1. /\ FromDays(Current.stock, Day - 1)' = FromDays(p.stock, day - 1)'
        /\ DaysKnown(Current.stock, Day - 1)' = DaysKnown(p.stock, day - 1)'
    BY <1>19 DEF FromDays, DaysKnown, DayKnown
  <2>2. ~Present(p)' /\ \A i \in 1..(collector.at - 1) : Present(EventWalk[i])' BY <1>3, <1>13
  <2> QED BY <1>3, <1>13, <1>14, <1>16, <1>19, <2>1, <2>2 DEF RunsAlong
<1>21. PagesRight'
  BY <1>1, <1>2, <1>4, <1>6, <1>16, <1>17, <1>19 DEF PagesRight
<1>22. PackAgrees' BY <1>13, <1>16 DEF PackAgrees
<1> QED BY <1>8, <1>11, <1>13, <1>18, <1>20, <1>21, <1>22 DEF EventInv

\* The audit is written past the last day, when no day is left to cache.
LEMMA WriteAuditKeeps == ASSUME EventInv, WriteAudit PROVE EventInv'
<1> PICK p, day, rows : p = Current /\ day = Day /\ rows = collector.rows OBVIOUS
<1> PICK s : s = p.stock OBVIOUS
<1> PICK audit : audit = [files |-> CachedDays(s), rows |-> Cardinality(rows)] OBVIOUS
<1>1. /\ collector.pc = "fallback" /\ day > LastCovered
      /\ audits' = [audits EXCEPT ![s] = audit]
      /\ collector' = [collector EXCEPT !.pc = "answered"]
      /\ UNCHANGED <<eventFrame, eventRequest, eventPartition, anomalies, eventCaches, eventSeals,
                     answered>>
  BY DEF WriteAudit
<1>2. UNCHANGED <<eventWorld, eventManifest, marketDays, symbolDays>>
  BY <1>1 DEF eventFrame, eventSeals, eventCaches
<1>3. /\ p \in EventParts /\ s \in Stocks /\ p.source = "share_float"
      /\ collector.at <= Len(EventWalk) /\ ~Present(p)
      /\ collector.mode = "fallback" /\ day \in Nat
      /\ rows = FromDays(s, day - 1) /\ DaysKnown(s, day - 1)
      /\ \A i \in 1..(collector.at - 1) : Present(EventWalk[i])
  BY <1>1, InTheFallback
<1>4. rows = FromDays(s, LastCovered) /\ DaysKnown(s, LastCovered)
  <2>1. \A d \in Covered : d <= day - 1 /\ d <= LastCovered
    BY <1>1, <1>3, EventWalkVisits, EventConstants
  <2> QED BY <1>3, <2>1 DEF FromDays, DaysKnown
<1>5. rows \in SUBSET EventRows
  <2>1. ASSUME NEW d \in Covered, d >= ListedOn[s] PROVE marketDays[d] \in SUBSET EventRows
    <3>1. ~(d < ListedOn[s]) /\ d <= LastCovered BY <1>3, <2>1, EventWalkVisits
    <3>2. marketDays[d] # Missing BY <1>4, <3>1 DEF DaysKnown, DayKnown
    <3> QED BY <3>2 DEF EventInv, CachesAgree, MarketDayRight
  <2> QED BY <1>4, <2>1 DEF FromDays, Select
<1>6. Grows BY <1>2 DEF Grows
<1>7. /\ audits' = [t \in Stocks |-> audits'[t]] /\ audits'[s] = audit
      /\ \A t \in Stocks \ {s} : audits'[t] = audits[t]
  BY <1>1, <1>3 DEF EventInv, EventFiles
<1>8. EventFiles' BY <1>1, <1>2, <1>7 DEF EventInv, EventFiles
<1>9. CachesAgree'
  <2>1. \A d \in Covered : marketDays'[d] # Missing => MarketDayRight(d)'
    BY <1>2, <1>6, CachesGrow DEF EventInv, CachesAgree
  <2>2. ASSUME NEW t \in Stocks, audits'[t] # Missing
        PROVE  audits'[t].files = CachedDays(t)' /\ DaysKnown(t, LastCovered)'
    <3>1. CachedDays(t)' = CachedDays(t) BY <1>2 DEF CachedDays
    <3>2. audits'[t].files = CachedDays(t) /\ DaysKnown(t, LastCovered)
      <4>1. CASE t = s BY <1>4, <1>7, <4>1
      <4>2. CASE t # s BY <1>7, <2>2, <4>2 DEF EventInv, CachesAgree
      <4> QED BY <4>1, <4>2
    <3> QED BY <1>6, <3>1, <3>2, CachesGrow
  <2> QED BY <1>2, <2>1, <2>2 DEF CachesAgree, EventInv
<1>10. PartitionsBuilt' /\ \A q : Present(q)' = Present(q)
  BY <1>1, <1>6, PartitionsStay DEF EventInv
<1>11. CollectorShape /\ RunsAlong /\ PagesRight /\ OwnRequestKept /\ eventManifest = Missing
  BY <1>1, InTheFallback DEF EventInv
<1>12. OwnRequestKept' /\ eventManifest' = Missing BY <1>1, <1>2, <1>11 DEF OwnRequestKept
<1>13. collector' = [pc |-> "answered", at |-> collector.at, rows |-> rows,
                     mode |-> "fallback", day |-> collector.day, pages |-> collector.pages,
                     memory |-> collector.memory]
  BY <1>1, <1>3, <1>11 DEF CollectorShape
<1>14. /\ collector'.pc = "answered" /\ collector'.at = collector.at /\ collector'.rows = rows
       /\ collector'.mode = "fallback" /\ collector'.pages = collector.pages
       /\ collector'.memory = collector.memory
  BY <1>13
<1>15. CollectorShape' BY <1>2, <1>11, <1>13, <1>14 DEF CollectorShape
<1>16. Current' = p BY <1>14 DEF Current
<1>17. RunsAlong'
  <2>1. BuiltBy(p, "fallback", rows) BY <1>3, <1>4, <1>5 DEF BuiltBy
  <2>2. BuiltBy(p, "fallback", rows)' BY <1>3, <1>6, <2>1, CachesGrow
  <2>3. BuiltBy(Current, collector.mode, collector.rows)' BY <1>14, <1>16, <2>2 DEF BuiltBy
  <2>4. ~Present(p)' /\ \A i \in 1..(collector.at - 1) : Present(EventWalk[i])' BY <1>3, <1>10
  <2> QED BY <1>3, <1>11, <1>12, <1>14, <1>16, <2>3, <2>4 DEF RunsAlong
<1>18. PagesRight' BY <1>11, <1>14 DEF PagesRight
<1>19. PackAgrees' BY <1>12, <1>14 DEF PackAgrees
<1> QED BY <1>8, <1>9, <1>10, <1>15, <1>17, <1>18, <1>19 DEF EventInv

\* A new directory is as it must be.
LEMMA EventsStart == EventInit => EventInv
<1> SUFFICES ASSUME EventInit PROVE EventInv OBVIOUS
<1>1. /\ collector.pc = "off" /\ collector.at = 1 /\ collector.day = 1
      /\ collector.pages = << >> /\ collector.memory = NoDays
  BY DEF EventInit, Resting
<1>2. CollectorShape BY <1>1 DEF CollectorShape, Resting, NoDays, EventInit
<1>3. RunsAlong BY <1>1, EventWalkVisits DEF RunsAlong
<1>4. PagesRight BY <1>1 DEF PagesRight
<1>5. PackAgrees BY <1>1 DEF PackAgrees, EventInit
<1>6. \A d \in Covered : marketDays[d] = Missing BY DEF EventInit, NoDays
<1>7. \A s \in Stocks : audits[s] = Missing /\ \A d \in Covered : symbolDays[s][d] = Missing
  BY DEF EventInit, NoDays
<1>8. CachesAgree BY <1>6, <1>7 DEF CachesAgree
<1>9. PartitionsBuilt BY DEF EventInit, PartitionsBuilt
<1>10. EventFiles BY DEF EventInit, EventFiles, NoDays
<1> QED BY <1>2, <1>3, <1>4, <1>5, <1>8, <1>9, <1>10 DEF EventInv

\* A step of another job, or none.
LEMMA NoEventStep == ASSUME EventInv, UNCHANGED eventVars PROVE EventInv'
<1>1. UNCHANGED <<eventWorld, eventRequest, eventPartition, audits, anomalies, marketDays,
                  symbolDays, exports, eventSource, eventQuality, eventManifest, collector, answered>>
  BY DEF eventVars, eventFrame, eventCaches, eventSeals
<1>2. EventFiles' /\ CachesAgree' /\ PartitionsBuilt' /\ Stable' = Stable
      /\ (\A p : Present(p)' = Present(p)) /\ OwnRequestKept' = OwnRequestKept
      /\ Grows /\ \A s, n : FromDays(s, n)' = FromDays(s, n) /\ DaysKnown(s, n)' = DaysKnown(s, n)
  BY <1>1, FilesAsTheyAre DEF eventCaches
<1>3. Current' = Current /\ Day' = Day /\ Fetched' = Fetched BY <1>1 DEF Current, Day, Fetched
<1>4. CollectorShape' BY <1>1 DEF EventInv, CollectorShape
<1>5. RunsAlong'
  <2>1. BuiltBy(Current, collector.mode, collector.rows)' = BuiltBy(Current, collector.mode, collector.rows)
    BY <1>1 DEF BuiltBy, FromDays, DaysKnown, DayKnown, Current
  <2>2. /\ FromDays(Current.stock, Day - 1)' = FromDays(Current.stock, Day - 1)
        /\ DaysKnown(Current.stock, Day - 1)' = DaysKnown(Current.stock, Day - 1)
    BY <1>1 DEF FromDays, DaysKnown, DayKnown, Current, Day
  <2> QED BY <1>1, <1>2, <1>3, <2>1, <2>2 DEF EventInv, RunsAlong
<1>6. PagesRight' BY <1>1, <1>2, <1>3 DEF EventInv, PagesRight
<1>7. PackAgrees'
  <2>1. EventVerified' = EventVerified
    BY <1>1 DEF EventVerified, EventManifest, Present, eventCaches
  <2> QED BY <1>1, <1>2, <2>1 DEF EventInv, PackAgrees
<1> QED BY <1>2, <1>4, <1>5, <1>6, <1>7 DEF EventInv

\* Every step of the events keeps the invariant.
LEMMA EventStep ==
  ASSUME MissingIsNoEvents PROVE EventInv /\ [EventNext]_eventVars => EventInv'
<1> SUFFICES ASSUME EventInv, [EventNext]_eventVars PROVE EventInv' OBVIOUS
<1>1. ASSUME NEW market \in Markets, StartEvents(market) PROVE EventInv'
  BY <1>1, StartEventsKeeps
<1>2. CASE ReuseEvents BY <1>2, ReuseEventsKeeps
<1>3. CASE WriteUnlisted BY <1>3, WriteUnlistedKeeps
<1>4. CASE QueryEvents BY <1>4, QueryEventsKeeps
<1>5. CASE UseSymbolDay BY <1>5, UseSymbolDayKeeps
<1>6. CASE SkipUnlistedDay BY <1>6, SkipUnlistedDayKeeps
<1>7. CASE UseMarketDay BY <1>7, UseMarketDayKeeps
<1>8. CASE FetchPage BY <1>8, FetchPageKeeps
<1>9. CASE WriteMarketDay BY <1>9, WriteMarketDayKeeps
<1>10. CASE WriteSymbolDay BY <1>10, WriteSymbolDayKeeps
<1>11. CASE WriteAudit BY <1>11, WriteAuditKeeps
<1>12. CASE RecordAnomaly BY <1>12, RecordAnomalyKeeps
<1>13. CASE WriteEventPartition BY <1>13, WriteEventPartitionKeeps
<1>14. CASE WriteExports BY <1>14, WriteExportsKeeps
<1>15. CASE WriteEventSource BY <1>15, WriteEventSourceKeeps
<1>16. CASE WriteEventQuality BY <1>16, WriteEventQualityKeeps
<1>17. CASE WriteEventManifest BY <1>17, WriteEventManifestKeeps
<1>18. CASE KillCollector BY <1>18, KillCollectorKeeps
<1>19. CASE UNCHANGED eventVars BY <1>19, NoEventStep
<1> QED BY <1>1, <1>2, <1>3, <1>4, <1>5, <1>6, <1>7, <1>8, <1>9, <1>10, <1>11, <1>12, <1>13,
           <1>14, <1>15, <1>16, <1>17, <1>18, <1>19 DEF EventNext, CollectorStep

EventSpec == EventInit /\ [][EventNext]_eventVars

\* So it holds in every behaviour of the collection.
LEMMA EventInvAlways ==
  ASSUME MissingIsNoEvents PROVE EventSpec => []EventInv
BY EventsStart, EventStep, PTL DEF EventSpec

\* What is stored of a forecast is the answer without the dates removed.
LEMMA EventCorrections == EventInv => CorrectionsAreOnRecord
BY DEF EventInv, PartitionsBuilt, CorrectionsAreOnRecord, Prepared

\* The types, and that caches and audits agree.
LEMMA EventTypes == EventInv => EventTypeOK
<1> SUFFICES ASSUME EventInv PROVE EventTypeOK OBVIOUS
<1>1. \A p \in EventParts : p.stock \in Stocks BY EventWalkVisits
<1> QED BY <1>1 DEF EventInv, CachesAgree, CollectorShape, EventTypeOK

\* A partition of the fallback has the days of its stock, one of a trusted
\* answer the rows of that.
LEMMA EventsComplete == ProviderAgrees => (EventInv => NoEventIsCutOff)
<1> SUFFICES ASSUME ProviderAgrees, EventInv,
                    NEW p \in EventParts, p.source = "share_float", answered[p] # Missing
             PROVE  /\ Stable => eventPartition[p] = UNION {Published(p.stock, d) : d \in Covered}
                    /\ answered[p].mode = "fallback" =>
                         eventPartition[p] = UNION {Select(marketDays[d], p.stock) :
                                                      d \in {e \in Covered : e >= ListedOn[p.stock]}}
    BY DEF NoEventIsCutOff
<1> PICK s, rows, mode : s = p.stock /\ rows = answered[p].rows /\ mode = answered[p].mode OBVIOUS
<1>1. /\ eventPartition[p] = Prepared(p, rows) /\ BuiltBy(p, mode, rows)
  BY DEF EventInv, PartitionsBuilt
<1>2. /\ s \in Stocks /\ ListedOn[s] \in Nat
      /\ \A d \in Covered : d \in Nat /\ d <= LastCovered /\ (d < ListedOn[s] <=> ~(d >= ListedOn[s]))
  BY EventWalkVisits
<1>3. mode = "fallback" => \A d \in Covered : d >= ListedOn[s] =>
         /\ marketDays[d] # Missing /\ MarketDayRight(d)
  BY <1>1, <1>2 DEF EventInv, CachesAgree, BuiltBy, DaysKnown, DayKnown
<1> DEFINE Days == UNION {Select(marketDays[d], s) : d \in {e \in Covered : e >= ListedOn[s]}}
<1>4. mode = "fallback" => eventPartition[p] = Days
  <2> SUFFICES ASSUME mode = "fallback" PROVE eventPartition[p] = Days OBVIOUS
  <2>1. rows = Days BY <1>1, <1>2 DEF BuiltBy, FromDays
  <2>2. \A row \in Days : row.ann \in Covered BY <1>3 DEF MarketDayRight, Select
  <2> QED BY <1>1, <2>1, <2>2 DEF Prepared, InCoverage
<1>5. ASSUME Stable PROVE eventPartition[p] = UNION {Published(s, d) : d \in Covered}
  <2>1. CASE mode = "fallback"
    <3>1. ASSUME NEW d \in Covered, d >= ListedOn[s] PROVE Published(s, d) = Select(marketDays[d], s)
      <4>1. PICK all \in eventWorld.market[d] : eventWorld.market[d] = {all} BY <1>5 DEF Stable
      <4>2. marketDays[d] = ToSet(all) BY <1>3, <1>5, <2>1, <3>1 DEF MarketDayRight
      <4>3. UNION {ToSet(r) : r \in eventWorld.market[d]} = ToSet(all) BY <4>1
      <4> QED BY <4>2, <4>3 DEF Published
    <3>2. ASSUME NEW d \in Covered, ~(d >= ListedOn[s]) PROVE Published(s, d) = {}
      BY <1>2, <3>2 DEF ProviderAgrees, EventInv, EventFiles, Published, Select
    <3> QED BY <1>4, <2>1, <3>1, <3>2
  <2>2. CASE mode = "primary"
    <3>1. PICK answer \in eventWorld.answers[p] :
             rows = ToSet(answer) /\ ~(p.source = "share_float" /\ Untrusted(p.stock, answer))
      BY <1>1, <2>2 DEF BuiltBy
    <3>2. /\ eventWorld.answers[p] = {answer}
          /\ \A d \in Covered : \E r \in eventWorld.market[d] : eventWorld.market[d] = {r}
      BY <1>5, <3>1 DEF Stable
    <3>3. eventWorld \in EventWorlds BY DEF EventInv, EventFiles
    <3>4. Prepared(p, ToSet(answer))
            = UNION {Select(UNION {ToSet(r) : r \in eventWorld.market[d]}, p.stock) : d \in Covered}
      BY <3>1, <3>2, <3>3 DEF ProviderAgrees
    <3> QED BY <1>1, <3>1, <3>4 DEF Published
  <2> QED BY <1>1, <2>1, <2>2 DEF BuiltBy
<1> QED BY <1>4, <1>5

\* A step of the collection is one of what it promises, or none.
LEMMA EventStepIsStaged ==
  ASSUME MissingIsNoEvents, EventInv, [EventNext]_eventVars
  PROVE  [EventPack!Next]_(EventPack!stagedVars)
<1>1. CASE WriteUnlisted \/ WriteEventPartition
  <2> PICK p : p = Current OBVIOUS
  <2>1. /\ p \in EventParts /\ ~Present(p) /\ eventManifest = Missing /\ eventManifest' = eventManifest
    <3>1. collector.pc \in {"walking", "answered"} /\ collector.at <= Len(EventWalk) /\ ~Present(p)
          /\ eventManifest' = eventManifest
      BY <1>1 DEF EventInv, RunsAlong, WriteUnlisted, WriteEventPartition, InWalk, eventSeals
    <3> QED BY <3>1, WhereTheRunIs
  <2>2. \E content : content # Missing /\ eventPartition' = [eventPartition EXCEPT ![p] = content]
    <3>1. CASE WriteUnlisted BY <3>1 DEF WriteUnlisted, MissingIsNoEvents
    <3>2. CASE WriteEventPartition
      <4>1. /\ collector.pc = "answered"
            /\ eventPartition' = [eventPartition EXCEPT ![p] = Prepared(p, collector.rows)]
        BY <3>2 DEF WriteEventPartition
      <4>2. collector.rows \in SUBSET EventRows BY <4>1 DEF EventInv, RunsAlong, BuiltBy
      <4> QED BY <4>1, <4>2, PreparedIsStored
    <3> QED BY <1>1, <3>1, <3>2
  <2>3. eventPartition'[p] # Missing /\ eventPartition' = [eventPartition EXCEPT ![p] = eventPartition'[p]]
    BY <2>1, <2>2 DEF EventInv, EventFiles
  <2> QED BY <2>1, <2>3 DEF EventPack!Next, EventPack!Hold, Present
<1>2. CASE WriteEventManifest
  <2>1. /\ collector.pc = "manifest" /\ eventPartition' = eventPartition
        /\ eventManifest' = EventManifest
    BY <1>2 DEF WriteEventManifest
  <2>2. eventManifest = Missing /\ \A p \in EventParts : eventPartition[p] # Missing
    <3>1. /\ collector.at = Len(EventWalk) + 1 /\ eventManifest = Missing
          /\ \A i \in 1..(collector.at - 1) : Present(EventWalk[i])
      BY <2>1 DEF EventInv, PackAgrees, RunsAlong
    <3>2. collector.at - 1 = Len(EventWalk) BY <3>1, EventWalkVisits
    <3> QED BY <3>1, <3>2, EventWalkVisits DEF Present
  <2>3. eventManifest'.data = eventPartition BY <2>1 DEF EventManifest
  <2>4. CASE eventManifest' = Missing BY <2>1, <2>2, <2>4 DEF EventPack!stagedVars
  <2>5. CASE eventManifest' # Missing
    BY <2>1, <2>2, <2>3, <2>5 DEF EventPack!Next, EventPack!Seal
  <2> QED BY <2>4, <2>5
<1>3. CASE ~(WriteUnlisted \/ WriteEventPartition \/ WriteEventManifest)
  <2>1. UNCHANGED <<eventPartition, eventManifest>>
    BY <1>3 DEF EventNext, CollectorStep, StartEvents, ReuseEvents, QueryEvents, UseSymbolDay,
                SkipUnlistedDay, UseMarketDay, FetchPage, WriteMarketDay, WriteSymbolDay, WriteAudit,
                RecordAnomaly, WriteExports, WriteEventSource, WriteEventQuality, KillCollector,
                eventVars, eventSeals
  <2> QED BY <2>1 DEF EventPack!stagedVars
<1> QED BY <1>1, <1>2, <1>3

\* The pack of this part takes the steps of what it promises.
LEMMA EventsStaged ==
  ASSUME MissingIsNoEvents PROVE EventSpec => EventsRefineStaged
<1>1. EventInit => EventPack!Init BY DEF EventInit, EventPack!Init
<1>2. EventInv /\ [EventNext]_eventVars => [EventPack!Next]_(EventPack!stagedVars)
  BY EventStepIsStaged
<1> QED BY <1>1, <1>2, EventInvAlways, PTL DEF EventSpec, EventsRefineStaged, EventPack!Spec

\* The pack of the job is the one of this part.
LEMMA EventJob == Spec => EventSpec
<1>1. Init => EventInit BY DEF Init
<1>2. [Next]_vars => [EventNext]_eventVars
  BY DEF Next, vars, OnNegative, OnEvents, OnMarket, OnShadow, OnReplay
<1> QED BY <1>1, <1>2, PTL DEF Spec, EventSpec

\* No date of a forecast is taken out of a partition without an entry in the log
\* of anomalies, however often a run is killed between the two files.
THEOREM CorrectionsAreRecorded ==
  ASSUME MissingIsNoEvents PROVE Spec => []CorrectionsAreOnRecord
BY EventJob, EventInvAlways, EventCorrections, PTL

\* What a pack of events was sealed with is what its files and caches hold, after
\* any kills and changed answers.
THEOREM SealedEventsVerify ==
  ASSUME MissingIsNoEvents PROVE Spec => []EventPackVerifies
<1>1. EventInv => EventPackVerifies BY DEF EventInv, PackAgrees, EventPackVerifies
<1> QED BY <1>1, EventJob, EventInvAlways, PTL

\* A share_float partition has every row its provider published in the coverage,
\* of a trusted answer as of the fallback by days: caches of days that other
\* runs left are complete ones.
THEOREM NoEventIsLost ==
  ASSUME MissingIsNoEvents, ProviderAgrees PROVE Spec => []NoEventIsCutOff
BY EventJob, EventInvAlways, EventsComplete, PTL

\* A partition of events is held once, with the rows it was built with, and the
\* pack is sealed over all of them (StagedCollection).
THEOREM EventPackIsStaged ==
  ASSUME MissingIsNoEvents PROVE Spec => EventsRefineStaged
BY EventJob, EventsStaged

-----------------------------------------------------------------------------
(* All jobs *)

\* The collection of the market of the job is the one of that part.
LEMMA MarketJob == Spec => MarketSpec
<1>1. Init => MarketInit BY DEF Init
<1>2. [Next]_vars => [MarketNext]_marketVars
  BY DEF Next, vars, OnNegative, OnEvents, OnMarket, OnShadow, OnReplay
<1> QED BY <1>1, <1>2, PTL DEF Spec, MarketSpec

\* So are the replays.
LEMMA ReplayJob == Spec => HistorySpec
<1>1. Init => HistoryInit BY DEF Init
<1>2. [Next]_vars => [HistoryNext]_historyVars
  BY DEF Next, vars, OnNegative, OnEvents, OnMarket, OnShadow, OnReplay
<1> QED BY <1>1, <1>2, PTL DEF Spec, HistorySpec

\* What is missing is told from what any file holds.
MissingIsNothing ==
    /\ MissingIsNoRows /\ MissingIsNoEvents /\ MissingIsNoTable
    /\ MissingIsNoQuote /\ MissingIsNoRecord

\* The types of the ledger of observations.
LEMMA ShadowTypes == ShadowInv => ShadowTypeOK
<1> SUFFICES ASSUME ShadowInv PROVE ShadowTypeOK OBVIOUS
<1>1. \A d \in Recorded : records[d].day = d
  <2> SUFFICES ASSUME NEW d \in Recorded PROVE records[d].day = d OBVIOUS
  <2>1. Verifies(d) BY DEF ShadowInv, FilesInv, ChainVerifies
  <2>2. PICK reason, previous : records[d] = RecordOf(d, reason, previous) BY <2>1 DEF Verifies
  <2> QED BY <2>2 DEF RecordOf
<1>2. observer.pc \in {"off", "recording"} \cup Roles
  BY DEF ShadowInv, RunInv, ObservationRun, Roles
<1>3. observer.pc # "off" => observer.day \in 1..shown /\ records[observer.day] = Missing
  <2>1. ASSUME observer.pc # "off" PROVE observer.day \in 1..shown /\ observer.day \notin Recorded
    <3>1. observer.day \in 1..shown /\ \A d \in Recorded : d < observer.day
      BY <2>1 DEF ShadowInv, RunInv
    <3>2. ~(observer.day < observer.day) BY <3>1 DEF ShadowInv, FilesInv
    <3> QED BY <3>1, <3>2
  <2>2. shown \in 0..Closes BY DEF ShadowInv, FilesInv
  <2>3. \A d \in 1..shown : d \in MarketDays BY <2>2, ShadowCalendar DEF MarketDays
  <2> QED BY <2>1, <2>3 DEF Recorded
<1>4. observer.pc = "recording" => \A role \in Roles : rawQuotes[observer.day][role] = observer.at
  BY DEF ShadowInv, RunInv, Roles
<1> QED BY <1>1, <1>2, <1>3, <1>4 DEF ShadowInv, FilesInv, ShadowTypeOK

\* Every file and every process of the jobs is of its type, and what the types
\* say beyond it: caches agree with what they were selected from, a report with
\* the files, a snapshot with the listed days, an account with its budgets.
THEOREM JobsAreTyped ==
  ASSUME MissingIsNothing PROVE Spec => []JobsTypeOK
<1> USE DEF MissingIsNothing
<1>1. Spec => []CollectionTypeOK BY NegativeJob, NegativeInvAlways, NegativeTypes, PTL
<1>2. Spec => []EventTypeOK BY EventJob, EventInvAlways, EventTypes, PTL
<1>3. Spec => []MarketTypeOK BY MarketJob, MarketTypes, PTL
<1>4. Spec => []ShadowTypeOK BY ShadowJob, ShadowInvAlways, ShadowTypes, PTL
<1>5. Spec => []HistoryTypeOK BY ReplayJob, HistoryTypes, PTL
<1> QED BY <1>1, <1>2, <1>3, <1>4, <1>5, PTL DEF JobsTypeOK

\* Whatever kills, changed answers and files left behind went before, what any
\* collector has sealed or recorded is what its verifier computes again from the
\* files, and no gap of the market is sealed unexplained.
THEOREM TheSealedVerifies ==
  ASSUME MissingIsNothing PROVE Spec => []WhatIsSealedVerifies
<1> USE DEF MissingIsNothing
<1>1. Spec => []MarketPackVerifies BY MarketJob, SealedCollectionsVerify, PTL
<1>2. Spec => []GapsAreExplained BY MarketJob, GapsAreSealedWithSeeds, PTL
<1> QED BY <1>1, <1>2, SealedListVerifies, SealedEventsVerify, RecordsVerify, PTL
    DEF WhatIsSealedVerifies

\* No limit of rows or pages cuts an event of a stock or a day of the market off.
THEOREM NothingIsLost ==
  ASSUME MissingIsNothing, ProviderAgrees PROVE Spec => []NothingIsCutOff
<1> USE DEF MissingIsNothing
<1>1. Spec => []NoDayIsCutOff BY MarketJob, NoDayLosesRows, PTL
<1> QED BY <1>1, NoEventIsLost, PTL DEF NothingIsCutOff

\* Each of the collections is a StagedCollection, and the ledger of observations
\* an AppendOnlyLog.
THEOREM PromisesAreKept ==
  ASSUME MissingIsNothing PROVE Spec => CollectionsKeepTheirPromise
<1> USE DEF MissingIsNothing
<1>1. Spec => MarketRefinesStaged BY MarketJob, MarketIsStaged, PTL
<1> QED BY <1>1, NegativeListIsStaged, EventPackIsStaged, RecordsAreALog, PTL
    DEF CollectionsKeepTheirPromise
=============================================================================
