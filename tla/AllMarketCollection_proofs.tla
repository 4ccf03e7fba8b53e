--------------------- MODULE AllMarketCollection_proofs ---------------------
(***************************************************************************)
(* The collection of the market, for any stocks, days, page sizes, answers *)
(* of the provider and kills.                                              *)
(*                                                                         *)
(* Gaps are computed from day files, and intervals are checked against     *)
(* them only once; so the argument is that past that check none of the     *)
(* files it read can change.  A day file is written only where there is    *)
(* none, and a run comes to the check only over all of them (WalkIsHeld).  *)
(* From then on (PastTheGaps) every day is held, in this run and in every  *)
(* later one, and the intervals stand, or are emptied where they were of   *)
(* no use.                                                                 *)
(*                                                                         *)
(* What is sealed (SealInv) adds that each file which a run may write only *)
(* where there is none is there under a seal: the tables, counted along    *)
(* their own walk, and the seeds, where there are gaps.  What a later run  *)
(* does write again, the report and empty intervals, comes out the same.   *)
(*                                                                         *)
(* The days are whole (DaysInv) because the rows that a run has of a day   *)
(* are the first rows of it, up to its next offset, and all of them after  *)
(* a page that is not full.                                                *)
(***************************************************************************)
EXTENDS AllMarketCollection, TLAPS

\* A file that is missing is told from one with any rows, or with none, and from
\* a manifest.
MissingIsNoTable ==
    /\ \A rows : ChosenRows(rows) # Missing
    /\ Missing \notin SUBSET ((DOMAIN Listing) \X Nat)
    /\ \A request, data, quality, at :
         [request |-> request, data |-> data, quality |-> quality, at |-> at] # Missing

-----------------------------------------------------------------------------
(* The walk over the days *)

DayNames == [api : {"daily", "adj_factor", "daily_basic", "stk_limit", "suspend_d"}, day : 1..LastTarget]

\* The days of an API, as many as it has.
LEMMA ApiWalkVisitsDays ==
    ASSUME NEW api \in {"daily", "adj_factor", "daily_basic", "stk_limit", "suspend_d"}
    PROVE  ApiWalk(api) \in Seq(DayNames)
<1> DEFINE first == IF api \in SourceHistory THEN 1 ELSE FirstTarget
           n == LastTarget + 1 - first
           walk == [i \in 1..n |-> [api |-> api, day |-> first + i - 1]]
<1>1. first \in 1..LastTarget /\ n \in Nat
  BY MarketConstants
<1>2. \A i \in 1..n : first + i - 1 \in 1..LastTarget
  BY <1>1, MarketConstants
<1>3. \A i \in 1..n : [api |-> api, day |-> first + i - 1] \in DayNames
  BY <1>2 DEF DayNames
<1> HIDE DEF n
<1>4. walk \in Seq(DayNames)
  BY <1>1, <1>3
<1> QED BY <1>4 DEF ApiWalk, n

\* The walk visits day partitions only, none of which is a reference table.
LEMMA WalkVisitsDays ==
    /\ DayWalk \in Seq(DayNames)
    /\ Len(DayWalk) \in Nat /\ DOMAIN DayWalk = 1..Len(DayWalk)
    /\ \A p \in DayParts : p \in DayNames
    /\ \A i \in 1..Len(DayWalk) : DayWalk[i] \in DayParts /\ DayWalk[i] \in Files
    /\ \A p \in DayParts, name \in TableNames : p # Table(name)
<1>1. DayWalk \in Seq(DayNames)
  BY ApiWalkVisitsDays DEF DayWalk
<1>2. Len(DayWalk) \in Nat /\ DOMAIN DayWalk = 1..Len(DayWalk)
  BY <1>1
<1>3. \A i \in 1..Len(DayWalk) : DayWalk[i] \in DayNames
  BY <1>1
<1>4. \A p \in DayParts : p \in DayNames
  BY <1>2, <1>3 DEF DayParts
<1>5. \A i \in 1..Len(DayWalk) : DayWalk[i] \in DayParts /\ DayWalk[i] \in Files
  BY <1>2 DEF DayParts, Files
<1>6. \A p \in DayParts, name \in TableNames : p # Table(name)
  BY <1>4 DEF DayNames, Table
<1> QED BY <1>1, <1>2, <1>4, <1>5, <1>6

Visits(walk, p) == \E i \in DOMAIN walk : walk[i] = p

\* Two walks one after the other visit what each of them does.
LEMMA ConcatVisits ==
    ASSUME NEW S, NEW s \in Seq(S), NEW t \in Seq(S), NEW p, Visits(s, p) \/ Visits(t, p)
    PROVE  Visits(s \o t, p)
<1>1. CASE Visits(s, p)
  <2>1. PICK i \in 1..Len(s) : s[i] = p
    BY <1>1 DEF Visits
  <2>2. i \in DOMAIN (s \o t) /\ (s \o t)[i] = p
    BY <2>1
  <2> QED BY <2>2 DEF Visits
<1>2. CASE Visits(t, p)
  <2>1. PICK i \in 1..Len(t) : t[i] = p
    BY <1>2 DEF Visits
  <2>2. Len(s) + i \in DOMAIN (s \o t) /\ (s \o t)[Len(s) + i] = p
    BY <2>1
  <2> QED BY <2>2 DEF Visits
<1> QED BY <1>1, <1>2

\* The bars and the suspensions of every target day are among the partitions.
LEMMA TargetDaysAreVisited ==
    ASSUME NEW d \in TargetDays
    PROVE  [api |-> "daily", day |-> d] \in DayParts /\ [api |-> "suspend_d", day |-> d] \in DayParts
<1> DEFINE apis == {"daily", "adj_factor", "daily_basic", "stk_limit", "suspend_d"}
           two == ApiWalk("daily") \o ApiWalk("adj_factor")
           three == two \o ApiWalk("daily_basic")
           four == three \o ApiWalk("stk_limit")
<1>1. \A api \in apis : ApiWalk(api) \in Seq(DayNames)
  BY ApiWalkVisitsDays
<1>2. two \in Seq(DayNames) /\ three \in Seq(DayNames) /\ four \in Seq(DayNames)
  BY <1>1
<1>3. d \in 1..LastTarget /\ LastTarget \in Nat
  BY MarketConstants DEF TargetDays
<1>4. ASSUME NEW api \in {"daily", "suspend_d"}
      PROVE  Visits(ApiWalk(api), [api |-> api, day |-> d])
  <2>1. ApiWalk(api) = [i \in 1..LastTarget |-> [api |-> api, day |-> i]]
    BY <1>3 DEF ApiWalk, SourceHistory
  <2> QED BY <1>3, <2>1 DEF Visits
<1>5. DayWalk = four \o ApiWalk("suspend_d")
  BY DEF DayWalk
<1>6. Visits(two, [api |-> "daily", day |-> d])
  BY <1>1, <1>4, ConcatVisits
<1>7. Visits(three, [api |-> "daily", day |-> d])
  BY <1>1, <1>2, <1>6, ConcatVisits
<1> HIDE DEF two, three
<1>8. Visits(four, [api |-> "daily", day |-> d])
  BY <1>1, <1>2, <1>7, ConcatVisits DEF four
<1> HIDE DEF four
<1>9. Visits(DayWalk, [api |-> "daily", day |-> d])
  <2>1. ApiWalk("suspend_d") \in Seq(DayNames)
    BY <1>1
  <2>2. Visits(four \o ApiWalk("suspend_d"), [api |-> "daily", day |-> d])
    BY <2>1, <1>2, <1>8, ConcatVisits
  <2> QED BY <2>2, <1>5
<1>10. Visits(DayWalk, [api |-> "suspend_d", day |-> d])
  BY <1>1, <1>2, <1>4, <1>5, ConcatVisits
<1> QED BY <1>9, <1>10 DEF Visits, DayParts

-----------------------------------------------------------------------------
(* The invariant *)

GathererTypes ==
    /\ gatherer = [pc |-> gatherer.pc, at |-> gatherer.at, rows |-> gatherer.rows]
    /\ gatherer.pc \in {"off", "tables", "days", "paged", "seeding", "quality", "manifest"}
    /\ gatherer.at \in Nat \ {0}

\* The days that the run has come past are held; the one it has fetched is not.
WalkIsHeld ==
    /\ gatherer.pc \in {"days", "paged"} =>
         \A i \in 1..Len(DayWalk) : i < gatherer.at => files[DayWalk[i]] # Missing
    /\ gatherer.pc = "paged" => gatherer.at =< Len(DayWalk) /\ files[AtDay] = Missing

DaysHeld == \A p \in DayParts : files[p] # Missing
Explained ==
    /\ Gaps # {} => intervals # Missing /\ \A m \in Gaps : \E i \in intervals : Spans(i, m)
    /\ Gaps = {} => intervals = {}

\* The gaps have been checked, by this run or by one that sealed.
PastTheGaps ==
    \/ marketManifest # Missing \/ materialized # Missing
    \/ gatherer.pc \in {"quality", "manifest"}
    \/ gatherer.pc = "tables" /\ gatherer.at >= 4
    \/ gatherer.pc = "seeding"
Settled == PastTheGaps => DaysHeld /\ Explained

MarketInv ==
    /\ GathererTypes /\ DOMAIN files = Files
    /\ WalkIsHeld /\ Settled /\ TradersAreNotSuspended

-----------------------------------------------------------------------------
(* Gaps depend on the day files alone *)

\* Without a change of a day file there is none of the gaps, nor of the days of
\* full suspensions.
LEMMA GapsFollowTheDays ==
    ASSUME \A p \in DayParts : files'[p] = files[p]
    PROVE  Gaps' = Gaps /\ FullDay(TargetDays)' = FullDay(TargetDays) /\ (DaysHeld => DaysHeld')
<1>1. FullDay(TargetDays)' = FullDay(TargetDays)
  BY TargetDaysAreVisited DEF FullDay
<1>2. Quoted(TargetDays)' = Quoted(TargetDays)
  BY TargetDaysAreVisited DEF Quoted, StocksIn
<1>3. Gaps' = Gaps
  BY <1>1, <1>2 DEF Gaps
<1> QED BY <1>1, <1>3 DEF DaysHeld

\* A step that leaves the day files, the intervals and the snapshot alone keeps
\* the invariant if the walk does, and if nobody comes past the gaps unchecked.
LEMMA WalkGoesOn ==
    ASSUME MarketInv, UNCHANGED <<intervals, materialized>>,
           DOMAIN files' = DOMAIN files, \A p \in DayParts : files'[p] = files[p],
           GathererTypes', WalkIsHeld',
           PastTheGaps' => DaysHeld /\ Explained
    PROVE  MarketInv'
<1>1. Gaps' = Gaps /\ FullDay(TargetDays)' = FullDay(TargetDays) /\ (DaysHeld => DaysHeld')
  BY GapsFollowTheDays
<1>2. Explained => Explained'
  BY <1>1 DEF Explained
<1>3. Settled'
  BY <1>1, <1>2 DEF Settled
<1>4. TradersAreNotSuspended'
  BY <1>1 DEF MarketInv, TradersAreNotSuspended
<1> QED BY <1>3, <1>4 DEF MarketInv

\* Where a run goes, its walk starts anew or is none.
LEMMA Goes ==
    ASSUME NEW pc \in {"off", "tables", "days", "seeding", "quality", "manifest"}, NEW at \in Nat \ {0},
           GoTo(pc, at), pc = "days" => at = 1
    PROVE  GathererTypes' /\ WalkIsHeld' /\ gatherer'.pc = pc /\ gatherer'.at = at
BY DEF GoTo, GathererTypes, WalkIsHeld

\* A run that has ended is past nothing that was not settled before.
LEMMA GivesUp ==
    ASSUME MarketInv, GiveUp, UNCHANGED <<files, intervals, materialized, marketManifest>>
    PROVE  MarketInv'
<1>1. GathererTypes' /\ WalkIsHeld' /\ gatherer'.pc = "off"
  BY DEF GiveUp, GathererOff, GathererTypes, WalkIsHeld
<1>2. PastTheGaps' => DaysHeld /\ Explained
  BY <1>1 DEF PastTheGaps, MarketInv, Settled
<1> QED BY <1>1, <1>2, WalkGoesOn

\* After a table comes what the gaps do not concern, or they were past before.
LEMMA TableDone ==
    ASSUME MarketInv, gatherer.pc = "tables", AfterTable, UNCHANGED <<intervals, materialized, marketManifest>>,
           DOMAIN files' = DOMAIN files, \A p \in DayParts : files'[p] = files[p]
    PROVE  MarketInv'
<1>1. gatherer.at \in Nat \ {0}
  BY DEF MarketInv, GathererTypes
<1>2. PastTheGaps \/ gatherer.at < 4
  BY <1>1 DEF PastTheGaps
<1>3. Len(References) = 5
  BY DEF References
<1>4. CASE gatherer.at = 3
  <2>1. GathererTypes' /\ WalkIsHeld' /\ gatherer'.pc = "days"
    BY <1>3, <1>4, Goes DEF AfterTable
  <2>2. PastTheGaps' => PastTheGaps
    BY <2>1 DEF PastTheGaps
  <2> QED BY <2>1, <2>2, WalkGoesOn DEF MarketInv, Settled
<1>5. CASE gatherer.at = 5
  <2>1. GathererTypes' /\ WalkIsHeld'
    BY <1>3, <1>5, Goes DEF AfterTable
  <2> QED BY <1>2, <1>5, <2>1, WalkGoesOn DEF MarketInv, Settled
<1>6. CASE gatherer.at \notin {3, 5}
  <2>1. GathererTypes' /\ WalkIsHeld' /\ gatherer'.pc = "tables" /\ gatherer'.at = gatherer.at + 1
    BY <1>1, <1>3, <1>6, Goes DEF AfterTable
  <2>2. PastTheGaps' => PastTheGaps
    BY <1>1, <1>6, <2>1 DEF PastTheGaps
  <2> QED BY <2>1, <2>2, WalkGoesOn DEF MarketInv, Settled
<1> QED BY <1>4, <1>5, <1>6

-----------------------------------------------------------------------------
(* The actions *)

LEMMA MarketStarts == MarketInit => MarketInv
<1> SUFFICES ASSUME MarketInit PROVE MarketInv
  OBVIOUS
<1>1. GathererTypes /\ WalkIsHeld /\ ~PastTheGaps
  BY DEF MarketInit, GathererOff, GathererTypes, WalkIsHeld, PastTheGaps
<1>2. DOMAIN files = Files /\ TradersAreNotSuspended
  BY DEF MarketInit, TradersAreNotSuspended
<1> QED BY <1>1, <1>2 DEF MarketInv, Settled

\* A start verifies what is sealed, and changes none of it.
LEMMA StartKeeps ==
    ASSUME MarketInv, NEW scope \in Scopes, StartMarket(scope)
    PROVE  MarketInv'
<1>1. UNCHANGED <<files, intervals, materialized, marketManifest>>
  BY DEF StartMarket, marketFrame, marketSeals
<1>2. CASE GiveUp
  BY <1>1, <1>2, GivesUp
<1>3. CASE GoTo("tables", 1)
  <2>1. GathererTypes' /\ WalkIsHeld' /\ gatherer'.pc = "tables" /\ gatherer'.at = 1
    BY <1>3, Goes
  <2>2. PastTheGaps' => PastTheGaps
    BY <1>1, <2>1 DEF PastTheGaps
  <2> QED BY <1>1, <2>1, <2>2, WalkGoesOn DEF MarketInv, Settled
<1> QED BY <1>2, <1>3 DEF StartMarket

LEMMA ReuseTableKeeps == ASSUME MarketInv, ReuseTable PROVE MarketInv'
<1>1. UNCHANGED <<files, intervals, materialized, marketManifest>> /\ gatherer.pc = "tables"
  BY DEF ReuseTable, marketFrame, marketSeals
<1>2. CASE GiveUp
  BY <1>1, <1>2, GivesUp
<1>3. CASE AfterTable
  BY <1>1, <1>3, TableDone
<1> QED BY <1>2, <1>3 DEF ReuseTable

\* A table that is staged is no day file.
LEMMA StageTableKeeps == ASSUME MarketInv, StageTable PROVE MarketInv'
<1>1. UNCHANGED <<intervals, materialized, marketManifest>> /\ gatherer.pc = "tables"
  BY DEF StageTable, marketFrame, marketSeals
<1>2. PICK answer : /\ files' = IF answer = "refused" THEN files
                                ELSE [files EXCEPT ![Table(References[gatherer.at])] = answer]
                    /\ GiveUp \/ AfterTable
  BY DEF StageTable
<1>3. \A p \in DayParts : \A name : p # Table(name)
  BY WalkVisitsDays DEF DayNames, Table
<1>4. DOMAIN files' = DOMAIN files /\ \A p \in DayParts : files'[p] = files[p]
  BY <1>2, <1>3, WalkVisitsDays DEF MarketInv, Files
<1>5. CASE GiveUp
  <2>1. GathererTypes' /\ WalkIsHeld' /\ gatherer'.pc = "off"
    BY <1>5 DEF GiveUp, GathererOff, GathererTypes, WalkIsHeld
  <2>2. PastTheGaps' => PastTheGaps
    BY <1>1, <2>1 DEF PastTheGaps
  <2> QED BY <1>1, <1>4, <2>1, <2>2, WalkGoesOn DEF MarketInv, Settled
<1>6. CASE AfterTable
  BY <1>1, <1>4, <1>6, TableDone
<1> QED BY <1>2, <1>5, <1>6

\* One more day behind the run, which is held.
LEMMA ReuseDayKeeps == ASSUME MarketInv, ReuseDay PROVE MarketInv'
<1>1. UNCHANGED <<files, intervals, materialized, marketManifest>>
  BY DEF ReuseDay, marketFrame, marketSeals
<1>2. CASE GiveUp
  BY <1>1, <1>2, GivesUp
<1>3. CASE AfterDay
  <2>1. /\ gatherer.pc = "days" /\ gatherer.at \in Nat \ {0} /\ files[DayWalk[gatherer.at]] # Missing
        /\ gatherer' = [pc |-> "days", at |-> gatherer.at + 1, rows |-> << >>]
    BY <1>3 DEF MarketInv, GathererTypes, ReuseDay, OverDays, AtDay, AfterDay, GoTo
  <2>2. GathererTypes'
    BY <2>1 DEF GathererTypes
  <2>3. WalkIsHeld'
    BY <1>1, <2>1, WalkVisitsDays DEF MarketInv, WalkIsHeld
  <2>4. PastTheGaps' => PastTheGaps
    BY <1>1, <2>1 DEF PastTheGaps
  <2> QED BY <1>1, <2>2, <2>3, <2>4, WalkGoesOn DEF MarketInv, Settled
<1> QED BY <1>2, <1>3 DEF ReuseDay

LEMMA FetchDayPageKeeps == ASSUME MarketInv, FetchDayPage PROVE MarketInv'
<1>1. UNCHANGED <<files, intervals, materialized, marketManifest>>
  BY DEF FetchDayPage, marketFrame, marketSeals
<1>2. gatherer.pc = "days" /\ gatherer.at =< Len(DayWalk) /\ files[AtDay] = Missing
  BY DEF FetchDayPage, OverDays
<1> DEFINE offset == IF marketWorld.ignoresOffset THEN 0 ELSE Len(gatherer.rows)
           page(rows) == DayPage(rows, offset)
<1>3. PICK rows \in marketWorld.rows[AtDay] :
         gatherer' = [gatherer EXCEPT
             !.rows = IF marketWorld.ignoresOffset /\ Len(@) >= DayPages * DayPageLimit
                      THEN @ ELSE @ \o page(rows),
             !.pc = IF Len(page(rows)) < DayPageLimit THEN "paged" ELSE @]
  BY DEF FetchDayPage
<1> HIDE DEF page
<1>4. GathererTypes' /\ gatherer'.pc \in {"days", "paged"} /\ gatherer'.at = gatherer.at
  BY <1>2, <1>3 DEF MarketInv, GathererTypes
<1>5. WalkIsHeld'
  BY <1>1, <1>2, <1>4 DEF MarketInv, WalkIsHeld, AtDay
<1>6. PastTheGaps' => PastTheGaps
  BY <1>1, <1>4 DEF PastTheGaps
<1> QED BY <1>1, <1>4, <1>5, <1>6, WalkGoesOn DEF MarketInv, Settled

\* A day file is written where there is none, and so by no run past the gaps.
LEMMA WriteDayKeeps ==
    ASSUME MarketInv, WriteDay, MissingIsNoTable
    PROVE  MarketInv'
<1>1. UNCHANGED <<intervals, materialized, marketManifest>> /\ gatherer.pc = "paged"
  BY DEF WriteDay, marketFrame, marketSeals
<1>2. CASE GiveUp /\ UNCHANGED files
  BY <1>1, <1>2, GivesUp
<1>3. ASSUME NEW rows, files' = [files EXCEPT ![AtDay] = ChosenRows(rows)], AfterDay
      PROVE  MarketInv'
  <2>1. /\ gatherer.at \in 1..Len(DayWalk) /\ files[AtDay] = Missing
        /\ gatherer' = [pc |-> "days", at |-> gatherer.at + 1, rows |-> << >>]
    BY <1>1, <1>3, WalkVisitsDays DEF MarketInv, GathererTypes, WalkIsHeld, AfterDay, GoTo
  <2>2. AtDay \in DayParts /\ AtDay \in DOMAIN files
    BY <2>1, WalkVisitsDays DEF MarketInv, AtDay
  <2>3. ~PastTheGaps
    BY <2>1, <2>2 DEF MarketInv, Settled, DaysHeld
  <2>4. ~PastTheGaps' /\ TradersAreNotSuspended'
    BY <1>1, <2>1, <2>3 DEF PastTheGaps, TradersAreNotSuspended
  <2>5. DOMAIN files' = Files /\ GathererTypes'
    BY <1>3, <2>1 DEF MarketInv, GathererTypes
  <2>6. WalkIsHeld'
    <3>1. SUFFICES ASSUME NEW i \in 1..Len(DayWalk), i < gatherer.at + 1
                   PROVE  files'[DayWalk[i]] # Missing
      BY <2>1 DEF WalkIsHeld
    <3>2. CASE DayWalk[i] = AtDay
      BY <1>3, <2>2, <3>2 DEF MissingIsNoTable
    <3>3. CASE DayWalk[i] # AtDay
      <4>1. i < gatherer.at
        BY <2>1, <3>1, <3>3 DEF AtDay
      <4>2. files[DayWalk[i]] # Missing
        BY <1>1, <4>1 DEF MarketInv, WalkIsHeld
      <4> QED BY <1>3, <3>3, <4>2, WalkVisitsDays DEF MarketInv
    <3> QED BY <3>2, <3>3
  <2> QED BY <2>4, <2>5, <2>6 DEF MarketInv, Settled
<1> QED BY <1>2, <1>3 DEF WriteDay

\* The gaps are computed over all of the days.
LEMMA DoneDaysAreHeld ==
    ASSUME MarketInv, DaysDone
    PROVE  DaysHeld
<1>1. \A i \in 1..Len(DayWalk) : files[DayWalk[i]] # Missing
  BY WalkVisitsDays DEF MarketInv, GathererTypes, WalkIsHeld, DaysDone
<1> QED BY <1>1, WalkVisitsDays DEF DaysHeld, DayParts

\* A step that changes the intervals leaves the snapshot's part to the others.
LEMMA NewIntervals ==
    ASSUME MarketInv, UNCHANGED <<files, materialized>>, GathererTypes', WalkIsHeld',
           PastTheGaps' => DaysHeld' /\ Explained'
    PROVE  MarketInv'
<1>1. Gaps' = Gaps /\ FullDay(TargetDays)' = FullDay(TargetDays)
  BY GapsFollowTheDays
<1>2. TradersAreNotSuspended'
  BY <1>1 DEF MarketInv, TradersAreNotSuspended
<1> QED BY <1>2 DEF MarketInv, Settled

LEMMA DropIntervalsKeeps == ASSUME MarketInv, DropIntervals PROVE MarketInv'
<1>1. /\ UNCHANGED <<files, materialized, marketManifest>>
      /\ DaysDone /\ Gaps = {} /\ intervals' = {} /\ GoTo("tables", 4)
  BY DEF DropIntervals, marketFrame, marketSeals
<1>2. GathererTypes' /\ WalkIsHeld'
  BY <1>1, Goes
<1>3. Gaps' = Gaps /\ (DaysHeld => DaysHeld')
  BY <1>1, GapsFollowTheDays
<1>4. DaysHeld' /\ Explained'
  BY <1>1, <1>3, DoneDaysAreHeld DEF Explained
<1> QED BY <1>1, <1>2, <1>4, NewIntervals

\* Once a run has come past the gaps, there are intervals if there are gaps.
LEMMA StageIntervalsKeeps == ASSUME MarketInv, StageIntervals PROVE MarketInv'
<1>1. /\ UNCHANGED <<files, materialized, marketManifest, gatherer>>
      /\ gatherer.pc = "days" /\ Gaps # {} /\ intervals = Missing
  BY DEF StageIntervals, marketFrame, marketSeals, DaysDone
<1>2. ~PastTheGaps
  BY <1>1 DEF MarketInv, Settled, Explained
<1>3. ~PastTheGaps' /\ GathererTypes' /\ WalkIsHeld'
  BY <1>1, <1>2 DEF PastTheGaps, MarketInv, GathererTypes, WalkIsHeld, AtDay
<1> QED BY <1>1, <1>3, NewIntervals

LEMMA CheckIntervalsKeeps == ASSUME MarketInv, CheckIntervals PROVE MarketInv'
<1>1. /\ UNCHANGED <<files, intervals, materialized, marketManifest>>
      /\ DaysDone /\ Gaps # {} /\ intervals # Missing
  BY DEF CheckIntervals, marketFrame, marketSeals
<1>2. CASE GiveUp
  BY <1>1, <1>2, GivesUp
<1>3. CASE IntervalsCoverGaps /\ (GoTo("seeding", 1) \/ GoTo("tables", 4))
  <2>1. DaysHeld
    BY <1>1, DoneDaysAreHeld
  <2>2. Explained
    BY <1>1, <1>3 DEF Explained, IntervalsCoverGaps, InInterval
  <2>3. GathererTypes' /\ WalkIsHeld'
    BY <1>3, Goes
  <2> QED BY <1>1, <2>1, <2>2, <2>3, WalkGoesOn DEF MarketInv
<1> QED BY <1>2, <1>3 DEF CheckIntervals

LEMMA StageSeedsKeeps == ASSUME MarketInv, StageSeeds PROVE MarketInv'
<1>1. UNCHANGED <<files, intervals, materialized, marketManifest>> /\ gatherer.pc = "seeding"
  BY DEF StageSeeds, marketFrame, marketSeals
<1>2. CASE GiveUp
  BY <1>1, <1>2, GivesUp
<1>3. CASE GoTo("tables", 4)
  <2>1. GathererTypes' /\ WalkIsHeld'
    BY <1>3, Goes
  <2> QED BY <1>1, <2>1, WalkGoesOn DEF MarketInv, Settled, PastTheGaps
<1> QED BY <1>2, <1>3 DEF StageSeeds

LEMMA SealsKeep ==
    ASSUME MarketInv, WriteMarketQuality \/ WriteMarketManifest
    PROVE  MarketInv'
<1>1. UNCHANGED <<files, intervals, materialized>> /\ PastTheGaps
  BY DEF WriteMarketQuality, WriteMarketManifest, marketFrame, marketSeals, PastTheGaps
<1>2. CASE GiveUp
  <2>1. GathererTypes' /\ WalkIsHeld'
    BY <1>2 DEF GiveUp, GathererOff, GathererTypes, WalkIsHeld
  <2> QED BY <1>1, <2>1, WalkGoesOn DEF MarketInv, Settled
<1>3. CASE GoTo("manifest", 1)
  <2>1. GathererTypes' /\ WalkIsHeld'
    BY <1>3, Goes
  <2> QED BY <1>1, <2>1, WalkGoesOn DEF MarketInv, Settled
<1> QED BY <1>2, <1>3 DEF WriteMarketQuality, WriteMarketManifest

\* With no gaps there are no intervals; what is suspended was so for the day.
LEMMA MaterializeKeeps == ASSUME MarketInv, Materialize PROVE MarketInv'
<1>1. UNCHANGED <<files, intervals, marketManifest, gatherer>> /\ marketManifest # Missing
  BY DEF Materialize, marketSeals
<1>2. materialized' = [traded |-> WithSeeds \cap ListedDays(TargetDays),
                       suspended |-> Suspended(TargetDays) \cap ListedDays(TargetDays)]
  BY DEF Materialize
<1>3. DaysHeld /\ Explained
  BY <1>1 DEF MarketInv, Settled, PastTheGaps
<1>4. Gaps' = Gaps /\ FullDay(TargetDays)' = FullDay(TargetDays) /\ DaysHeld'
  BY <1>1, <1>3, GapsFollowTheDays
<1>5. Explained'
  BY <1>1, <1>3, <1>4 DEF Explained
<1>6. Gaps = {} => Suspended(TargetDays) = FullDay(TargetDays)
  BY <1>3 DEF Explained, Suspended, InInterval
<1>7. TradersAreNotSuspended'
  BY <1>2, <1>4, <1>6 DEF TradersAreNotSuspended
<1>8. GathererTypes' /\ WalkIsHeld'
  BY <1>1 DEF MarketInv, GathererTypes, WalkIsHeld, AtDay
<1> QED BY <1>1, <1>4, <1>5, <1>7, <1>8 DEF MarketInv, Settled

-----------------------------------------------------------------------------
(* Explained gaps *)

LEMMA MarketStepsKeep ==
    ASSUME MissingIsNoTable
    PROVE  MarketInv /\ [MarketNext]_marketVars => MarketInv'
<1> SUFFICES ASSUME MarketInv, [MarketNext]_marketVars
             PROVE  MarketInv'
  OBVIOUS
<1>1. ASSUME NEW scope \in Scopes, StartMarket(scope) PROVE MarketInv'
  BY <1>1, StartKeeps
<1>2. CASE ReuseTable
  BY <1>2, ReuseTableKeeps
<1>3. CASE StageTable
  BY <1>3, StageTableKeeps
<1>4. CASE ReuseDay
  BY <1>4, ReuseDayKeeps
<1>5. CASE FetchDayPage
  BY <1>5, FetchDayPageKeeps
<1>6. CASE WriteDay
  BY <1>6, WriteDayKeeps
<1>7. CASE DropIntervals
  BY <1>7, DropIntervalsKeeps
<1>8. CASE StageIntervals
  BY <1>8, StageIntervalsKeeps
<1>9. CASE CheckIntervals
  BY <1>9, CheckIntervalsKeeps
<1>10. CASE StageSeeds
  BY <1>10, StageSeedsKeeps
<1>11. CASE WriteMarketQuality \/ WriteMarketManifest
  BY <1>11, SealsKeep
<1>12. CASE KillGatherer
  <2>1. GiveUp /\ UNCHANGED <<files, intervals, materialized, marketManifest>>
    BY <1>12 DEF KillGatherer, marketSeals
  <2> QED BY <2>1, GivesUp
<1>13. CASE Materialize
  BY <1>13, MaterializeKeeps
<1>14. CASE UNCHANGED marketVars
  <2>1. UNCHANGED <<files, intervals, materialized, marketManifest, gatherer>>
    BY <1>14 DEF marketVars, marketFrame, marketSeals
  <2>2. GathererTypes' /\ WalkIsHeld' /\ (PastTheGaps' => PastTheGaps)
    BY <2>1 DEF MarketInv, GathererTypes, WalkIsHeld, AtDay, PastTheGaps
  <2> QED BY <2>1, <2>2, WalkGoesOn DEF MarketInv, Settled
<1> QED
  BY <1>1, <1>2, <1>3, <1>4, <1>5, <1>6, <1>7, <1>8, <1>9, <1>10, <1>11, <1>12, <1>13, <1>14
     DEF MarketNext, GathererStep

\* Whatever is killed, refused, answered anew or left behind, a sealed
\* collection has no listed day of a stock without a bar that neither a
\* suspension of the whole day nor an official interval explains; and where
\* there are no such days, no snapshot marks a stock suspended on a day on
\* which it traded.
THEOREM NoGapIsSealedUnexplained ==
    ASSUME MissingIsNoTable
    PROVE  MarketSpec => [](GapsHaveIntervals /\ TradersAreNotSuspended)
<1>1. MarketInit => MarketInv
  BY MarketStarts
<1>2. MarketInv /\ [MarketNext]_marketVars => MarketInv'
  BY MarketStepsKeep
<1>3. MarketInv => GapsHaveIntervals /\ TradersAreNotSuspended
  BY DEF MarketInv, Settled, PastTheGaps, Explained, GapsHaveIntervals
<1> QED BY <1>1, <1>2, <1>3, PTL DEF MarketSpec

-----------------------------------------------------------------------------
(* What is sealed stays as it is *)

TablesHeld(n) == \A j \in 1..n : files[Table(References[j])] # Missing
TablesAreHeld ==
    /\ gatherer.pc = "tables" => gatherer.at \in 1..5 /\ TablesHeld(gatherer.at - 1)
    /\ gatherer.pc \in {"days", "paged", "seeding"} => TablesHeld(3)
    /\ gatherer.pc \in {"quality", "manifest"} => TablesHeld(5)
    /\ marketManifest # Missing => TablesHeld(5)

\* Seeds are asked for once, for gaps that there are.
SeedsAreHeld ==
    /\ gatherer.pc = "seeding" => Gaps # {} /\ seeds = Missing
    /\ \/ marketManifest # Missing
       \/ gatherer.pc \in {"quality", "manifest"}
       \/ gatherer.pc = "tables" /\ gatherer.at >= 4
       => (Gaps # {} => seeds # Missing)

SealInv ==
    /\ marketWorld \in MarketWorlds
    /\ marketRequest = Missing => gatherer.pc = "off" /\ marketManifest = Missing
    /\ TablesAreHeld /\ SeedsAreHeld
    /\ gatherer.pc = "manifest" => marketQuality = MarketReport
    /\ marketManifest # Missing => marketQuality = MarketReport /\ MarketVerified

\* A step that writes no day file and no seal keeps SealInv if, where there is a
\* seal, it writes nothing at all.
LEMMA UnderTheSeal ==
    ASSUME MarketInv, SealInv, UNCHANGED <<marketWorld, marketRequest, marketManifest, marketQuality>>,
           \A p \in DayParts : files'[p] = files[p],
           marketManifest # Missing => UNCHANGED <<files, intervals, seeds>>,
           gatherer.pc # "off" \/ gatherer'.pc = "off",
           gatherer'.pc = "manifest" => marketQuality = MarketReport,
           TablesAreHeld', SeedsAreHeld'
    PROVE  SealInv'
<1>1. MarketReport' = MarketReport
  BY DEF MarketReport
<1>2. marketManifest # Missing => MarketVerified'
  BY DEF SealInv, MarketVerified, MarketFiles
<1> QED BY <1>1, <1>2 DEF SealInv

\* So does one that only moves, to where what it needs is held.
LEMMA MovesUnderTheSeal ==
    ASSUME MarketInv, SealInv, UNCHANGED <<marketWorld, marketRequest, files, intervals, seeds, marketSeals>>,
           gatherer.pc # "off" \/ gatherer'.pc = "off",
           gatherer'.pc = "manifest" => marketQuality = MarketReport,
           gatherer'.pc = "tables" => gatherer'.at \in 1..5 /\ TablesHeld(gatherer'.at - 1),
           gatherer'.pc \in {"days", "paged", "seeding"} => TablesHeld(3),
           gatherer'.pc \in {"quality", "manifest"} => TablesHeld(5),
           gatherer'.pc = "seeding" => Gaps # {} /\ seeds = Missing,
           gatherer'.pc \in {"quality", "manifest"} \/ (gatherer'.pc = "tables" /\ gatherer'.at >= 4) =>
               (Gaps # {} => seeds # Missing)
    PROVE  SealInv'
<1>1. Gaps' = Gaps
  BY GapsFollowTheDays
<1>2. UNCHANGED <<marketQuality, marketManifest>>
  BY DEF marketSeals
<1>3. TablesAreHeld'
  BY <1>2 DEF TablesAreHeld, TablesHeld, SealInv
<1>4. SeedsAreHeld'
  BY <1>1, <1>2 DEF SeedsAreHeld, SealInv
<1> QED BY <1>2, <1>3, <1>4, UnderTheSeal

LEMMA EndsUnderTheSeal ==
    ASSUME MarketInv, SealInv, GiveUp, UNCHANGED <<marketWorld, marketRequest, files, intervals, seeds, marketSeals>>
    PROVE  SealInv'
<1>1. gatherer'.pc = "off"
  BY DEF GiveUp, GathererOff
<1> QED BY <1>1, MovesUnderTheSeal

\* What stands on a table that is held: the next one, or what is past them.
LEMMA NextTable ==
    ASSUME MarketInv, SealInv, gatherer.pc = "tables", AfterTable
    PROVE  /\ gatherer'.pc = "tables" => gatherer'.at = gatherer.at + 1 /\ gatherer.at \in {1, 2, 4}
           /\ gatherer'.pc = "days" => gatherer.at = 3
           /\ gatherer'.pc = "quality" => gatherer.at = 5
           /\ gatherer'.pc \in {"tables", "days", "quality"}
<1>1. gatherer.at \in 1..5 /\ Len(References) = 5
  BY DEF SealInv, TablesAreHeld, References
<1> QED BY <1>1 DEF AfterTable, GoTo

\* The request is written before anything else, and the sealed one is kept.
LEMMA StartSeal ==
    ASSUME MarketInv, SealInv, NEW scope \in Scopes, StartMarket(scope)
    PROVE  SealInv'
<1>1. /\ UNCHANGED <<marketWorld, files, intervals, seeds, marketSeals>>
      /\ gatherer.pc = "off" /\ marketRequest' # Missing
      /\ marketRequest # Missing => marketRequest' = marketRequest
  BY MarketConstants DEF StartMarket, marketFrame
<1>2. \/ gatherer'.pc = "off"
      \/ gatherer'.pc = "tables" /\ gatherer'.at = 1
  BY DEF StartMarket, GoTo, GiveUp, GathererOff
<1>3. Gaps' = Gaps /\ MarketReport' = MarketReport
  <2>1. \A p \in DayParts : files'[p] = files[p]
    BY <1>1
  <2> QED BY <2>1, GapsFollowTheDays DEF MarketReport
<1>4. UNCHANGED <<marketQuality, marketManifest>>
  BY <1>1 DEF marketSeals
<1>5. TablesAreHeld' /\ SeedsAreHeld'
  BY <1>1, <1>2, <1>3, <1>4 DEF SealInv, TablesAreHeld, TablesHeld, SeedsAreHeld
<1>6. marketManifest # Missing => marketQuality' = MarketReport' /\ MarketVerified'
  BY <1>1, <1>3, <1>4 DEF SealInv, MarketVerified, MarketFiles
<1> QED BY <1>1, <1>2, <1>4, <1>5, <1>6 DEF SealInv

LEMMA ReuseTableSeal == ASSUME MarketInv, SealInv, ReuseTable PROVE SealInv'
<1>1. /\ UNCHANGED <<marketWorld, marketRequest, files, intervals, seeds, marketSeals>>
      /\ gatherer.pc = "tables" /\ files[Table(References[gatherer.at])] # Missing
  BY DEF ReuseTable, marketFrame
<1>2. CASE GiveUp
  BY <1>1, <1>2, EndsUnderTheSeal
<1>3. CASE AfterTable
  <2>1. gatherer.at \in 1..5 /\ TablesHeld(gatherer.at)
    BY <1>1 DEF SealInv, TablesAreHeld, TablesHeld
  <2>2. gatherer.at >= 4 => (Gaps # {} => seeds # Missing)
    BY <1>1 DEF SealInv, SeedsAreHeld
  <2> HIDE DEF TablesHeld
  <2>3. gatherer'.pc = "tables" => gatherer'.at \in 1..5 /\ TablesHeld(gatherer'.at - 1)
    BY <1>1, <1>3, <2>1, NextTable
  <2>4. gatherer'.pc = "tables" /\ gatherer'.at >= 4 => gatherer.at >= 4
    BY <1>1, <1>3, NextTable
  <2> QED BY <1>1, <1>3, <2>1, <2>2, <2>3, <2>4, NextTable, MovesUnderTheSeal
<1> QED BY <1>2, <1>3 DEF ReuseTable

\* A table is staged where there is none; that is before the first seal.
LEMMA StageTableSeal == ASSUME MarketInv, SealInv, StageTable PROVE SealInv'
<1> DEFINE table == Table(References[gatherer.at])
<1>1. /\ UNCHANGED <<marketWorld, marketRequest, intervals, seeds, marketQuality, marketManifest>>
      /\ gatherer.pc = "tables" /\ files[table] = Missing
  BY DEF StageTable, marketFrame, marketSeals
<1>2. gatherer.at \in 1..5 /\ References[gatherer.at] \in TableNames
  BY <1>1 DEF SealInv, TablesAreHeld, TableNames, References
<1>3. marketManifest = Missing
  BY <1>1, <1>2 DEF SealInv, TablesAreHeld, TablesHeld
<1>4. PICK answer \in marketWorld.tables[table.api] :
         /\ files' = IF answer = "refused" THEN files ELSE [files EXCEPT ![table] = answer]
         /\ IF answer = "good" THEN AfterTable ELSE GiveUp
  BY DEF StageTable
<1>5. answer \in {"good", "refused", "unusable"}
  BY <1>2, MarketAnswers DEF SealInv, Table
<1>6. \A p \in DayParts : files'[p] = files[p]
  <2>1. \A p \in DayParts : p # table /\ p \in DOMAIN files
    BY WalkVisitsDays DEF MarketInv, Files, DayNames, Table
  <2> QED BY <1>4, <2>1
<1>7. table \in DOMAIN files
  BY <1>2 DEF MarketInv, Files
<1>8. Gaps' = Gaps
  BY <1>6, GapsFollowTheDays
<1>9. CASE answer # "good"
  <2>1. gatherer'.pc = "off"
    BY <1>4, <1>9 DEF GiveUp, GathererOff
  <2>2. TablesAreHeld' /\ SeedsAreHeld'
    BY <1>1, <1>3, <2>1 DEF TablesAreHeld, SeedsAreHeld
  <2> QED BY <1>1, <1>3, <1>6, <2>1, <2>2, UnderTheSeal
<1>10. CASE answer = "good"
  <2>1. files'[table] # Missing /\ \A f \in DOMAIN files : files[f] # Missing => files'[f] # Missing
    BY <1>4, <1>7, <1>10, MarketConstants
  <2>2. \A j \in 1..5 : References[j] \in TableNames /\ Table(References[j]) \in DOMAIN files
    BY DEF References, TableNames, MarketInv, Files
  <2>3. \A j \in 1..gatherer.at : files'[Table(References[j])] # Missing
    <3>1. SUFFICES ASSUME NEW j \in 1..gatherer.at PROVE files'[Table(References[j])] # Missing
      OBVIOUS
    <3>2. CASE j = gatherer.at
      BY <2>1, <3>2
    <3>3. CASE j # gatherer.at
      BY <1>1, <1>2, <2>1, <2>2, <3>3 DEF SealInv, TablesAreHeld, TablesHeld
    <3> QED BY <3>2, <3>3
  <2>4. /\ gatherer'.pc = "tables" => gatherer'.at = gatherer.at + 1 /\ gatherer.at \in {1, 2, 4}
        /\ gatherer'.pc = "days" => gatherer.at = 3
        /\ gatherer'.pc = "quality" => gatherer.at = 5
        /\ gatherer'.pc \in {"tables", "days", "quality"}
    BY <1>1, <1>4, <1>10, NextTable
  <2>5. TablesAreHeld'
    BY <1>1, <1>3, <2>3, <2>4 DEF TablesAreHeld, TablesHeld
  <2>6. SeedsAreHeld'
    BY <1>1, <1>3, <1>8, <2>4 DEF SealInv, SeedsAreHeld
  <2> QED BY <1>1, <1>3, <1>6, <2>4, <2>5, <2>6, UnderTheSeal
<1> QED BY <1>9, <1>10

LEMMA ReuseDaySeal == ASSUME MarketInv, SealInv, ReuseDay PROVE SealInv'
<1>1. /\ UNCHANGED <<marketWorld, marketRequest, files, intervals, seeds, marketSeals>>
      /\ gatherer.pc = "days"
  BY DEF ReuseDay, OverDays, marketFrame
<1>2. CASE GiveUp
  BY <1>1, <1>2, EndsUnderTheSeal
<1>3. CASE AfterDay
  <2>1. gatherer'.pc = "days" /\ TablesHeld(3)
    BY <1>1, <1>3 DEF AfterDay, GoTo, SealInv, TablesAreHeld
  <2> QED BY <1>1, <2>1, MovesUnderTheSeal
<1> QED BY <1>2, <1>3 DEF ReuseDay

LEMMA FetchDayPageSeal == ASSUME MarketInv, SealInv, FetchDayPage PROVE SealInv'
<1>1. /\ UNCHANGED <<marketWorld, marketRequest, files, intervals, seeds, marketSeals>>
      /\ gatherer.pc = "days"
  BY DEF FetchDayPage, OverDays, marketFrame
<1> DEFINE offset == IF marketWorld.ignoresOffset THEN 0 ELSE Len(gatherer.rows)
           page(rows) == DayPage(rows, offset)
<1>2. PICK rows \in marketWorld.rows[AtDay] :
         gatherer' = [gatherer EXCEPT
             !.rows = IF marketWorld.ignoresOffset /\ Len(@) >= DayPages * DayPageLimit
                      THEN @ ELSE @ \o page(rows),
             !.pc = IF Len(page(rows)) < DayPageLimit THEN "paged" ELSE @]
  BY DEF FetchDayPage
<1> HIDE DEF page
<1>3. gatherer'.pc \in {"days", "paged"} /\ TablesHeld(3)
  BY <1>1, <1>2 DEF MarketInv, GathererTypes, SealInv, TablesAreHeld
<1> QED BY <1>1, <1>3, MovesUnderTheSeal

\* No day is missing under a seal; before it, day files concern no table.
LEMMA WriteDaySeal == ASSUME MarketInv, SealInv, WriteDay PROVE SealInv'
<1>1. /\ UNCHANGED <<marketWorld, marketRequest, intervals, seeds, marketQuality, marketManifest>>
      /\ gatherer.pc = "paged"
  BY DEF WriteDay, marketFrame, marketSeals
<1>2. CASE GiveUp /\ UNCHANGED files
  BY <1>1, <1>2, EndsUnderTheSeal DEF marketSeals
<1>3. ASSUME NEW rows, files' = [files EXCEPT ![AtDay] = ChosenRows(rows)], AfterDay
      PROVE  SealInv'
  <2>1. gatherer.at \in 1..Len(DayWalk) /\ files[AtDay] = Missing
    BY <1>1, WalkVisitsDays DEF MarketInv, GathererTypes, WalkIsHeld
  <2>2. AtDay \in DayParts
    BY <2>1, WalkVisitsDays DEF AtDay
  <2>3. marketManifest = Missing
    BY <2>1, <2>2 DEF MarketInv, Settled, PastTheGaps, DaysHeld
  <2>4. gatherer'.pc = "days"
    BY <1>3 DEF AfterDay, GoTo
  <2>5. \A name : AtDay # Table(name)
    BY <2>2, WalkVisitsDays DEF DayNames, Table
  <2>6. \A j \in 1..3 : Table(References[j]) \in DOMAIN files
    BY DEF References, TableNames, MarketInv, Files
  <2>7. TablesAreHeld'
    BY <1>1, <1>3, <2>3, <2>4, <2>5, <2>6 DEF SealInv, TablesAreHeld, TablesHeld
  <2>8. SeedsAreHeld'
    BY <1>1, <2>3, <2>4 DEF SeedsAreHeld
  <2> QED BY <1>1, <2>3, <2>4, <2>7, <2>8 DEF SealInv
<1> QED BY <1>2, <1>3 DEF WriteDay

\* Where there are no gaps, intervals that are sealed are none already.
LEMMA DropIntervalsSeal == ASSUME MarketInv, SealInv, DropIntervals PROVE SealInv'
<1>1. /\ UNCHANGED <<marketWorld, marketRequest, files, seeds, marketQuality, marketManifest>>
      /\ gatherer.pc = "days" /\ Gaps = {} /\ intervals' = {}
      /\ gatherer'.pc = "tables" /\ gatherer'.at = 4
  BY DEF DropIntervals, DaysDone, marketFrame, marketSeals, GoTo
<1>2. marketManifest # Missing => UNCHANGED intervals
  BY <1>1 DEF MarketInv, Settled, PastTheGaps, Explained
<1>3. Gaps' = Gaps
  BY <1>1, GapsFollowTheDays
<1>4. TablesAreHeld'
  BY <1>1 DEF SealInv, TablesAreHeld, TablesHeld
<1>5. SeedsAreHeld'
  BY <1>1, <1>3 DEF SeedsAreHeld
<1> QED BY <1>1, <1>2, <1>4, <1>5, UnderTheSeal

\* Where there are gaps, intervals are sealed with them.
LEMMA StageIntervalsSeal == ASSUME MarketInv, SealInv, StageIntervals PROVE SealInv'
<1>1. /\ UNCHANGED <<marketWorld, marketRequest, files, seeds, marketQuality, marketManifest, gatherer>>
      /\ gatherer.pc = "days" /\ Gaps # {} /\ intervals = Missing
  BY DEF StageIntervals, DaysDone, marketFrame, marketSeals
<1>2. marketManifest = Missing
  BY <1>1 DEF MarketInv, Settled, PastTheGaps, Explained
<1>3. TablesAreHeld' /\ SeedsAreHeld'
  BY <1>1, <1>2 DEF SealInv, TablesAreHeld, TablesHeld, SeedsAreHeld
<1> QED BY <1>1, <1>2, <1>3, UnderTheSeal

LEMMA CheckIntervalsSeal == ASSUME MarketInv, SealInv, CheckIntervals PROVE SealInv'
<1>1. /\ UNCHANGED <<marketWorld, marketRequest, files, intervals, seeds, marketSeals>>
      /\ gatherer.pc = "days" /\ Gaps # {} /\ TablesHeld(3)
  BY DEF CheckIntervals, DaysDone, marketFrame, SealInv, TablesAreHeld
<1>2. CASE GiveUp
  BY <1>1, <1>2, EndsUnderTheSeal
<1>3. CASE seeds = Missing /\ GoTo("seeding", 1)
  <2>1. gatherer'.pc = "seeding"
    BY <1>3 DEF GoTo
  <2> QED BY <1>1, <1>3, <2>1, MovesUnderTheSeal
<1>4. CASE seeds # Missing /\ GoTo("tables", 4)
  <2>1. gatherer'.pc = "tables" /\ gatherer'.at = 4
    BY <1>4 DEF GoTo
  <2> QED BY <1>1, <1>4, <2>1, MovesUnderTheSeal
<1> QED BY <1>2, <1>3, <1>4 DEF CheckIntervals

\* Where there are gaps, seeds are sealed with them.
LEMMA StageSeedsSeal == ASSUME MissingIsNoTable, MarketInv, SealInv, StageSeeds PROVE SealInv'
<1>1. /\ UNCHANGED <<marketWorld, marketRequest, files, intervals, marketQuality, marketManifest>>
      /\ gatherer.pc = "seeding" /\ Gaps # {} /\ seeds = Missing /\ TablesHeld(3)
  BY DEF StageSeeds, marketFrame, marketSeals, SealInv, TablesAreHeld, SeedsAreHeld
<1>2. PICK answer \in [GapStocks -> UNION {EarlierBars(s) : s \in GapStocks}] :
         /\ \A s \in GapStocks : answer[s] \in EarlierBars(s)
         /\ \/ GiveUp /\ UNCHANGED seeds
            \/ seeds' = UNION {{s} \X answer[s] : s \in GapStocks} /\ GoTo("tables", 4)
  BY DEF StageSeeds
<1>3. CASE GiveUp /\ UNCHANGED seeds
  BY <1>1, <1>3, EndsUnderTheSeal DEF marketSeals
<1>4. CASE seeds' = UNION {{s} \X answer[s] : s \in GapStocks} /\ GoTo("tables", 4)
  <2>1. marketManifest = Missing
    BY <1>1 DEF SealInv, SeedsAreHeld
  <2>2. gatherer'.pc = "tables" /\ gatherer'.at = 4
    BY <1>4 DEF GoTo
  <2>3. GapStocks \subseteq DOMAIN Listing
    BY DEF GapStocks, Gaps, ListedDays, Chosen
  <2>4. \A s \in GapStocks : answer[s] \subseteq Nat
    <3> SUFFICES ASSUME NEW s \in GapStocks PROVE answer[s] \subseteq Nat
      OBVIOUS
    <3>1. s \in DOMAIN Listing /\ \A days \in marketWorld.earlier[s] : days \subseteq Nat
      BY <2>3, MarketAnswers DEF SealInv
    <3>2. PICK days \in marketWorld.earlier[s] :
             answer[s] = {d \in days : \A m \in Gaps : m[1] = s => d < m[2]}
      BY <1>2 DEF EarlierBars
    <3> QED BY <3>1, <3>2
  <2>5. seeds' \in SUBSET ((DOMAIN Listing) \X Nat)
    <3>1. SUFFICES ASSUME NEW bar \in seeds' PROVE bar \in (DOMAIN Listing) \X Nat
      OBVIOUS
    <3>2. PICK s \in GapStocks : bar \in {s} \X answer[s]
      BY <1>4
    <3>3. s \in DOMAIN Listing /\ answer[s] \subseteq Nat
      BY <2>3, <2>4
    <3>4. PICK d \in answer[s] : bar = <<s, d>>
      BY <3>2
    <3> QED BY <3>3, <3>4
  <2>6. seeds' # Missing
    <3>1. Missing \notin SUBSET ((DOMAIN Listing) \X Nat)
      BY Zenon DEF MissingIsNoTable
    <3> QED BY <2>5, <3>1, Zenon
  <2>7. TablesAreHeld' /\ SeedsAreHeld'
    BY <1>1, <2>1, <2>2, <2>6 DEF TablesAreHeld, TablesHeld, SeedsAreHeld
  <2> QED BY <1>1, <2>1, <2>2, <2>7, UnderTheSeal
<1> QED BY <1>2, <1>3, <1>4

\* The report is made of what is held, so that a second one is the first.
LEMMA QualitySeal == ASSUME MarketInv, SealInv, WriteMarketQuality PROVE SealInv'
<1>1. /\ UNCHANGED <<marketWorld, marketRequest, files, intervals, seeds, marketManifest>>
      /\ gatherer.pc = "quality" /\ TablesHeld(5) /\ (Gaps # {} => seeds # Missing)
  BY DEF WriteMarketQuality, marketFrame, SealInv, TablesAreHeld, SeedsAreHeld
<1>2. CASE GiveUp /\ UNCHANGED marketQuality
  BY <1>1, <1>2, EndsUnderTheSeal DEF marketSeals
<1>3. CASE marketQuality' = MarketReport /\ GoTo("manifest", 1)
  <2>1. gatherer'.pc = "manifest"
    BY <1>3 DEF GoTo
  <2>2. MarketReport' = MarketReport /\ Gaps' = Gaps
    BY <1>1, GapsFollowTheDays DEF MarketReport
  <2>3. TablesAreHeld' /\ SeedsAreHeld'
    BY <1>1, <2>1, <2>2 DEF TablesAreHeld, TablesHeld, SeedsAreHeld
  <2>4. marketManifest # Missing => MarketVerified'
    BY <1>1, <1>3 DEF SealInv, MarketVerified, MarketFiles
  <2> QED BY <1>1, <1>3, <2>1, <2>2, <2>3, <2>4 DEF SealInv
<1> QED BY <1>2, <1>3 DEF WriteMarketQuality

LEMMA ManifestSeal == ASSUME MarketInv, SealInv, WriteMarketManifest PROVE SealInv'
<1>1. /\ UNCHANGED <<marketWorld, marketRequest, files, intervals, seeds, marketQuality>>
      /\ gatherer.pc = "manifest" /\ TablesHeld(5) /\ (Gaps # {} => seeds # Missing)
      /\ marketQuality = MarketReport /\ gatherer'.pc = "off" /\ marketRequest # Missing
  BY DEF WriteMarketManifest, marketFrame, SealInv, TablesAreHeld, SeedsAreHeld, GiveUp, GathererOff
<1>2. PICK instant \in Instants :
         marketManifest' = [request |-> marketRequest, data |-> MarketFiles, quality |-> marketQuality, at |-> instant]
  BY DEF WriteMarketManifest
<1>3. MarketReport' = MarketReport /\ Gaps' = Gaps /\ MarketFiles' = MarketFiles
  BY <1>1, GapsFollowTheDays DEF MarketReport, MarketFiles
<1>4. MarketVerified'
  BY <1>1, <1>2, <1>3 DEF MarketVerified
<1>5. TablesAreHeld' /\ SeedsAreHeld'
  BY <1>1, <1>3 DEF TablesAreHeld, TablesHeld, SeedsAreHeld
<1> QED BY <1>1, <1>3, <1>4, <1>5 DEF SealInv

\* What is known of the files, and of the seal over them.
LEMMA MarketHolds ==
    ASSUME MissingIsNoTable
    PROVE  MarketSpec => [](MarketInv /\ SealInv)
<1>1. MarketInit => MarketInv /\ SealInv
  <2>1. MarketInit => SealInv
    BY DEF MarketInit, GathererOff, SealInv, TablesAreHeld, SeedsAreHeld
  <2> QED BY <2>1, MarketStarts
<1>2. MarketInv /\ SealInv /\ [MarketNext]_marketVars => (MarketInv /\ SealInv)'
  <2> SUFFICES ASSUME MarketInv, SealInv, [MarketNext]_marketVars
               PROVE  SealInv'
    BY MarketStepsKeep
  <2>1. ASSUME NEW scope \in Scopes, StartMarket(scope) PROVE SealInv'
    BY <2>1, StartSeal
  <2>2. CASE ReuseTable \/ StageTable
    BY <2>2, ReuseTableSeal, StageTableSeal
  <2>3. CASE ReuseDay \/ FetchDayPage \/ WriteDay
    BY <2>3, ReuseDaySeal, FetchDayPageSeal, WriteDaySeal
  <2>4. CASE DropIntervals \/ StageIntervals \/ CheckIntervals \/ StageSeeds
    BY <2>4, DropIntervalsSeal, StageIntervalsSeal, CheckIntervalsSeal, StageSeedsSeal
  <2>5. CASE WriteMarketQuality \/ WriteMarketManifest
    BY <2>5, QualitySeal, ManifestSeal
  <2>6. CASE KillGatherer
    <3>1. GiveUp /\ UNCHANGED <<marketWorld, marketRequest, files, intervals, seeds, marketSeals>>
      BY <2>6 DEF KillGatherer
    <3> QED BY <3>1, EndsUnderTheSeal
  <2>7. CASE Materialize \/ UNCHANGED marketVars
    <3>1. UNCHANGED <<marketWorld, marketRequest, files, intervals, seeds, marketSeals, gatherer>>
      BY <2>7 DEF Materialize, marketVars, marketFrame
    <3>2. TablesAreHeld' /\ SeedsAreHeld'
      BY <3>1, GapsFollowTheDays DEF SealInv, TablesAreHeld, TablesHeld, SeedsAreHeld, marketSeals
    <3>3. gatherer'.pc = "manifest" => marketQuality = MarketReport
      BY <3>1 DEF SealInv
    <3> QED BY <3>1, <3>2, <3>3, UnderTheSeal DEF marketSeals, SealInv
  <2> QED BY <2>1, <2>2, <2>3, <2>4, <2>5, <2>6, <2>7 DEF MarketNext, GathererStep
<1> QED BY <1>1, <1>2, PTL DEF MarketSpec

\* Whatever is killed, refused or answered anew, a manifest that stands agrees
\* with the request, the files and the quality report beside it, while a later
\* run goes over them and seals them again as well; so the next start and the
\* materialization accept it.
THEOREM SealedCollectionsVerify ==
    ASSUME MissingIsNoTable
    PROVE  MarketSpec => []MarketPackVerifies
<1>1. SealInv => MarketPackVerifies
  BY DEF SealInv, MarketPackVerifies
<1> QED BY <1>1, MarketHolds, PTL

-----------------------------------------------------------------------------
(* Seeds *)

\* Seeds are staged when the days are all held, for each gap one from before it.
SeedsFit ==
    seeds # Missing => DaysHeld /\ \A m \in Gaps : \E d \in 0..(m[2] - 1) : <<m[1], d>> \in seeds

\* Which files a step writes: a table that is missing, or the day that is.
LEMMA FilesWritten ==
    ASSUME MarketInv, [MarketNext]_marketVars
    PROVE  \/ files' = files
           \/ StageTable /\ \E answer \in marketWorld.tables[References[gatherer.at]] :
                answer # "refused" /\ files' = [files EXCEPT ![Table(References[gatherer.at])] = answer]
           \/ WriteDay /\ files' = [files EXCEPT ![AtDay] = ChosenRows(gatherer.rows)]
<1>1. CASE StageTable BY <1>1 DEF StageTable, Table
<1>2. CASE WriteDay BY <1>2 DEF WriteDay
<1>3. CASE ~StageTable /\ ~WriteDay
  BY <1>3 DEF MarketNext, GathererStep, StartMarket, ReuseTable, ReuseDay, FetchDayPage, DropIntervals,
              StageIntervals, CheckIntervals, StageSeeds, WriteMarketQuality, WriteMarketManifest,
              KillGatherer, Materialize, marketVars
<1> QED BY <1>1, <1>2, <1>3

\* Days that are held stay as they are.
LEMMA HeldDaysStay ==
    ASSUME MarketInv, [MarketNext]_marketVars
    PROVE  \A p \in DayParts : files[p] # Missing => files'[p] = files[p]
<1>1. \A p \in DayParts : \A name : p # Table(name)
  BY WalkVisitsDays DEF DayNames, Table
<1>2. CASE WriteDay /\ files' = [files EXCEPT ![AtDay] = ChosenRows(gatherer.rows)]
  <2>1. files[AtDay] = Missing BY <1>2 DEF WriteDay, MarketInv, WalkIsHeld
  <2> QED BY <1>2, <2>1
<1>3. DOMAIN files = Files /\ DayParts \subseteq Files
  BY DEF MarketInv, Files
<1> QED BY <1>1, <1>2, <1>3, FilesWritten

\* Seeds are staged once, over days that are held.
LEMMA SeedsStep ==
    ASSUME MarketInv, SealInv, SeedsFit, [MarketNext]_marketVars
    PROVE  SeedsFit'
<1>1. ASSUME DaysHeld PROVE Gaps' = Gaps /\ DaysHeld'
  <2>1. \A p \in DayParts : files'[p] = files[p] BY <1>1, HeldDaysStay DEF DaysHeld
  <2> QED BY <1>1, <2>1, GapsFollowTheDays
<1>2. CASE UNCHANGED seeds
  BY <1>1, <1>2 DEF SeedsFit
<1>3. CASE StageSeeds /\ seeds' # seeds
  <2>1. DaysHeld BY <1>3 DEF StageSeeds, MarketInv, Settled, PastTheGaps
  <2>2. PICK answer \in [GapStocks -> UNION {EarlierBars(s) : s \in GapStocks}] :
           /\ \A s \in GapStocks : answer[s] \in EarlierBars(s) /\ answer[s] # {}
           /\ seeds' = UNION {{s} \X answer[s] : s \in GapStocks}
    BY <1>3 DEF StageSeeds
  <2>3. ASSUME NEW m \in Gaps PROVE \E d \in 0..(m[2] - 1) : <<m[1], d>> \in seeds'
    <3>1. m[1] \in GapStocks /\ m[1] \in DOMAIN Listing /\ m[2] \in Nat
      BY MarketConstants DEF GapStocks, Gaps, ListedDays, Chosen, TargetDays
    <3>2. PICK days \in marketWorld.earlier[m[1]] :
             answer[m[1]] = {d \in days : \A n \in Gaps : n[1] = m[1] => d < n[2]}
      BY <2>2, <3>1 DEF EarlierBars
    <3>3. PICK d \in answer[m[1]] : TRUE BY <2>2, <3>1
    <3>4. days \subseteq Nat BY <3>1, MarketAnswers DEF SealInv
    <3>5. d \in Nat /\ d < m[2] BY <3>2, <3>3, <3>4
    <3>6. <<m[1], d>> \in {m[1]} \X answer[m[1]] BY <3>3
    <3>7. d \in 0..(m[2] - 1) BY <3>1, <3>5
    <3> QED BY <2>2, <3>1, <3>6, <3>7
  <2> QED BY <1>1, <2>1, <2>3 DEF SeedsFit
<1> QED
  BY <1>2, <1>3 DEF MarketNext, GathererStep, StartMarket, ReuseTable, StageTable, ReuseDay, FetchDayPage,
       WriteDay, DropIntervals, StageIntervals, CheckIntervals, WriteMarketQuality, WriteMarketManifest,
       KillGatherer, Materialize, marketVars

\* A sealed gap has an interval and a seed.
THEOREM GapsAreSealedWithSeeds ==
    ASSUME MissingIsNoTable
    PROVE  MarketSpec => []GapsAreExplained
<1>1. MarketInit => SeedsFit BY DEF MarketInit, SeedsFit
<1>2. (MarketInv /\ SealInv) /\ SeedsFit /\ [MarketNext]_marketVars => SeedsFit' BY SeedsStep
<1>3. (MarketInv /\ SealInv) /\ SeedsFit => GapsHaveSeeds
  BY DEF SealInv, SeedsAreHeld, SeedsFit, GapsHaveSeeds
<1> QED BY <1>1, <1>2, <1>3, MarketHolds, NoGapIsSealedUnexplained, PTL DEF MarketSpec, GapsAreExplained

-----------------------------------------------------------------------------
(* Whole days *)

\* The smaller of two naturals.
LEMMA MinOfTwo ==
  ASSUME NEW m \in Nat, NEW n \in Nat
  PROVE  Min({m, n}) \in {m, n} /\ Min({m, n}) <= m /\ Min({m, n}) <= n
<1>1. \E x \in {m, n} : \A y \in {m, n} : x <= y
  <2>1. CASE m <= n BY <2>1
  <2>2. CASE ~(m <= n) BY <2>2
  <2> QED BY <2>1, <2>2
<1> QED BY <1>1 DEF Min

\* Some first rows and the page after them are more first rows; with a page that
\* is not full they are all.
LEMMA OneMoreDayPage ==
    ASSUME NEW S, NEW rows \in Seq(S), NEW n \in 0..Len(rows)
    PROVE  \E m \in 0..Len(rows) :
             /\ SubSeq(rows, 1, n) \o DayPage(rows, n) = SubSeq(rows, 1, m)
             /\ Len(DayPage(rows, n)) < DayPageLimit => m = Len(rows)
             /\ Len(SubSeq(rows, 1, n)) = n
<1> DEFINE m == Min({Len(rows), n + DayPageLimit})
<1>1. Len(rows) \in Nat /\ DayPageLimit \in Nat /\ DayPageLimit > 0 /\ n \in Nat /\ n <= Len(rows)
  BY MarketConstants
<1>2. m \in {Len(rows), n + DayPageLimit} /\ m <= Len(rows) /\ m <= n + DayPageLimit
  BY <1>1, MinOfTwo
<1>3. DayPage(rows, n) = SubSeq(rows, n + 1, m) BY DEF DayPage
<1> HIDE DEF m
<1>4. m \in Nat /\ n <= m BY <1>1, <1>2
<1> PICK first, page, more : /\ first = SubSeq(rows, 1, n) /\ page = SubSeq(rows, n + 1, m)
                             /\ more = SubSeq(rows, 1, m)
  OBVIOUS
<1>5. first \in Seq(S) /\ Len(first) = n /\ \A i \in 1..n : first[i] = rows[i]
  BY <1>1
<1>6. page \in Seq(S) /\ Len(page) = m - n /\ \A i \in 1..(m - n) : page[i] = rows[n + i]
  <2>1. CASE n = m
    <3>1. page = << >> BY <1>1, <1>4, <2>1
    <3> QED BY <1>1, <2>1, <3>1
  <2>2. CASE n # m BY <1>1, <1>2, <1>4, <2>2
  <2> QED BY <2>1, <2>2
<1>7. more \in Seq(S) /\ Len(more) = m /\ \A i \in 1..m : more[i] = rows[i]
  BY <1>1, <1>2, <1>4
<1>8. first \o page = more
  <2> PICK both : both = first \o page OBVIOUS
  <2>1. both \in Seq(S) /\ Len(both) = m BY <1>1, <1>4, <1>5, <1>6
  <2>2. ASSUME NEW i \in 1..m PROVE both[i] = more[i]
    <3>1. CASE i <= n BY <1>1, <1>4, <1>5, <1>6, <1>7, <3>1
    <3>2. CASE ~(i <= n)
      <4>1. i - n \in 1..(m - n) /\ n + (i - n) = i BY <1>1, <1>4, <3>2
      <4>2. i \in 1..(Len(first) + Len(page)) /\ ~(i <= Len(first)) BY <1>1, <1>4, <1>5, <1>6, <3>2
      <4>3. both[i] = page[i - Len(first)] BY <1>5, <1>6, <4>2
      <4>4. both[i] = page[i - n] BY <1>5, <4>3
      <4> QED BY <1>6, <1>7, <4>1, <4>4
    <3> QED BY <3>1, <3>2
  <2> QED BY <1>7, <2>1, <2>2
<1>9. Len(page) < DayPageLimit => m = Len(rows) BY <1>1, <1>2, <1>4, <1>6
<1>10. m \in 0..Len(rows) BY <1>1, <1>2, <1>4
<1>11. SubSeq(rows, 1, n) \o DayPage(rows, n) = SubSeq(rows, 1, m) BY <1>3, <1>8, Zenon
<1>12. Len(DayPage(rows, n)) < DayPageLimit => m = Len(rows) BY <1>3, <1>9, Zenon
<1>13. Len(SubSeq(rows, 1, n)) = n BY <1>5, Zenon
<1> QED BY <1>10, <1>11, <1>12, <1>13, Zenon

\* A provider that keeps to one answer for a day, and to the offsets.
KeepsTo(p, rows) == marketWorld.rows[p] = {rows} /\ ~marketWorld.ignoresOffset

\* What is held of a day is all of it, and what a run has of the day it is at are
\* the first rows, after the last page all of them.
WholeDay(p) ==
    /\ \A row \in files[p] : row.day = p.day
    /\ \A rows \in marketWorld.rows[p] : KeepsTo(p, rows) => files[p] = ChosenRows(rows)
FirstRows ==
    \A rows \in marketWorld.rows[AtDay] : KeepsTo(AtDay, rows) =>
        \E n \in 0..Len(rows) :
            gatherer.rows = SubSeq(rows, 1, n) /\ (gatherer.pc = "paged" => n = Len(rows))
DaysInv ==
    /\ marketWorld \in MarketWorlds
    /\ \A p \in DayParts : files[p] # Missing => WholeDay(p)
    /\ gatherer.pc \in {"days", "paged"} /\ gatherer.at =< Len(DayWalk) => FirstRows

\* A step that begins a day, or none, has no rows of it yet.
LEMMA NoRowsYet ==
    ASSUME DaysInv, NEW pc, NEW at \in Nat \ {0}, GoTo(pc, at), pc # "paged", UNCHANGED marketWorld,
           \A p \in DayParts : files'[p] = files[p] \/ WholeDay(p)'
    PROVE  DaysInv'
<1>1. \A p \in DayParts : files'[p] # Missing => WholeDay(p)'
  BY DEF DaysInv, WholeDay, KeepsTo
<1>2. gatherer'.pc = pc /\ gatherer'.at = at /\ gatherer'.rows = << >> BY DEF GoTo
<1>3. ASSUME gatherer'.at =< Len(DayWalk), pc = "days" PROVE FirstRows'
  <2> SUFFICES ASSUME NEW rows \in marketWorld.rows[AtDay'], KeepsTo(AtDay, rows)'
               PROVE  \E n \in 0..Len(rows) : << >> = SubSeq(rows, 1, n)
    BY <1>2, <1>3 DEF FirstRows
  <2>1. AtDay' \in DayParts BY <1>2, <1>3, WalkVisitsDays DEF AtDay
  <2>2. rows \in Seq(ToSet(rows)) BY <2>1, MarketAnswers DEF DaysInv
  <2> QED BY <2>2
<1> QED BY <1>1, <1>2, <1>3 DEF DaysInv

\* Where a step other than those of a day's pages goes.
LEMMA WhereToGo ==
    ASSUME MarketInv, [MarketNext]_marketVars, ~FetchDayPage
    PROVE  /\ UNCHANGED marketWorld
           /\ \/ UNCHANGED gatherer
              \/ \E pc \in {"off", "tables", "days", "seeding", "quality", "manifest"}, at \in Nat \ {0} :
                   GoTo(pc, at)
<1> DEFINE Gone == \E pc \in {"off", "tables", "days", "seeding", "quality", "manifest"}, at \in Nat \ {0} :
                       GoTo(pc, at)
<1>1. gatherer.at \in Nat \ {0} /\ gatherer.at + 1 \in Nat \ {0}
  BY DEF MarketInv, GathererTypes
<1>2. /\ GoTo("off", 1) => Gone
      /\ \A at \in Nat \ {0} : (GoTo("tables", at) => Gone) /\ (GoTo("days", at) => Gone)
      /\ (GoTo("seeding", 1) => Gone) /\ (GoTo("quality", 1) => Gone) /\ (GoTo("manifest", 1) => Gone)
  BY DEF GoTo
<1> HIDE DEF Gone
<1>3. GiveUp => Gone BY <1>2 DEF GiveUp, GathererOff, GoTo
<1>4. AfterTable => Gone BY <1>1, <1>2 DEF AfterTable
<1>5. AfterDay => Gone BY <1>1, <1>2 DEF AfterDay
<1>6. CASE \E scope \in Scopes : StartMarket(scope)
  BY <1>2, <1>3, <1>6 DEF StartMarket, marketFrame, Gone
<1>7. CASE ReuseTable \/ StageTable
  BY <1>3, <1>4, <1>7 DEF ReuseTable, StageTable, marketFrame, Gone
<1>8. CASE ReuseDay \/ WriteDay
  BY <1>3, <1>5, <1>8 DEF ReuseDay, WriteDay, marketFrame, Gone
<1>9. CASE DropIntervals \/ StageIntervals \/ CheckIntervals \/ StageSeeds
  BY <1>2, <1>3, <1>9 DEF DropIntervals, StageIntervals, CheckIntervals, StageSeeds, marketFrame, Gone
<1>10. CASE WriteMarketQuality \/ WriteMarketManifest \/ KillGatherer
  BY <1>2, <1>3, <1>10 DEF WriteMarketQuality, WriteMarketManifest, KillGatherer, marketFrame, Gone
<1>11. CASE Materialize \/ UNCHANGED marketVars
  BY <1>11 DEF Materialize, marketVars, marketFrame
<1> QED BY <1>6, <1>7, <1>8, <1>9, <1>10, <1>11 DEF MarketNext, GathererStep

\* A page more of the day.
LEMMA FetchDayPageDays == ASSUME MarketInv, DaysInv, FetchDayPage PROVE DaysInv'
<1> PICK p, had : p = AtDay /\ had = gatherer.rows OBVIOUS
<1> DEFINE offset == IF marketWorld.ignoresOffset THEN 0 ELSE Len(had)
<1>1. /\ UNCHANGED <<marketWorld, files>> /\ gatherer.pc = "days" /\ gatherer.at =< Len(DayWalk)
      /\ \E rows \in marketWorld.rows[p] :
           gatherer' = [gatherer EXCEPT
             !.rows = IF marketWorld.ignoresOffset /\ Len(@) >= DayPages * DayPageLimit
                      THEN @ ELSE @ \o DayPage(rows, offset),
             !.pc = IF Len(DayPage(rows, offset)) < DayPageLimit THEN "paged" ELSE @]
  BY DEF FetchDayPage, OverDays, marketFrame
<1>2. gatherer.at \in Nat \ {0} /\ gatherer = [pc |-> gatherer.pc, at |-> gatherer.at, rows |-> gatherer.rows]
  BY DEF MarketInv, GathererTypes
<1>3. p \in DayParts BY <1>1, <1>2, WalkVisitsDays DEF AtDay
<1>4. gatherer'.at = gatherer.at /\ gatherer'.pc \in {"days", "paged"} BY <1>1, <1>2
<1>5. AtDay' = p BY <1>4 DEF AtDay
<1>6. ASSUME NEW rows \in marketWorld.rows[p], KeepsTo(p, rows)
      PROVE  \E m \in 0..Len(rows) :
                gatherer'.rows = SubSeq(rows, 1, m) /\ (gatherer'.pc = "paged" => m = Len(rows))
  <2>1. /\ gatherer'.rows = had \o DayPage(rows, Len(had))
        /\ gatherer'.pc = "paged" => Len(DayPage(rows, Len(had))) < DayPageLimit
    BY <1>1, <1>2, <1>6 DEF KeepsTo
  <2>2. PICK n \in 0..Len(rows) : had = SubSeq(rows, 1, n)
    BY <1>1, <1>6 DEF DaysInv, FirstRows
  <2>3. rows \in Seq(ToSet(rows)) BY <1>3, MarketAnswers DEF DaysInv
  <2>4. PICK m \in 0..Len(rows) :
           /\ SubSeq(rows, 1, n) \o DayPage(rows, n) = SubSeq(rows, 1, m)
           /\ Len(DayPage(rows, n)) < DayPageLimit => m = Len(rows)
           /\ Len(SubSeq(rows, 1, n)) = n
    BY <2>3, OneMoreDayPage
  <2>5. Len(had) = n BY <2>2, <2>4
  <2> QED BY <2>1, <2>2, <2>4, <2>5
<1>7. FirstRows' BY <1>1, <1>5, <1>6 DEF FirstRows, KeepsTo
<1>8. \A q \in DayParts : files[q] # Missing => WholeDay(q)'
  BY <1>1 DEF DaysInv, WholeDay, KeepsTo
<1> QED BY <1>1, <1>7, <1>8 DEF DaysInv

\* What is written of a day are its rows, all of them from a provider that keeps
\* to them.
LEMMA WriteDayDays == ASSUME MarketInv, DaysInv, WriteDay PROVE DaysInv'
<1> PICK p, had : p = AtDay /\ had = gatherer.rows OBVIOUS
<1>1. UNCHANGED marketWorld /\ gatherer.pc = "paged" BY DEF WriteDay, marketFrame
<1>2. gatherer.at \in Nat \ {0} /\ gatherer.at =< Len(DayWalk) /\ gatherer.at + 1 \in Nat \ {0}
  BY <1>1 DEF MarketInv, GathererTypes, WalkIsHeld
<1>3. p \in DayParts /\ DOMAIN files = Files /\ DayParts \subseteq Files
  BY <1>2, WalkVisitsDays DEF AtDay, MarketInv, Files
<1>4. CASE GiveUp /\ UNCHANGED files
  <2>1. GoTo("off", 1) BY <1>4 DEF GiveUp, GathererOff, GoTo
  <2> QED BY <1>1, <1>4, <2>1, NoRowsYet
<1>5. CASE /\ DayPartitionOK(p, ChosenRows(had))
           /\ files' = [files EXCEPT ![p] = ChosenRows(had)] /\ AfterDay
  <2>1. files'[p] = ChosenRows(had) /\ \A q \in DayParts : q # p => files'[q] = files[q]
    BY <1>3, <1>5
  <2>2. ASSUME NEW rows \in marketWorld.rows[p], KeepsTo(p, rows) PROVE had = rows
    <3>1. had = SubSeq(rows, 1, Len(rows)) BY <1>1, <1>2, <2>2 DEF DaysInv, FirstRows
    <3>2. rows \in Seq(ToSet(rows)) BY <1>3, MarketAnswers DEF DaysInv
    <3> QED BY <3>1, <3>2
  <2>3. WholeDay(p)'
    <3>1. \A row \in files'[p] : row.day = p.day BY <1>5, <2>1 DEF DayPartitionOK
    <3>2. \A rows \in marketWorld.rows[p] : KeepsTo(p, rows) => files'[p] = ChosenRows(rows)
      BY <2>1, <2>2
    <3> QED BY <1>1, <3>1, <3>2 DEF WholeDay, KeepsTo
  <2>4. GoTo("days", gatherer.at + 1) BY <1>5 DEF AfterDay
  <2> QED BY <1>1, <1>2, <2>1, <2>3, <2>4, NoRowsYet
<1> QED BY <1>4, <1>5 DEF WriteDay

\* Every step keeps what is held whole.
LEMMA DaysStep ==
    ASSUME MarketInv, DaysInv, [MarketNext]_marketVars
    PROVE  DaysInv'
<1>1. CASE FetchDayPage BY <1>1, FetchDayPageDays
<1>2. CASE WriteDay BY <1>2, WriteDayDays
<1>3. CASE ~FetchDayPage /\ ~WriteDay
  <2>1. \A p \in DayParts : files'[p] = files[p]
    <3>1. \A p \in DayParts : \A name : p # Table(name)
      BY WalkVisitsDays DEF DayNames, Table
    <3>2. DOMAIN files = Files /\ DayParts \subseteq Files BY DEF MarketInv, Files
    <3> QED BY <1>3, <3>1, <3>2, FilesWritten
  <2>2. UNCHANGED marketWorld BY <1>3, WhereToGo
  <2>3. CASE UNCHANGED gatherer
    <3>1. AtDay' = AtDay BY <2>3 DEF AtDay
    <3>2. FirstRows => FirstRows' BY <2>2, <2>3, <3>1 DEF FirstRows, KeepsTo
    <3>3. \A p \in DayParts : files'[p] # Missing => WholeDay(p)'
      BY <2>1, <2>2 DEF DaysInv, WholeDay, KeepsTo
    <3> QED BY <2>2, <2>3, <3>2, <3>3 DEF DaysInv
  <2>4. CASE \E pc \in {"off", "tables", "days", "seeding", "quality", "manifest"}, at \in Nat \ {0} :
                GoTo(pc, at)
    BY <2>1, <2>2, <2>4, NoRowsYet
  <2> QED BY <1>3, <2>3, <2>4, WhereToGo
<1> QED BY <1>1, <1>2, <1>3

\* Across pages, kills and restarts no row of a day is cut off, and none is of
\* another day.
THEOREM NoDayLosesRows ==
    ASSUME MissingIsNoTable
    PROVE  MarketSpec => []NoDayIsCutOff
<1>1. MarketInit => DaysInv
  BY DEF MarketInit, DaysInv, GathererOff, Files
<1>2. (MarketInv /\ SealInv) /\ DaysInv /\ [MarketNext]_marketVars => DaysInv'
  BY DaysStep
<1>3. DaysInv => NoDayIsCutOff
  BY DEF DaysInv, WholeDay, KeepsTo, NoDayIsCutOff
<1> QED BY <1>1, <1>2, <1>3, MarketHolds, PTL DEF MarketSpec

-----------------------------------------------------------------------------
(* What the files and the seals say *)

GoodTables(n) == \A j \in 1..n : files[Table(References[j])] = "good"

\* Past the first tables a run has found them good; a report is of all days; and
\* a snapshot has a bar of every listed day.
SaysInv ==
    /\ \A t \in TableNames : files[Table(t)] \in {Missing, "good", "unusable"}
    /\ gatherer.pc = "tables" => \A n \in 1..3 : n < gatherer.at => GoodTables(n)
    /\ gatherer.pc \in {"days", "paged", "seeding", "quality", "manifest"} => GoodTables(3)
    /\ marketQuality # Missing => marketQuality = MarketReport /\ DaysHeld
    /\ materialized # Missing => materialized.traded \cup materialized.suspended = ListedDays(TargetDays)

\* A table is staged once, and stays.
LEMMA TablesStay ==
    ASSUME MarketInv, SealInv, [MarketNext]_marketVars
    PROVE  \A t \in TableNames :
             /\ files[Table(t)] # Missing => files'[Table(t)] = files[Table(t)]
             /\ files'[Table(t)] \in {files[Table(t)], "good", "unusable"}
<1>1. CASE files' = files BY <1>1
<1>2. CASE WriteDay /\ files' = [files EXCEPT ![AtDay] = ChosenRows(gatherer.rows)]
  <2>1. AtDay \in DayParts
    BY <1>2, WalkVisitsDays DEF WriteDay, MarketInv, GathererTypes, WalkIsHeld, AtDay
  <2> QED BY <1>2, <2>1, WalkVisitsDays
<1>3. CASE StageTable /\ \E answer \in marketWorld.tables[References[gatherer.at]] :
             answer # "refused" /\ files' = [files EXCEPT ![Table(References[gatherer.at])] = answer]
  <2>1. PICK table : table = References[gatherer.at] OBVIOUS
  <2>2. gatherer.pc = "tables" /\ files[Table(table)] = Missing BY <1>3, <2>1 DEF StageTable
  <2>3. table \in TableNames
    BY <2>1, <2>2 DEF SealInv, TablesAreHeld, References, TableNames
  <2>4. PICK answer \in marketWorld.tables[table] :
           answer # "refused" /\ files' = [files EXCEPT ![Table(table)] = answer]
    BY <1>3, <2>1
  <2>5. answer \in {"good", "unusable"} BY <2>3, <2>4, MarketAnswers DEF SealInv
  <2>6. \A t \in TableNames : Table(t) = Table(table) => t = table BY DEF Table
  <2>7. \A t \in TableNames : Table(t) \in DOMAIN files BY DEF MarketInv, Files
  <2> QED BY <2>2, <2>3, <2>4, <2>5, <2>6, <2>7
<1> QED BY <1>1, <1>2, <1>3, FilesWritten

\* Tables that are good stay so.
LEMMA GoodTablesStay ==
    ASSUME MarketInv, SealInv, [MarketNext]_marketVars, NEW n \in 1..5, GoodTables(n)
    PROVE  GoodTables(n)'
<1>1. \A j \in 1..n : References[j] \in TableNames /\ j \in 1..5 BY DEF References, TableNames
<1>2. \A j \in 1..n : files[Table(References[j])] # Missing BY MarketConstants DEF GoodTables
<1> QED BY <1>1, <1>2, TablesStay DEF GoodTables

\* A run comes past the first tables only by good ones.
LEMMA PastGoodTables ==
    ASSUME MarketInv, SealInv, SaysInv, [MarketNext]_marketVars
    PROVE  /\ gatherer'.pc = "tables" => \A n \in 1..3 : n < gatherer'.at => GoodTables(n)'
           /\ gatherer'.pc \in {"days", "paged", "seeding", "quality", "manifest"} => GoodTables(3)'
<1>1. \A n \in 1..3 : GoodTables(n) => GoodTables(n)' BY GoodTablesStay
<1>2. ASSUME ReuseTable \/ StageTable, AfterTable
      PROVE  /\ gatherer.pc = "tables" /\ gatherer.at \in 1..5
             /\ files'[Table(References[gatherer.at])] = "good"
             /\ \/ gatherer'.pc = "tables" /\ gatherer'.at = gatherer.at + 1
                \/ gatherer'.pc = "days" /\ gatherer.at = 3
                \/ gatherer'.pc = "quality" /\ gatherer.at = 5
  <2>1. gatherer.pc = "tables" /\ gatherer.at \in 1..5
    BY <1>2 DEF ReuseTable, StageTable, SealInv, TablesAreHeld
  <2>2. gatherer'.pc # "off" BY <1>2, <2>1 DEF AfterTable, GoTo, References
  <2>3. files'[Table(References[gatherer.at])] = "good"
    <3>1. Table(References[gatherer.at]) \in DOMAIN files
      BY <2>1 DEF MarketInv, Files, TableNames, References
    <3>2. CASE ReuseTable BY <2>2, <3>2 DEF ReuseTable, GiveUp, GathererOff
    <3>3. CASE StageTable BY <2>2, <3>1, <3>3 DEF StageTable, GiveUp, GathererOff
    <3> QED BY <1>2, <3>2, <3>3
  <2> QED BY <1>2, <2>1, <2>3, NextTable
<1>3. CASE (ReuseTable \/ StageTable) /\ AfterTable
  <2>1. \A n \in 1..3 : n < gatherer.at => GoodTables(n)' BY <1>1, <1>2, <1>3 DEF SaysInv
  <2>2. \A n \in 1..3 : n = gatherer.at => GoodTables(n)'
    <3> SUFFICES ASSUME NEW n \in 1..3, n = gatherer.at PROVE GoodTables(n)' OBVIOUS
    <3>1. CASE n = 1 BY <1>2, <1>3, <3>1 DEF GoodTables
    <3>2. CASE n # 1
      <4>1. n - 1 \in 1..3 /\ n - 1 < gatherer.at BY <3>2
      <4>2. GoodTables(n - 1)' BY <2>1, <4>1
      <4>3. \A j \in 1..n : j \in 1..(n - 1) \/ j = n OBVIOUS
      <4> QED BY <1>2, <1>3, <4>2, <4>3 DEF GoodTables
    <3> QED BY <3>1, <3>2
  <2>3. \A n \in 1..3 : n <= gatherer.at => GoodTables(n)' BY <1>2, <1>3, <2>1, <2>2
  <2> QED BY <1>2, <1>3, <2>3
<1>4. CASE gatherer'.pc \in {gatherer.pc, "off"} /\ gatherer'.at = gatherer.at
  BY <1>1, <1>4 DEF SaysInv
<1>5. CASE ~((ReuseTable \/ StageTable) /\ AfterTable)
  <2>1. ~GoodTables(3) => gatherer'.pc = "off" \/ (gatherer'.pc = "tables" /\ gatherer'.at = 1)
                           \/ (gatherer'.pc = gatherer.pc /\ gatherer'.at = gatherer.at)
    <3> SUFFICES ASSUME ~GoodTables(3)
                 PROVE  gatherer'.pc = "off" \/ (gatherer'.pc = "tables" /\ gatherer'.at = 1)
                           \/ (gatherer'.pc = gatherer.pc /\ gatherer'.at = gatherer.at)
        OBVIOUS
    <3>1. gatherer.pc \in {"off", "tables"} BY DEF SaysInv, MarketInv, GathererTypes
    <3>2. GiveUp => gatherer'.pc = "off" BY DEF GiveUp, GathererOff
    <3>3. GoTo("tables", 1) => gatherer'.pc = "tables" /\ gatherer'.at = 1 BY DEF GoTo
    <3> QED BY <1>5, <3>1, <3>2, <3>3
         DEF MarketNext, GathererStep, StartMarket, ReuseTable, StageTable, ReuseDay, FetchDayPage,
             WriteDay, DropIntervals, StageIntervals, CheckIntervals, StageSeeds, WriteMarketQuality,
             WriteMarketManifest, KillGatherer, Materialize, marketVars, OverDays, DaysDone
  <2>2. GoodTables(3) => \A n \in 1..3 : GoodTables(n)'
    <3>1. GoodTables(3) => \A n \in 1..3 : GoodTables(n) BY DEF GoodTables
    <3> QED BY <1>1, <3>1
  <2>3. CASE GoodTables(3) BY <2>2, <2>3
  <2>4. CASE ~GoodTables(3) BY <1>4, <2>1, <2>4
  <2> QED BY <2>3, <2>4
<1> QED BY <1>3, <1>5

LEMMA SaysStep ==
    ASSUME MarketInv, SealInv, SaysInv, [MarketNext]_marketVars
    PROVE  SaysInv'
<1>1. \A t \in TableNames : files'[Table(t)] \in {Missing, "good", "unusable"}
  BY TablesStay DEF SaysInv
<1>2. marketQuality' # Missing => marketQuality' = MarketReport' /\ DaysHeld'
  <2>1. DaysHeld => MarketReport' = MarketReport /\ DaysHeld'
    BY HeldDaysStay DEF MarketReport, DaysHeld
  <2>2. CASE UNCHANGED marketQuality BY <2>1, <2>2 DEF SaysInv
  <2>3. CASE WriteMarketQuality /\ marketQuality' # marketQuality
    <3>1. MarketReport.partitions = DayParts /\ marketQuality' = MarketReport
      BY <2>3 DEF WriteMarketQuality
    <3>2. DaysHeld BY <3>1 DEF MarketReport, DaysHeld
    <3> QED BY <2>1, <3>1, <3>2
  <2> QED BY <2>2, <2>3
      DEF MarketNext, GathererStep, StartMarket, ReuseTable, StageTable, ReuseDay, FetchDayPage,
          WriteDay, DropIntervals, StageIntervals, CheckIntervals, StageSeeds, WriteMarketQuality,
          WriteMarketManifest, KillGatherer, Materialize, marketVars, marketSeals
<1>3. materialized' # Missing =>
        materialized'.traded \cup materialized'.suspended = ListedDays(TargetDays)
  <2>1. CASE UNCHANGED materialized BY <2>1 DEF SaysInv
  <2>2. CASE Materialize
    <3>1. /\ ListedDays(TargetDays) \subseteq WithSeeds \cup Synthesized
          /\ materialized'.traded = WithSeeds \cap ListedDays(TargetDays)
          /\ materialized'.suspended = Suspended(TargetDays) \cap ListedDays(TargetDays)
      BY <2>2 DEF Materialize, Normalizes
    <3>2. Synthesized \subseteq Suspended(TargetDays) BY DEF Synthesized
    <3> QED BY <3>1, <3>2
  <2> QED BY <2>1, <2>2
      DEF MarketNext, GathererStep, StartMarket, ReuseTable, StageTable, ReuseDay, FetchDayPage,
          WriteDay, DropIntervals, StageIntervals, CheckIntervals, StageSeeds, WriteMarketQuality,
          WriteMarketManifest, KillGatherer, marketVars, marketFrame
<1>4. ListedDays(TargetDays)' = ListedDays(TargetDays) BY DEF ListedDays, IsListed, Chosen
<1> QED BY <1>1, <1>2, <1>3, <1>4, PastGoodTables DEF SaysInv

\* The types of the files, and what a report and a snapshot say of them.
THEOREM MarketTypes ==
    ASSUME MissingIsNoTable
    PROVE  MarketSpec => []MarketTypeOK
<1>1. MarketInit => SaysInv
  <2> SUFFICES ASSUME MarketInit PROVE SaysInv OBVIOUS
  <2>1. \A t \in TableNames : files[Table(t)] = Missing BY DEF MarketInit, Files
  <2>2. gatherer.pc = "off" /\ marketQuality = Missing /\ materialized = Missing
    BY DEF MarketInit, GathererOff
  <2> QED BY <2>1, <2>2 DEF SaysInv
<1>2. (MarketInv /\ SealInv) /\ SaysInv /\ [MarketNext]_marketVars => SaysInv'
  BY SaysStep
<1>3. SaysInv => MarketTypeOK
  <2> SUFFICES ASSUME SaysInv PROVE MarketTypeOK OBVIOUS
  <2>1. TableNames \ Indices \subseteq {References[j] : j \in 1..3}
    BY DEF TableNames, Indices, References
  <2> QED BY <2>1 DEF SaysInv, MarketTypeOK, GoodTables
<1> QED BY <1>1, <1>2, <1>3, MarketHolds, PTL DEF MarketSpec

-----------------------------------------------------------------------------
(* What the collection promises *)

\* A step holds one more file, seals them all as they are, or does neither.
LEMMA MarketStepIsStaged ==
    ASSUME MissingIsNoTable, MarketInv, SealInv, [MarketNext]_marketVars
    PROVE  [MarketPack!Next]_(MarketPack!stagedVars)
<1> DEFINE sealed == IF marketManifest = Missing THEN Missing ELSE marketManifest.data.files
<1>1. CASE files' = files /\ UNCHANGED marketManifest
  BY <1>1 DEF MarketPack!stagedVars
<1>2. ASSUME NEW f \in Files, NEW content, files[f] = Missing, content # Missing,
             files' = [files EXCEPT ![f] = content], UNCHANGED marketManifest
      PROVE  MarketPack!Next \/ UNCHANGED <<files, sealed>>
  <2>1. marketManifest = Missing
    <3>1. ASSUME marketManifest # Missing PROVE files[f] # Missing
      <4>1. DaysHeld /\ TablesHeld(5)
        BY <3>1 DEF MarketInv, Settled, PastTheGaps, SealInv, TablesAreHeld
      <4>2. \A t \in TableNames : \E j \in 1..5 : t = References[j] BY DEF TableNames, References
      <4> QED BY <4>1, <4>2 DEF DaysHeld, TablesHeld, Files
    <3> QED BY <1>2, <3>1
  <2>2. files'[f] = content /\ files' = [files EXCEPT ![f] = files'[f]]
    BY <1>2 DEF MarketInv
  <2> QED BY <1>2, <2>1, <2>2 DEF MarketPack!Next, MarketPack!Hold
<1>3. CASE UNCHANGED marketManifest
  <2>1. CASE StageTable /\ \E answer \in marketWorld.tables[References[gatherer.at]] :
               answer # "refused" /\ files' = [files EXCEPT ![Table(References[gatherer.at])] = answer]
    <3>1. References[gatherer.at] \in TableNames /\ files[Table(References[gatherer.at])] = Missing
      BY <2>1 DEF StageTable, SealInv, TablesAreHeld, References, TableNames
    <3>2. \A answer \in marketWorld.tables[References[gatherer.at]] : answer # "refused" => answer # Missing
      BY <3>1, MarketAnswers, MarketConstants DEF SealInv
    <3>3. Table(References[gatherer.at]) \in Files BY <3>1 DEF Files
    <3> QED BY <1>2, <1>3, <2>1, <3>1, <3>2, <3>3 DEF MarketPack!stagedVars
  <2>2. CASE WriteDay /\ files' = [files EXCEPT ![AtDay] = ChosenRows(gatherer.rows)]
    <3>1. files[AtDay] = Missing /\ AtDay \in Files
      BY <2>2, WalkVisitsDays DEF WriteDay, MarketInv, GathererTypes, WalkIsHeld, AtDay
    <3>2. ChosenRows(gatherer.rows) # Missing BY DEF MissingIsNoTable
    <3> QED BY <1>2, <1>3, <2>2, <3>1, <3>2 DEF MarketPack!stagedVars
  <2> QED BY <1>1, <1>3, <2>1, <2>2, FilesWritten
<1>4. CASE WriteMarketManifest
  <2>1. /\ files' = files /\ marketManifest'.data.files = files /\ DaysHeld /\ TablesHeld(5)
    BY <1>4 DEF WriteMarketManifest, MarketFiles, MarketInv, Settled, PastTheGaps, SealInv, TablesAreHeld
  <2>2. \A f \in Files : files[f] # Missing
    <3>1. \A t \in TableNames : \E j \in 1..5 : t = References[j] BY DEF TableNames, References
    <3> QED BY <2>1, <3>1 DEF DaysHeld, TablesHeld, Files
  <2>3. marketManifest # Missing => marketManifest.data.files = files
    BY DEF SealInv, MarketVerified, MarketFiles
  <2>4. sealed' \in {Missing, files} BY <2>1
  <2>5. CASE marketManifest = Missing
    <3>1. CASE marketManifest' = Missing BY <2>1, <2>5, <3>1 DEF MarketPack!stagedVars
    <3>2. CASE marketManifest' # Missing
      BY <2>1, <2>2, <2>5, <3>2 DEF MarketPack!Next, MarketPack!Seal
    <3> QED BY <3>1, <3>2
  <2>6. CASE marketManifest # Missing /\ marketManifest' # Missing
    BY <2>1, <2>3, <2>6 DEF MarketPack!stagedVars
  <2>7. marketManifest' # Missing
    <3>1. \E at \in Instants :
             marketManifest' = [request |-> marketRequest, data |-> MarketFiles, quality |-> marketQuality, at |-> at]
      BY <1>4 DEF WriteMarketManifest
    <3> QED BY <3>1 DEF MissingIsNoTable
  <2> QED BY <2>5, <2>6, <2>7
<1>5. WriteMarketManifest \/ UNCHANGED marketManifest
  BY DEF MarketNext, GathererStep, StartMarket, ReuseTable, StageTable, ReuseDay, FetchDayPage,
         WriteDay, DropIntervals, StageIntervals, CheckIntervals, StageSeeds, WriteMarketQuality,
         KillGatherer, Materialize, marketVars, marketSeals
<1> QED BY <1>3, <1>4, <1>5

\* The tables and the days are held once and sealed as they are, also by the
\* runs that seal again (StagedCollection).
THEOREM MarketIsStaged ==
    ASSUME MissingIsNoTable
    PROVE  MarketSpec => MarketRefinesStaged
<1>1. MarketInit => MarketPack!Init BY DEF MarketInit, MarketPack!Init
<1>2. (MarketInv /\ SealInv) /\ [MarketNext]_marketVars => [MarketPack!Next]_(MarketPack!stagedVars)
  BY MarketStepIsStaged
<1> QED BY <1>1, <1>2, MarketHolds, PTL DEF MarketSpec, MarketRefinesStaged, MarketPack!Spec
=============================================================================
