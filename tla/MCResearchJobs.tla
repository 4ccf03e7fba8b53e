--------------------------- MODULE MCResearchJobs ---------------------------
(***************************************************************************)
(* Instances of ResearchJobs for TLC.                                      *)
(***************************************************************************)
EXTENDS ResearchJobs, TLC

-----------------------------------------------------------------------------
(* The negative list *)

CONSTANTS income, audit, late

IncomeFirst == <<income, audit, late>>
Endpoints == income :> "income" @@ audit :> "fina_audit" @@ late :> "balancesheet"
Late == {late}

Row == [ann |-> "inside", f_ann |-> "none", end |-> "inside", meta |-> "full", payload |-> 1]
Corrected == [Row EXCEPT !.payload = 2]
Undated == [Row EXCEPT !.ann = "none"]
Restated == [Row EXCEPT !.f_ann = "after"]
RestatedAgain == [Restated EXCEPT !.payload = 2]
RestatedUntyped == [Restated EXCEPT !.meta = "untyped"]
RestatedBroken == [Restated EXCEPT !.meta = "broken"]
LateAudit == [Row EXCEPT !.ann = "after", !.meta = "untyped"]
Early == [Row EXCEPT !.ann = "before"]
Unborn == [Row EXCEPT !.end = "after"]
HalfDated == [Row EXCEPT !.ann = "none", !.f_ann = "after"]

Answering(i, a) == [p \in {income, audit, late} |-> IF p = income THEN i ELSE a]
SomeWorlds ==
    {Answering(i, a) :
        i \in {{<<Row, Undated, Restated>>},
               {<<Restated, RestatedUntyped>>},
               {<<Row, RestatedBroken>>},
               {<<Restated>>, <<RestatedAgain, RestatedUntyped>>, <<Row>>},
               {<< >>, <<Row, Corrected>>, <<Restated, RestatedAgain>>, <<Row, Row>>},
               {<<Row>>, <<Row, Early>>, <<Unborn>>, <<HalfDated>>, <<Row, Row, Row, Row>>}},
        a \in {{<< >>}, {<<Row, LateAudit>>}, {<<LateAudit>>, <<Restated>>}}}

-----------------------------------------------------------------------------
(* The events *)

CONSTANTS a, b, c

Part(source_, stock) == [source |-> source_, stock |-> stock]
ForecastFirst == <<Part("forecast", a), Part("share_float", a), Part("share_float", b), Part("share_float", c)>>
\* b is listed on the second of two days, c after them.
Listings == a :> 1 @@ b :> 2 @@ c :> 3

Event(stock, ann, id) == [stock |-> stock, ann |-> ann, late |-> FALSE, id |-> id]
A(id) == Event(a, 1, id)
A2 == Event(a, 2, 1)
B == Event(b, 2, 1)
Old == Event(a, 0, 1)
Typo == [A(1) EXCEPT !.late = TRUE]

\* What the provider answers: for the forecasts of a, by stock for the others,
\* and per day.
Provider(forecast, floatA, floatB, day1, day2, ignores) ==
    [answers |-> [p \in {ForecastFirst[i] : i \in 1..4} |->
        CASE p.source = "forecast" -> forecast [] p.stock = a -> floatA [] OTHER -> floatB],
     market |-> 1 :> day1 @@ 2 :> day2,
     ignoresOffset |-> ignores]

\* Three rows of a stock do not fit in an answer, three of a day in a page.
Three == {<<A(1), A(2), A(3)>>}
SomeEventWorlds ==
    {Provider({<<Typo>>}, {<<A(1), A(2)>>}, {<<A2>>}, Three, {<<A2, B>>}, FALSE),
     Provider({<<Typo>>, <<A(2)>>, << >>}, {<<Old>>}, {<<B>>}, {<< >>}, {<<B>>}, FALSE),
     Provider({<< >>}, {<<A(1), A(2)>>}, {<<B>>, <<B, A2>>}, Three \cup {<<A(1)>>}, {<<A2, B>>, <<B>>}, FALSE),
     Provider({<<A(1)>>}, {<<A(1)>>, <<A(1), A(2)>>}, {<<B, A2>>}, Three, {<<B, A2>>}, TRUE),
     Provider({<<A(1), A(2)>>, <<Old>>, <<B>>, << >>}, {<<A(1), A(2)>>}, {<< >>}, {<<A(1), A(2), A(3), A(4)>>, <<A2>>}, {<<A2>>}, FALSE)}

-----------------------------------------------------------------------------
(* The market: a warm-up day and two target days; a trades on all, b until    *)
(* the last, c on the last; the provider has a stock of another exchange too. *)

CONSTANT beijing

Listed(from, until) == [from |-> from, until |-> until]
Stay == a :> Listed(1, 9) @@ b :> Listed(1, 3) @@ c :> Listed(3, 9)

Is(stock, d) == [stock |-> stock, day |-> d, timing |-> "none"]
Halted(d, timing) == [stock |-> a, day |-> d, timing |-> timing]
Whole(p) ==
    CASE p.api = "suspend_d" -> << >>
      [] p.day = 3 -> <<Is(a, 3), Is(c, 3)>>
      [] OTHER -> <<Is(a, p.day), Is(b, p.day)>>
Interval(from, resume) == [stock |-> a, from |-> from, resume |-> resume]
AllGood == [t \in TableNames |-> {"good"}]

\* What is out of the ordinary; the intervals and earlier bars of a.
Exchange(odd, answers, legacy, earlier, ignores) ==
    [tables |-> answers,
     rows |-> [p \in DayParts |->
         IF <<p.api, p.day>> \in DOMAIN odd THEN odd[<<p.api, p.day>>] ELSE {Whole(p)}],
     legacy |-> a :> legacy @@ b :> {{}} @@ c :> {{}},
     earlier |-> a :> earlier @@ b :> {{}} @@ c :> {{}},
     ignoresOffset |-> ignores]

\* A suspension of a full day; one of a part of a day, with intervals that span
\* it and others; offsets ignored; tables that are refused, and a bar missing
\* in the warm-up; pages of different answers.
SomeMarkets ==
    {Exchange(<<"daily", 3>> :> {<<Is(c, 3)>>} @@ <<"suspend_d", 3>> :> {<<Halted(3, "full")>>}
                  @@ <<"daily", 2>> :> {<<Is(beijing, 2), Is(a, 2), Is(b, 2)>>},
              AllGood, {{}}, {{}}, FALSE),
     Exchange(<<"daily", 2>> :> {<<Is(b, 2)>>} @@ <<"suspend_d", 2>> :> {<<Halted(2, "part")>>},
              AllGood, {{Interval(2, 0)}, {Interval(1, 2)}, {}}, {{0, 1}, {2}, {}}, FALSE),
     Exchange(<<"daily", 2>> :> {<<Is(beijing, 2), Is(a, 2), Is(b, 2)>>}, AllGood, {{}}, {{}}, TRUE),
     Exchange(<<"daily", 1>> :> {<<Is(b, 1)>>},
              [AllGood EXCEPT !["trade_cal"] = {"good", "refused"}, !["stock_basic"] = {"good", "unusable"},
                              !["namechange"] = {"good", "unusable"}, !["index_global"] = {"good", "refused"}],
              {{}}, {{}}, FALSE),
     Exchange(<<"daily", 2>> :> {<<Is(beijing, 2), Is(a, 2), Is(b, 2)>>, <<Is(a, 2), Is(b, 2)>>, <<Is(beijing, 2), Is(b, 2), Is(a, 2)>>}
                  @@ <<"daily_basic", 3>> :> {<<Is(a, 3), Is(c, 3)>>, <<Is(a, 3)>>, << >>, <<Is(a, 2)>>},
              AllGood, {{Interval(2, 3)}}, {{1}}, FALSE)}

Leftovers == {Missing, {Interval(2, 0)}}

-----------------------------------------------------------------------------
(* The shadow observations: 24, 25 and 31 December 2026, of which the second  *)
(* is a Friday, and 4 and 8 January 2027, a Monday and a Friday.              *)

Years == [d \in 1..5 |-> IF d <= 3 THEN 1 ELSE 2]

-----------------------------------------------------------------------------
(* The replays: a market that allows everything, one 20% under its high with  *)
(* a neutral trend, one whose trend is negative, and one too volatile for a   *)
(* lock to be released.                                                       *)

Rising == [ratio |-> 10500, vol |-> 1500, indexDrawdown |-> -500]
Bottom == [ratio |-> 9800, vol |-> 2000, indexDrawdown |-> -2050]
Falling == [ratio |-> 9000, vol |-> 2000, indexDrawdown |-> -1200]
Nervous == [ratio |-> 10500, vol |-> 2700, indexDrawdown |-> -500]

SomeFeatures == {Rising, Bottom, Falling, Nervous}
SomeReturns == {-2000, 0, 500}
=============================================================================
