------------------------ MODULE MCLayerTwoTranches ------------------------
(***************************************************************************)
(* Instances of LayerTwoTranches for TLC.                                  *)
(***************************************************************************)
EXTENDS LayerTwoTranches, TLC

CONSTANTS a, b, c, d

Stocks == {a, b, c, d}
SomeRankings == {<<a, b, c, d>>, <<d, b, c>>, <<b, c, a>>}
Caps == 0 :> 0 @@ 3 :> 3 @@ 6 :> 6 @@ 9 :> 9

Price(n) == [status |-> "tradable", open |-> n, low |-> n - 100, high |-> n + 100]
Up(n) == [Price(n) EXCEPT !.high = n]
Down(n) == [Price(n) EXCEPT !.low = n]
Suspended == [status |-> "known_full_day_suspension", open |-> 0, low |-> 0, high |-> 0]
Unknown == [Suspended EXCEPT !.status = "unknown"]

\* A lot bought at 4000 and sold at 4018 brings exactly its cost back.
Market(odd) ==
    [s \in Stocks |-> [t \in 1..LastDay |->
        IF <<s, t>> \in DOMAIN odd THEN odd[<<s, t>>]
        ELSE IF s = a THEN Price(IF t < 8 THEN 4000 ELSE 4018) ELSE Price(2000 + 10 * t)]]

World(odd, factors, moved) ==
    [market |-> Market(odd),
     factor |-> factors,
     cluster |-> [s \in Stocks |-> [t \in 1..LastDay |->
         IF s = d \/ (s = b /\ t > moved) THEN "y" ELSE "x"]]]

Whole == a :> 1000 @@ b :> 500 @@ c :> 500 @@ d :> 1000
Halves == a :> 500 @@ b :> 500 @@ c :> 0 @@ d :> 250

SomeWorlds ==
    {World(<<a, 8>> :> Suspended @@ <<a, 9>> :> Suspended @@ <<d, 8>> :> Down(2100) @@ <<d, 10>> :> Suspended, Whole, LastDay),
     World(<<a, 2>> :> Up(4000) @@ <<d, 8>> :> Unknown, Halves, LastDay),
     World(<<b, 8>> :> Down(2100) @@ <<b, 9>> :> Unknown @@ <<a, 4>> :> Unknown, Halves, 4),
     World(<<c, 10>> :> Unknown @@ <<b, 8>> :> Down(2080) @@ <<d, 8>> :> Suspended, Whole, 7)}
=============================================================================
