------------------------ MODULE MCPointInTimeUniverse ------------------------
(* The instance TLC checks: two funds, four sessions, few files for each.    *)
EXTENDS PointInTimeUniverse, TLC

CONSTANTS a, b
MCFunds == {a, b}
MCSponsors == {"sponsor"}

\* What decides and backtests use, the same without inverse and doubled funds on
\* a list of one fund, the research's, and the structural universe.
Deployed == ForMode("deployment", Anyone, Anyone, 50)
MCFilters ==
  {[Deployed EXCEPT !.inverse = FALSE], ResearchFilters(Deployed),
   [ForMode("deployment", {"sponsor", "other"}, {b}, 100) EXCEPT !.leverage = FALSE],
   ForMode("structural", Anyone, Anyone, 50)}

Row(name, premium, value) ==
  [name |-> name, priced |-> TRUE, premium |-> premium, value |-> value, ordered |-> TRUE, whole |-> TRUE,
   twice |-> FALSE]
Unpriced == [Row("plain", 0, 0) EXCEPT !.priced = FALSE]

MCFiles(d) ==
  CASE d = 1 -> {(a :> Row("plain", 0, 1)) @@ (b :> Row("plain", 4, 2)), a :> Row("plain", 0, 2)}
    [] d = 2 -> {(a :> Row("plain", 1, 3)) @@ (b :> Row("doubled", 0, 3)),
                 (a :> Row("plain", 1, 0)) @@ (b :> Row("plain", 1, 1)),
                 (a :> Unpriced) @@ (b :> Unpriced)}
    [] d = 3 -> {(a :> Row("unmapped", 0, 3)) @@ (b :> Row("contradictory", 0, 2)),
                 a :> [Row("plain", 1, 2) EXCEPT !.ordered = FALSE],
                 (a :> Row("plain", 1, 2)) @@ (b :> [Row("plain", 0, 2) EXCEPT !.whole = FALSE]),
                 (a :> Row("plain", 1, 2)) @@ (b :> [Row("plain", 0, 2) EXCEPT !.twice = TRUE])}
    [] d = 4 -> {(a :> Row("doubled", 0, 2)) @@ (b :> Row("plain", 0, 2)), b :> Row("doubled", 30, 2),
                 (a :> Row("inverse", 0, 3)) @@ (b :> Row("plain", 1, 3))}
==============================================================================
