--------------------------- MODULE MCContestEvening ---------------------------
(* The segment block of configs/contest.yaml with two voting vehicles. *)
EXTENDS ContestEvening

MCSegment ==
  [long |-> "HY2", longAlias |-> "HY2", inverse |-> "HY2I", inverseAlias |-> "HY2I",
   vote |-> [HY2 |-> "HY2", SEMI2 |-> "SEMI2"], voteMinDown |-> 2,
   openWindow |-> [start |-> 9 * 60 + 5, end |-> 9 * 60 + 15],
   closeWindow |-> [start |-> 15 * 60 + 10, end |-> 15 * 60 + 19],
   costBps |-> 12, prizeRank |-> 3, endgameSessions |-> 5]

\* A split vote and a unanimous one: with two votes needed, short and long.
MCMoves == {{"SEMI2"}, {"HY2", "SEMI2"}}

=============================================================================
