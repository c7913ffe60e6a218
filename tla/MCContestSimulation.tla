------------------------- MODULE MCContestSimulation -------------------------
(* Agents for TLC: three behaviours (the leaders of the ranking have the fourth),  *)
(* some enter late, one may not use leverage.                                 *)
EXTENDS ContestSimulation

AgentProfiles ==
  {[kind |-> "hold", auto |-> TRUE, entry |-> 0, home |-> "up2"],
   [kind |-> "contrarian", auto |-> FALSE, entry |-> 1, home |-> "up2"],
   [kind |-> "random", auto |-> TRUE, entry |-> 1, home |-> "up2"]}

=============================================================================
