-------------------------- MODULE ContestSimulation --------------------------
(***************************************************************************)
(* One simulated world of the weekly decision: the realized sessions of the  *)
(* contest first, then drawn ones to its end, with a crowd of agents and one *)
(* path for each candidate of ours.  At the close of the last realized       *)
(* session the crowd is pinned to the archived ranking, and in the end every *)
(* path of ours is scaled to our equity and ranked among the crowd.          *)
(*                                                                          *)
(* Equities are kept as logarithms, in units of one price step, so that they *)
(* add where the code multiplies; all weights are 1.                         *)
(***************************************************************************)
EXTENDS Integers, Sequences, FiniteSets

CONSTANTS
  Vehicles,     \* columns of the panel
  Longs,        \* those that the divisions without leverage may hold
  Gaps,         \* logarithms of the overnight legs
  IntradayMoves, \* and of those from open to close
  Profiles,     \* kinds of agents: [kind, auto, entry, home]
  Crowd,        \* number of agents drawn from them
  Realized,     \* sessions of the contest that are over
  Horizon,      \* all of its sessions
  Values,       \* equities on the ranking
  Listed        \* entries of others on the ranking

Cash == "cash"

ASSUME SimulationAssumption ==
  /\ Cash \notin Vehicles /\ Vehicles # {} /\ Longs \subseteq Vehicles /\ Longs # {}
  /\ Gaps \subseteq Int /\ IntradayMoves \subseteq Int /\ Values \subseteq Int /\ Values # {}
  /\ Profiles \subseteq [kind : {"hold", "momentum", "contrarian", "random"}, auto : BOOLEAN,
                         entry : Nat, home : Vehicles]
  /\ Crowd \in Nat /\ Realized \in Nat \ {0} /\ Horizon \in Nat /\ Realized <= Horizon
  /\ Listed \in Nat \ {0}

VARIABLES
  rivals,       \* the ranking without us: [value, vehicle or Cash if it is not known]
  ourEquity,    \* our own, by the ranking or by estimate
  current,      \* the holding the realized sessions are attributed to, or Cash
  crowd,        \* the agents
  played,       \* sessions simulated
  held, equity, \* of every agent
  mine, path,   \* holding and equity on our path, for each candidate
  last,         \* each vehicle's return in the last session
  base,         \* our path over the realized sessions by _compound_legs
  firstGap      \* the gap leg of that holding in the first session

input          == <<rivals, ourEquity, current>>
simulationVars == <<input, crowd, played, held, equity, mine, path, last, base, firstGap>>

-----------------------------------------------------------------------------
(* The ranking: build_explicit_leaders, append_explicit_leaders *)

\* Those whose holding is known, from the best rank down.
Known    == {i \in DOMAIN rivals : rivals[i].vehicle # Cash}
Nth(S, k) == CHOOSE i \in S : Cardinality({j \in S : j <= i}) = k
Holders  == [k \in 1 .. Cardinality(Known) |-> rivals[Nth(Known, k)]]
Floor   == rivals[Len(rivals)].value
Ceiling == rivals[1].value

\* One agent more for every rival whose holding is known, following momentum.
Explicit  == Crowd + 1 .. Crowd + Len(Holders)
Agents    == 1 .. Crowd + Len(Holders)
Leader(a) == Holders[a - Crowd]
Profile(a) ==
  IF a \in Explicit THEN [kind |-> "momentum", auto |-> TRUE, entry |-> 0, home |-> Leader(a).vehicle]
  ELSE crowd[a]

\* The rest of the crowd is drawn, in any mix of kinds, divisions and days of
\* entry; a holder's vehicle is one that its division allows.
CandidateSet(p) == IF p.auto THEN Vehicles ELSE Longs
DrawnCrowds ==
  {c \in [1 .. Crowd -> Profiles] :
     \A a \in 1 .. Crowd : c[a].kind = "hold" => c[a].home \in CandidateSet(c[a])}

-----------------------------------------------------------------------------
(* A session: simulate_contest *)

\* The legs of a session, overnight and from open to close, of all vehicles
\* jointly.  The drawn worlds see the realized sessions as any other.
DrawnSessions == [gap : [Vehicles -> Gaps], intraday : [Vehicles -> IntradayMoves]]
ReturnOf(row, v) == row.gap[v] + row.intraday[v]

\* What agents choose sees returns up to the session before only.
Picks(p) ==
  LET cand == CandidateSet(p) IN
  CASE p.kind = "hold"       -> {p.home}
    [] p.kind = "momentum"   -> {v \in cand : \A u \in cand : last[u] <= last[v]}
    [] p.kind = "contrarian" -> {v \in cand : \A u \in cand : last[v] <= last[u]}
    [] OTHER                 -> cand

\* An agent in cash enters on its day; later it may keep what it holds.
NextHeld(a) ==
  LET p == Profile(a) IN
  IF played < p.entry THEN {held[a]}
  ELSE IF held[a] = Cash \/ p.kind = "hold" THEN Picks(p) ELSE Picks(p) \union {held[a]}

Leg(move, v) == IF v = Cash THEN 0 ELSE move[v]

\* The old holding earns the gap, the new one the move from open to close.
Earned(gap, intraday, old, new) == Leg(gap, old) + Leg(intraday, new)

\* Every candidate is the realized holding until the switch.
BadNextMine(c) == IF played < Realized - 1 THEN current ELSE c

NextMine(c) == IF played < Realized THEN current ELSE c

-----------------------------------------------------------------------------
(* Pinning: pin_to_leaderboard *)

\* Without the first x, if there is one.
Without(seq, x) ==
  LET first == CHOOSE i \in DOMAIN seq : seq[i] = x /\ \A j \in DOMAIN seq : seq[j] = x => i <= j
  IN  IF \A i \in DOMAIN seq : seq[i] # x THEN seq
      ELSE [j \in 1 .. Len(seq) - 1 |-> seq[IF j < first THEN j ELSE j + 1]]

\* Mutant: what the known holders have is not taken out.
BadRemaining(values, holders) == values

\* The equities of the ranking that no known holder has.
Remaining(values, holders) ==
  LET left[n \in 0 .. Len(holders)] ==
        IF n = 0 THEN values ELSE Without(left[n - 1], holders[n].value)
  IN  left[Len(holders)]

\* The agents of the crowd from the best down; ties are in the order of numpy's sort.
Sorted(eq, order) ==
  /\ \A i, j \in DOMAIN order : i # j => order[i] # order[j]
  /\ \A i, j \in DOMAIN order : i < j => eq[order[i]] >= eq[order[j]]

AtMost(x, bound) == IF x < bound THEN x ELSE bound

Pinned(eq, order) ==
  LET remaining == Remaining([i \in DOMAIN rivals |-> rivals[i].value], Holders)
      Place(a) == CHOOSE i \in DOMAIN order : order[i] = a IN
  [a \in Agents |->
     AtMost(IF a \in Explicit THEN Leader(a).value
            ELSE IF Place(a) <= Len(remaining) THEN remaining[Place(a)]
            ELSE AtMost(eq[a], Floor), Ceiling)]

-----------------------------------------------------------------------------
Orders == {order \in [1 .. Crowd -> 1 .. Crowd] : \A i, j \in 1 .. Crowd : i # j => order[i] # order[j]}

\* _compound_legs: both legs of one holding, over the realized sessions.
Compounded(row) ==
  IF played < Realized THEN base + Leg(row.gap, current) + Leg(row.intraday, current) ELSE base

Session(row, new) ==
  LET earned(old, now) == Earned(row.gap, row.intraday, old, now)
      eq == [a \in Agents |-> equity[a] + earned(held[a], new[a])] IN
  /\ played' = played + 1
  /\ IF played = Realized - 1
       THEN /\ \E order \in Orders : Sorted([a \in 1 .. Crowd |-> AtMost(eq[a], Ceiling)], order)
                                     /\ equity' = Pinned(eq, order)
            /\ held' = [a \in Agents |-> IF a \in Explicit THEN Leader(a).vehicle ELSE new[a]]
       ELSE equity' = eq /\ held' = new
  /\ mine' = [c \in Vehicles |-> NextMine(c)]
  /\ path' = [c \in Vehicles |-> path[c] + earned(mine[c], NextMine(c))]
  /\ last' = [v \in Vehicles |-> ReturnOf(row, v)]
  /\ base' = Compounded(row)
  /\ firstGap' = IF played = 0 THEN Leg(row.gap, current) ELSE firstGap
  /\ UNCHANGED <<input, crowd>>

Rankings == {r \in [1 .. Listed -> [value : Values, vehicle : Vehicles \union {Cash}]] :
               \A i \in 1 .. Listed - 1 : r[i].value >= r[i + 1].value}

\* Everybody starts in cash with the same equity, and so do our paths.
StartOfSimulation ==
  /\ played = 0 /\ held = [a \in Agents |-> Cash] /\ equity = [a \in Agents |-> 0]
  /\ mine = [c \in Vehicles |-> Cash] /\ path = [c \in Vehicles |-> 0]
  /\ last = [v \in Vehicles |-> 0] /\ base = 0 /\ firstGap = 0

SimulationInit ==
  /\ rivals \in Rankings /\ ourEquity \in Values
  /\ current \in Vehicles \union {Cash}
  /\ crowd \in DrawnCrowds
  /\ StartOfSimulation

SimulationNext ==
  /\ played < Horizon
  /\ \E new \in {h \in [Agents -> Vehicles \union {Cash}] : \A a \in Agents : h[a] \in NextHeld(a)},
        row \in DrawnSessions : Session(row, new)

SimulationSpec == SimulationInit /\ [][SimulationNext]_simulationVars

-----------------------------------------------------------------------------
(* Properties *)

\* Our equity on candidate c's path as decide_week ranks it.
Ours(c) == path[c] - base + ourEquity

Better(c)    == Cardinality({a \in Agents : equity[a] > Ours(c)})
AheadOfUs    == Cardinality({i \in DOMAIN rivals : rivals[i].value > ourEquity})
CrowdSuffices == Crowd >= Len(rivals) - Len(Holders)

\* Pinning reproduces the ranking: each of its equities is that of exactly as many
\* agents, every known holder has his own equity and vehicle, and nobody else is
\* above the last listed one.
FieldIsRanking ==
  played = Realized /\ CrowdSuffices =>
    /\ \A x \in Values : x > Floor =>
         Cardinality({a \in Agents : equity[a] = x}) = Cardinality({i \in DOMAIN rivals : rivals[i].value = x})
    /\ \A a \in Explicit : equity[a] = Leader(a).value /\ held[a] = Leader(a).vehicle
    /\ \A a \in Agents : equity[a] \in {rivals[i].value : i \in DOMAIN rivals} \/ equity[a] < Floor

\* On the day of the decision each path of ours has the rank that we have on the
\* ranking, so that candidates differ by what follows only.  This takes that we are
\* not below the last listed rival, and that the holding had no gap in the first
\* session: the path starts in cash and never earned it, the base of the scaling did.
StandingReproduced ==
  played = Realized /\ CrowdSuffices /\ ourEquity >= Floor /\ firstGap = 0 =>
    \A c \in Vehicles : Better(c) = AheadOfUs /\ Ours(c) = ourEquity

=============================================================================
