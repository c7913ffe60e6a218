------------------------ MODULE AdaptiveSpecialists ------------------------
(***************************************************************************)
(* The third candidate mode of champion-research: four specialists propose  *)
(* one instrument each, a fixed-share router and a controller choose among  *)
(* them, anew in every window, and nothing is trained.                      *)
(*                                                                          *)
(* A router's probabilities are powers of two, held as exponents below the  *)
(* best one; the share every name gets back keeps them above -MaxBehind.    *)
(* A return is a sum of moves, so wealth is a return and (1 + r)(1 + p) - 1 *)
(* is r + p.  Whole ledgers buy one instrument, weights, costs and ADV are  *)
(* left out.                                                                *)
(***************************************************************************)
EXTENDS ChampionResearch, Sequences

CONSTANTS
  Bucket,        \* _bucket_for: ticker -> specialist, or None
  Momentum,      \* (mom20, mom60) of each ticker, as one number
  MinScenarios,  \* min_terminal_scenarios
  RuinFloor,     \* ruin_floor
  Bound,         \* reward_bound
  MaxBehind

\* The command overrides the horizon only: it asks for 30 scenarios and takes a
\* loss of a quarter for ruin.
ASSUME AdaptiveAssumption ==
  /\ IsFiniteSet(Tickers) /\ IsFiniteSet(Thresholds)
  /\ Multiple \in [Tickers -> Int] /\ Momentum \in [Tickers -> Int]
  /\ MinScenarios \in Nat \ {0} /\ RuinFloor \in Int /\ RuinFloor <= 0
  /\ Bound \in Nat /\ MaxBehind \in Nat

ASSUME PanelAssumption ==
  \A w \in Worlds : /\ w.quoted \in [Sessions -> SUBSET Tickers]
                    /\ w.move \in [Sessions -> [Tickers -> Int]]

VARIABLE adaptive   \* the window being played, and what the run has counted

adaptiveVars == <<vars, adaptive>>

Order == <<"long_broad", "long_theme", "inverse", "defensive">>
Specialists == {Order[i] : i \in DOMAIN Order}
Alphabet == <<"CASH", "ROUTER", "defensive", "inverse", "long_broad", "long_theme">>
Place(name) == CHOOSE i \in DOMAIN Alphabet : Alphabet[i] = name

------------------------------------------------------------------------------
\* What each specialist proposes on a day: the eligible instrument of its
\* bucket with the best momentum.
Proposals(w, d) ==
  [name \in Specialists |->
     LET valid == {t \in DirectCandidates(w, d) : Bucket[t] = name}
     IN  IF valid = {} THEN None
         ELSE CHOOSE t \in valid : \A u \in valid : Momentum[u] <= Momentum[t]]

\* Before the first session nobody proposes anything.
ProposedBefore(proposed, d) ==
  IF d = 1 THEN [name \in Specialists |-> None] ELSE proposed[d - 1]

Moved(w, t, d)   == IF t \in w.quoted[d] THEN w.move[d][t] ELSE 0
Gain(w, t, days) == MapThenSumSet(LAMBDA d : Moved(w, t, d), days)

\* The completed continuations of a specialist, by their last session: bought
\* at the open after the proposal and held for Horizon sessions.
PathEnds(w, name) ==
  {e \in Horizon + 1 .. LastSession :
     LET t == Proposals(w, e - Horizon)[name]
     IN  t # None /\ t \in w.quoted[e - Horizon + 1] /\ t \in w.quoted[e]}

PathGain(w, name, e) == Gain(w, Proposals(w, e - Horizon)[name], e - Horizon + 1 .. e)

\* Mutant: every completed continuation is a scenario.
Overlapping(paths, now) == {e \in DOMAIN paths : e <= now}

\* The scenarios of a specialist: from the oldest on, each continuation that
\* starts after the last one taken has ended.
Disjoint(paths, now) ==
  LET taken[e \in Sessions] ==
        /\ e \in DOMAIN paths
        /\ \A x \in e - Horizon + 1 .. e - 1 : x \in DOMAIN paths => ~taken[x]
  IN  {e \in DOMAIN paths : e <= now /\ taken[e]}

------------------------------------------------------------------------------
\* FixedShareState.
Uniform == [name \in Specialists |-> 0]
Probability(router, name) == 2 ^ (MaxBehind + router[name])

Clipped(r) == IF r > Bound THEN Bound ELSE IF r < 0 - Bound THEN 0 - Bound ELSE r

Updated(router, rewards) ==
  LET term == [name \in Specialists |-> router[name] + Clipped(rewards[name])]
      peak == Max({term[name] : name \in Specialists})
  IN  [name \in Specialists |-> Larger(0 - MaxBehind, term[name] - peak)]

RouterChoice(router) ==
  CHOOSE name \in Specialists :
    /\ router[name] = 0
    /\ \A other \in Specialists : router[other] = 0 => Place(name) <= Place(other)

------------------------------------------------------------------------------
\* _terminal_actions: name, scenarios and gross, these as fractions
\* <<sum, mass>>.  The router's k-th scenario is the mean, by its probabilities,
\* of the k-th of those specialists that have so many.
OwnAction(name, paths, now, proposed, wealth) ==
  LET ends == Disjoint(paths, now)
  IN  [action |-> name,
       rows   |-> [k \in 1 .. Cardinality(ends) |->
                     <<wealth + paths[CHOOSE e \in ends : Rank(ends, e) = k], 1>>],
       gross  |-> <<IF proposed = None THEN 0 ELSE Larger(Multiple[proposed], 0 - Multiple[proposed]), 1>>]

OverAll(f) == f["long_broad"] + f["long_theme"] + f["inverse"] + f["defensive"]

RouterAction(router, own) ==
  LET longest == Max({Len(own[name].rows) : name \in Specialists})
      Mass(k) == [name \in Specialists |-> IF k <= Len(own[name].rows) THEN Probability(router, name) ELSE 0]
      Row(k)  == [name \in Specialists |->
                    IF k <= Len(own[name].rows) THEN Mass(k)[name] * own[name].rows[k][1] ELSE 0]
  IN  [action |-> "ROUTER",
       rows   |-> [k \in 1 .. longest |-> <<OverAll(Row(k)), OverAll(Mass(k))>>],
       gross  |-> <<OverAll([name \in Specialists |-> Probability(router, name) * own[name].gross[1]]),
                    OverAll([name \in Specialists |-> Probability(router, name)])>>]

CashAction(wealth) ==
  [action |-> "CASH", rows |-> [k \in 1 .. MinScenarios |-> <<wealth, 1>>], gross |-> <<0, 1>>]

Actions(plan, router, now, wealth) ==
  LET own == [name \in Specialists |->
                OwnAction(name, plan.paths[name], now, plan.proposed[now][name], wealth)]
  IN  {RouterAction(router, own), CashAction(wealth)} \cup {own[name] : name \in Specialists}

Below(rows, x) == Cardinality({k \in DOMAIN rows : rows[k][1] < x * rows[k][2]})
Exceeded(rows) ==
  Cardinality({p \in (DOMAIN rows) \X Thresholds : rows[p[1]][1] > p[2] * rows[p[1]][2]})

\* The levels a return exceeds; the highest of them is secured.
Secured(wealth) == {x \in Thresholds : wealth > x}

Admissible(a, wealth) ==
  LET n == Len(a.rows)
  IN  /\ n >= MinScenarios
      /\ 100 * Below(a.rows, RuinFloor) <= 5 * n
      /\ Secured(wealth) # {} =>
           100 * (n - Below(a.rows, Max(Secured(wealth)))) >= 95 * n

\* choose_championship_action: the most exceedances, then the least ruin, the
\* least gross, the first name.
Better(x, y) ==
  LET u == Exceeded(x.rows) * Len(y.rows)    v == Exceeded(y.rows) * Len(x.rows)
      p == Below(x.rows, RuinFloor) * Len(y.rows)
      q == Below(y.rows, RuinFloor) * Len(x.rows)
      g == x.gross[1] * y.gross[2]           h == y.gross[1] * x.gross[2]
  IN  \/ u > v
      \/ u = v /\ p < q
      \/ u = v /\ p = q /\ g < h
      \/ u = v /\ p = q /\ g = h /\ Place(x.action) <= Place(y.action)

Chosen(actions, wealth) ==
  LET fit == {a \in actions : Admissible(a, wealth)}
  IN  IF fit # {} THEN (CHOOSE a \in fit : \A other \in fit : Better(a, other)).action
      ELSE IF Secured(wealth) # {} THEN "CASH" ELSE "ROUTER"

------------------------------------------------------------------------------
\* A ledger holds one instrument or cash; its value counts a holding only at a
\* close that exists.
Cash == [held |-> None, return |-> 0]

Worth(w, ledger, d) ==
  IF d > 0 /\ ledger.held # None /\ ledger.held \notin w.quoted[d] THEN RuinFloor - 1
  ELSE ledger.return

Transition(w, ledger, want, d) ==
  LET held == Traded(w, ledger.held, [basis |-> "target", want |-> want], d)
  IN  [held |-> held, return |-> ledger.return + (IF held = None THEN 0 ELSE Moved(w, held, d))]

Opened(start) ==
  [start |-> start, day |-> start, router |-> Uniform, real |-> Cash,
   shadow |-> [name \in Specialists |-> Cash], traded |-> FALSE]

Idle == [plan |-> None, window |-> Opened(1), discordant |-> 0]

AdaptiveInit == Init /\ adaptive = Idle

\* Proposals and continuations of all sessions are computed once, before the
\* windows are played.
Survey ==
  /\ world.mode = "adaptive_specialists" /\ pc = "label" /\ adaptive.plan = None
  /\ adaptive' = [adaptive EXCEPT !.plan =
       [proposed |-> [d \in Sessions |-> Proposals(world, d)],
        paths    |-> [name \in Specialists |->
                        [e \in PathEnds(world, name) |-> PathGain(world, name, e)]]]]
  /\ UNCHANGED vars

\* One session: the router and the controller choose, the real ledger trades
\* what the chosen specialist proposed at the last close, every shadow ledger
\* its own proposal, and the router learns their returns.
Play ==
  /\ pc = "label" /\ adaptive.plan # None
  /\ adaptive.window.start \in Starts /\ adaptive.window.day < adaptive.window.start + Horizon
  /\ LET win      == adaptive.window
         d        == win.day
         wealth   == Worth(world, win.real, d - 1)
         choice   == Chosen(Actions(adaptive.plan, win.router, d, wealth), wealth)
         selected == IF choice = "ROUTER" THEN RouterChoice(win.router) ELSE choice
         before   == ProposedBefore(adaptive.plan.proposed, d)
         real     == Transition(world, win.real,
                                IF selected = "CASH" THEN None ELSE before[selected], d)
         shadow   == [name \in Specialists |->
                        Transition(world, win.shadow[name], before[name], d)]
     IN  adaptive' = [adaptive EXCEPT !.window =
           [win EXCEPT !.day = d + 1, !.real = real, !.shadow = shadow,
              !.router = Updated(win.router, [name \in Specialists |->
                                   shadow[name].return - win.shadow[name].return]),
              !.traded = win.traded \/ real.held # None]]
  /\ UNCHANGED vars

\* The last window done, or none to play, the verdict is RESEARCH_ONLY.
CloseWindow ==
  /\ pc = "label" /\ adaptive.plan # None
  /\ LET win == adaptive.window
         next == Opened(win.start + 1)
     IN  /\ win.start \in Starts => win.day = win.start + Horizon
         /\ adaptive' = [plan |-> adaptive.plan,
                         window |-> IF next.start \in Starts THEN next ELSE win,
                         discordant |-> adaptive.discordant + (IF win.traded THEN 1 ELSE 0)]
         /\ IF next.start \in Starts THEN UNCHANGED vars
            ELSE /\ evaluation' = [status |-> "RESEARCH_ONLY", discordant |-> adaptive'.discordant]
                 /\ pc' = "write"
                 /\ UNCHANGED <<world, labels, folds, scores, artifact>>

\* run_champion_walk_forward hands the third mode over; the command writes
\* whichever verdict comes back.
AdaptiveNext ==
  \/ Survey
  \/ Play
  \/ CloseWindow
  \/ /\ world.mode = "adaptive_specialists" => pc \in {"inputs", "write"}
     /\ Next
     /\ UNCHANGED adaptive

AdaptiveSpec == AdaptiveInit /\ [][AdaptiveNext]_adaptiveVars

------------------------------------------------------------------------------
\* Some MinScenarios spans of Horizon sessions, no two overlapping and none running
\* past the session, each the continuation of a proposal somebody had made.
Evidence(w, day) ==
  \E E \in SUBSET {e \in 1 .. day : \E name \in Specialists : e \in PathEnds(w, name)} :
    /\ Cardinality(E) >= MinScenarios
    /\ \A x, y \in E : x < y => x <= y - Horizon

\* The real ledger leaves cash only on evidence that was counted once.
EvidenceCountedOnce ==
  [][LET win == adaptive.window
     IN  win.real.held = None /\ adaptive'.window.start = win.start
           /\ adaptive'.window.real.held # None => Evidence(world, win.day)]_adaptiveVars
==============================================================================
