-------------------------- MODULE StickyHoldProofs --------------------------
(***************************************************************************)
(* For any number of tickers, sessions and scores, any lock, gap, horizon   *)
(* and stop: the types; that the lock on a fresh holding really covers      *)
(* MinHold closes; that `decide` agrees with the backtest until its         *)
(* one-session lead in counting matters; that the runner exit and the stop  *)
(* of INACTIVE participation act on what really happened.                   *)
(***************************************************************************)
EXTENDS StickyHold, WellFoundedInduction, TLAPS

\* The model's tracker counts the scored sessions of what is really held; a
\* holding it has not seen yet has none.
TrackerInSync ==
  portfolio # Cash =>
    IF model.held = portfolio THEN model.len = story.streak.age ELSE story.streak.age = 0

\* Only a session that brought the tracker up to date can want a ticker.
WantsOnlyWhenTracked == phase = "execute" /\ wanted # Cash => model.held = portfolio

\* The ledger names what the backtest wants, but counts the deciding session
\* too: it is one ahead of the tracker.
LedgerLeads ==
  strategy \in Live /\ "parted" \notin story.seen =>
    /\ ledger.held = wanted /\ ledger.asOf = session
    /\ phase = "decide" =>
         /\ portfolio = wanted
         /\ portfolio # Cash => ledger.len = story.streak.age + 1
    /\ phase = "execute" /\ wanted # Cash =>
         ledger.len = IF wanted = portfolio THEN story.streak.age + 1 ELSE 1

Counts == model.len \in Nat /\ story.streak.age \in Nat

IInv == strategy \in Strategies /\ Counts /\ TrackerInSync /\ WantsOnlyWhenTracked /\ MinHoldKept /\ LedgerLeads

\* The facts about the constants that the steps use.
LEMMA Constants == Cash \notin Tickers /\ MinHold \in Nat /\ MinGap \in Nat
BY ConfigAssumption, MarketAssumption DEF Cash, Tickers

LEMMA InitInv == Init => IInv
BY DEF Init, IInv, Counts, TrackerInSync, WantsOnlyWhenTracked, MinHoldKept, LedgerLeads, Fresh, Cash

\* Numbers have a least one.
LEMMA LeastNatural ==
  ASSUME NEW T \in SUBSET Nat, T # {}
  PROVE  \E n \in T : \A m \in T : n <= m
<1> DEFINE Less == {p \in Nat \X Nat : p[1] < p[2]}
<1>1. IsWellFoundedOn(Less, Nat)
  BY NatLessThanWellFounded, Zenon DEF OpToRel
<1> HIDE DEF Less
<1>2. PICK n \in T : \A m \in T : ~ (<<m, n>> \in Less)
  BY <1>1, WFMin, Zenon
<1>3. ASSUME NEW m \in T PROVE n <= m
  <2>1. ~ (<<m, n>> \in Less) BY <1>2
  <2>2. QED BY <2>1 DEF Less
<1>4. QED BY <1>3

\* Among candidates with bounded scores there is a leader: the best score, then the
\* first ticker.
LEMMA BoundedLeader ==
  ASSUME NEW D \in SUBSET Tickers, NEW v \in [D -> Int], D # {},
         NEW top \in Int, \A t \in D : v[t] <= top
  PROVE  IsLeader(v, Leader(v)) /\ Leader(v) \in D
<1>1. NTickers \in Nat BY MarketAssumption
<1> DEFINE Behind == {n \in Nat : \E t \in D : n = top - v[t]}
<1>2. \A t \in D : top - v[t] \in Nat OBVIOUS
<1>3. Behind # {} BY <1>2
<1>4. PICK n \in Behind : \A m \in Behind : n <= m
  <2> HIDE DEF Behind
  <2>1. Behind \subseteq Nat BY DEF Behind
  <2>2. QED BY <1>3, <2>1, LeastNatural
<1> DEFINE Best == {t \in D : top - v[t] = n}
<1>5. Best \subseteq Nat /\ Best # {}
  <2>1. D \subseteq Nat BY <1>1 DEF Tickers
  <2>2. PICK t \in D : n = top - v[t] BY <1>4
  <2>3. QED BY <2>1, <2>2
<1>6. PICK t \in Best : \A u \in Best : t <= u
  <2> HIDE DEF Best
  <2>1. QED BY <1>5, LeastNatural
<1>7. ASSUME NEW u \in D PROVE v[u] < v[t] \/ (v[u] = v[t] /\ t <= u)
  <2>1. n <= top - v[u] BY <1>2, <1>4
  <2>2. QED BY <1>6, <2>1
<1>8. IsLeader(v, t) BY <1>7 DEF IsLeader
<1>9. IsLeader(v, Leader(v)) BY <1>8, Zenon DEF Leader
<1>10. QED BY <1>9 DEF IsLeader

LEMMA LeaderExists ==
  ASSUME NEW v \in Views(Scores), DOMAIN v # {}
  PROVE  IsLeader(v, Leader(v)) /\ Leader(v) \in DOMAIN v /\ v[Leader(v)] \in Int
<1>1. PICK D \in SUBSET Tickers : v \in [D -> Scores] BY DEF Views, Partial
<1>2. TopScore \in Int /\ D = DOMAIN v /\ v \in [D -> Int] /\ \A t \in D : v[t] <= TopScore
  BY <1>1, MarketAssumption DEF Scores
<1>3. IsLeader(v, Leader(v)) /\ Leader(v) \in D BY <1>2, BoundedLeader
<1>4. QED BY <1>2, <1>3

\* Filtering scores leaves scores.
LEMMA WithinScores ==
  ASSUME NEW v \in Views(Scores), NEW S
  PROVE  Within(v, S) \in Views(Scores)
<1>1. PICK D \in SUBSET Tickers : v \in [D -> Scores] BY DEF Views, Partial
<1>2. D \intersect S \in SUBSET Tickers /\ Within(v, S) \in [D \intersect S -> Scores]
  BY <1>1 DEF Within
<1>3. QED BY <1>2, Zenon DEF Views, Partial

\* Whatever the market and the sleeve, the route is left with scores.
LEMMA SeenScores ==
  ASSUME NEW s \in Strategies, NEW view \in View[s]
  PROVE  view.scores \in Views(Scores)
<1>1. PICK sleeve \in Sleeves, market \in Market, family \in Families, weak \in BOOLEAN,
           others \in SUBSET Tickers :
        view = Seen(s, sleeve, market, family, weak, others)
  BY DEF View
<1>2. ScoreOf(market) \in Views(Scores)
  <2>1. PICK D \in SUBSET Tickers : market \in [D -> Row] BY DEF Market, Partial
  <2>2. ScoreOf(market) \in [D -> Scores] BY <2>1 DEF ScoreOf, Row
  <2>3. QED BY <2>2, Zenon DEF Views, Partial
<1>3. Plus2Scores(s, market) \in Views(Scores) BY <1>2, WithinScores DEF Plus2Scores
<1>4. Momentum(s, market, family) \in Views(Scores)
  BY <1>3, WithinScores DEF Momentum, Fillable, Collapsed
<1>5. Rebound(s, market) \in Views(Scores) BY <1>2, WithinScores DEF Rebound, Fillable
<1>6. Participating(market) \in Views(Scores) BY <1>2, WithinScores DEF Participating
<1>7. Standing(market) \in Views(Scores) BY <1>2, WithinScores DEF Standing
<1>8. RouteScores(s, sleeve, market, family) \in Views(Scores)
  BY <1>2, <1>4, <1>5, <1>6, <1>7, WithinScores DEF RouteScores
<1>9. QED BY <1>1, <1>8 DEF Seen

\* One update of the tracker keeps it in sync with one more scored session.
LEMMA TrackedInSync ==
  ASSUME Counts, TrackerInSync
  PROVE  /\ Tracked(model, portfolio).held = portfolio
         /\ Tracked(model, portfolio).len \in Nat /\ Longer(story.streak).age \in Nat
         /\ portfolio # Cash => Tracked(model, portfolio).len = Longer(story.streak).age
         /\ portfolio # Cash => Longer(story.streak).age = story.streak.age + 1
BY DEF Counts, TrackerInSync, Tracked, Longer, Fresh

\* A locked ticker is kept, whatever the challenger.
LEMMA LockKeeps ==
  ASSUME NEW view, NEW len \in Nat, NEW stopped,
         Route(view.sleeve, portfolio) = "MOM60", portfolio \in DOMAIN view.scores,
         ~ view.scores[Leader(view.scores)] < 0, len < MinHold,
         strategy \in Surging => Rivals(view, portfolio) = {} /\ portfolio \notin view.fallen
  PROVE  Routed(view, portfolio, len, stopped) = portfolio
<1>1. Stays(view.scores, portfolio, len) BY DEF Stays
<1>2. Sticky(view.scores, portfolio, len) = portfolio BY <1>1 DEF Sticky
<1>3. Mom60(view.scores, portfolio, len) = portfolio BY <1>1 DEF Mom60
<1>4. strategy \in Surging => Overlaid(view, portfolio, len) = portfolio
  BY <1>2 DEF Overlaid
<1>5. QED BY <1>2, <1>3, <1>4 DEF Routed, Surging

\* The last close that the lock covers, with a challenger beyond the gap.
Contested(view, held, len) ==
  /\ Route(view.sleeve, held) = "MOM60" /\ held \in DOMAIN view.scores
  /\ ~ view.scores[Leader(view.scores)] < 0
  /\ len = MinHold - 1 /\ ~ InGap(view.scores, held)

\* One session more in the count changes the choice of a contested session only.
LEMMA LeadIsHarmless ==
  ASSUME NEW view, view.scores \in Views(Scores), NEW len \in Nat, NEW held, NEW stopped,
         ~ Contested(view, held, len),
         strategy \in Live
  PROVE  Routed(view, held, len, stopped) = Routed(view, held, len + 1, FALSE)
<1>1. Route(view.sleeve, held) \in {"MOM60", "ANCHOR", "REBOUND", "CASH"}
  BY DEF Route, Live
<1>2. CASE Route(view.sleeve, held) # "MOM60"
  BY <1>1, <1>2 DEF Routed
<1>3. CASE Route(view.sleeve, held) = "MOM60"
  <2>1. DOMAIN view.scores = {} \/ view.scores[Leader(view.scores)] \in Int
    BY LeaderExists
  <2>2. Mom60(view.scores, held, len) = Mom60(view.scores, held, len + 1)
    BY <1>3, <2>1, Constants DEF Mom60, Stays, Contested
  <2>3. QED BY <1>3, <2>2 DEF Routed, Live, Surging
<1>4. QED BY <1>2, <1>3

\* With nothing held there is nothing to lock, and the count is not read.
LEMMA NothingToLock ==
  ASSUME NEW view, view.scores \in Views(Scores), NEW m, NEW n, NEW stopped, strategy \in Live
  PROVE  Routed(view, Cash, m, stopped) = Routed(view, Cash, n, FALSE)
<1>1. Cash \notin DOMAIN view.scores BY Constants DEF Views, Partial
<1>2. Mom60(view.scores, Cash, m) = Mom60(view.scores, Cash, n)
  BY <1>1 DEF Mom60, Stays
<1>3. Route(view.sleeve, Cash) # "PARTICIPATE" BY DEF Route, Live
<1>4. QED BY <1>2, <1>3 DEF Routed, Live, Surging

-----------------------------------------------------------------------------
(* One session *)

LEMMA ThinKeeps ==
  ASSUME IInv, NEW view, DecideThin(view)
  PROVE  IInv'
<1>1. story' = [story EXCEPT !.rule = "THIN"] /\ UNCHANGED <<strategy, portfolio, model>>
      /\ wanted' = Cash /\ phase' = "execute" /\ Persist(view, Cash, Cash) /\ session' = session + 1
  BY DEF DecideThin
<1>2. story'.streak = story.streak /\ story'.seen = story.seen /\ story'.rule # "KEEP"
  BY <1>1
<1>3. QED BY <1>1, <1>2
         DEF IInv, Counts, TrackerInSync, WantsOnlyWhenTracked, MinHoldKept, LedgerLeads,
             Persist, NextHoldLen, Named

\* What DecideScored leaves behind, with its local names made visible.
LEMMA ScoredFacts ==
  ASSUME NEW view, NEW new, DecideScored(view, new)
  PROVE  \E exits, stopped :
           /\ phase' = "execute" /\ UNCHANGED <<strategy, portfolio>>
           /\ model' = Tracked(model, portfolio)
           /\ exits => strategy = "runner_reversal"
           /\ wanted' = IF exits THEN Cash
                        ELSE Ordered(view, Routed(view, portfolio, Tracked(model, portfolio).len,
                                                  stopped))
           /\ Persist(view, LiveChoice(view), new) /\ session' = session + 1
           /\ story' = Told(view, Tracked(model, portfolio), Rule(view, exits), new)
BY Zenon DEF DecideScored

LEMMA RuleKeep ==
  ASSUME NEW view, NEW exits
  PROVE  Rule(view, exits) = "KEEP" <=>
           /\ ~ exits /\ Route(view.sleeve, portfolio) = "MOM60"
           /\ portfolio \in DOMAIN view.scores /\ view.scores[Leader(view.scores)] >= 0
           /\ strategy \in Surging =>
                Rivals(view, portfolio) = {} /\ portfolio \notin view.fallen
           /\ Ordered(view, portfolio) = portfolio
BY DEF Rule, Route

\* A candidate is a ticker, and then the leader's score is a number.
LEMMA CandidateFacts ==
  ASSUME NEW view, view.scores \in Views(Scores), NEW t \in DOMAIN view.scores
  PROVE  t # Cash /\ view.scores[Leader(view.scores)] \in Int
<1>1. DOMAIN view.scores # {} OBVIOUS
<1>2. t \in Tickers BY DEF Views, Partial
<1>3. QED BY <1>1, <1>2, LeaderExists, Constants

LEMMA ScoredKeeps ==
  ASSUME IInv, NEW view, NEW new, view.scores \in Views(Scores), DecideScored(view, new)
  PROVE  IInv'
<1> DEFINE m == Tracked(model, portfolio)
<1>1. PICK exits, stopped :
           /\ phase' = "execute" /\ UNCHANGED <<strategy, portfolio>>
           /\ model' = m
           /\ exits => strategy = "runner_reversal"
           /\ wanted' = IF exits THEN Cash ELSE Ordered(view, Routed(view, portfolio, m.len, stopped))
           /\ Persist(view, LiveChoice(view), new) /\ session' = session + 1
           /\ story' = Told(view, m, Rule(view, exits), new)
  BY ScoredFacts
<1>2. /\ m.held = portfolio /\ m.len \in Nat
      /\ Longer(story.streak).age \in Nat
      /\ portfolio # Cash => /\ m.len = Longer(story.streak).age
                             /\ m.len = story.streak.age + 1
  BY TrackedInSync DEF IInv
<1> HIDE DEF m
<1>3. /\ story'.streak = Longer(story.streak) /\ story'.rule = Rule(view, exits)
      /\ story.seen \subseteq story'.seen
      /\ /\ Rule(view, exits) = "KEEP" /\ m.len = MinHold - 1
         /\ ~ InGap(view.scores, portfolio)
         => "parted" \in story'.seen
      /\ new # LiveChoice(view) => "parted" \in story'.seen
      /\ ~ Named(view, LiveChoice(view)) => "parted" \in story'.seen
  BY <1>1 DEF Told
<1>4. Counts' BY <1>1, <1>2, <1>3 DEF Counts
<1>5. TrackerInSync' BY <1>1, <1>2, <1>3 DEF TrackerInSync
<1>6. WantsOnlyWhenTracked' BY <1>1, <1>2 DEF WantsOnlyWhenTracked
<1>7. MinHoldKept'
  <2> SUFFICES ASSUME Rule(view, exits) = "KEEP", ~ m.len >= MinHold, portfolio # Cash
               PROVE  wanted' = portfolio
    <3>1. Rule(view, exits) = "KEEP" => portfolio # Cash BY RuleKeep, CandidateFacts
    <3>2. QED BY <1>1, <1>2, <1>3, <3>1 DEF MinHoldKept
  <2>1. /\ ~ exits /\ Route(view.sleeve, portfolio) = "MOM60" /\ portfolio \in DOMAIN view.scores
        /\ ~ view.scores[Leader(view.scores)] < 0
        /\ strategy \in Surging => Rivals(view, portfolio) = {} /\ portfolio \notin view.fallen
        /\ Ordered(view, portfolio) = portfolio
    BY RuleKeep, CandidateFacts
  <2>2. m.len < MinHold BY <1>2, Constants
  <2>3. Routed(view, portfolio, m.len, stopped) = portfolio
    BY <1>2, <2>1, <2>2, LockKeeps, Zenon
  <2>4. QED BY <1>1, <2>1, <2>3
<1>8. LedgerLeads'
  <2> SUFFICES ASSUME strategy \in Live, "parted" \notin story'.seen
               PROVE  /\ ledger'.held = wanted' /\ ledger'.asOf = session'
                      /\ wanted' # Cash =>
                           ledger'.len = IF wanted' = portfolio THEN Longer(story.streak).age + 1 ELSE 1
    BY <1>1, <1>3 DEF LedgerLeads
  <2>1. phase = "decide" BY DEF DecideScored
  <2>2. /\ ledger.held = portfolio /\ (portfolio # Cash => ledger.len = story.streak.age + 1)
        /\ ledger.asOf = session
    BY <1>3, <2>1 DEF IInv, LedgerLeads
  <2>3. ~ exits BY <1>1 DEF Live
  <2>4. Routed(view, portfolio, m.len, stopped) = LiveChoice(view)
    <3>1. CASE portfolio # Cash
      <4>1. m.len + 1 = ledger.len + 1 BY <1>2, <2>2, <3>1
      <4>2. ~ Contested(view, portfolio, m.len)
        BY <1>3, <2>3, RuleKeep, CandidateFacts DEF Contested, Live, Surging, Ordered
      <4>3. Routed(view, portfolio, m.len, stopped) = Routed(view, portfolio, m.len + 1, FALSE)
        BY <1>2, <4>2, LeadIsHarmless, Zenon
      <4>4. QED BY <2>2, <4>1, <4>3 DEF LiveChoice, LiveLen
    <3>2. CASE portfolio = Cash
      BY <2>2, <3>2, NothingToLock DEF LiveChoice, LiveLen
    <3>3. QED BY <3>1, <3>2
  <2>5. wanted' = new
    <3>1. new = LiveChoice(view) BY <1>1, <1>3
    <3>2. QED BY <1>1, <2>3, <2>4, <3>1 DEF Ordered, Live
  <2>6. ledger' = [held |-> wanted', len |-> NextHoldLen(ledger, wanted'), asOf |-> session']
    <3>1. Named(view, LiveChoice(view)) BY <1>3
    <3>2. QED BY <1>1, <2>2, <2>5, <3>1 DEF Persist
  <2>7. QED BY <1>2, <2>2, <2>6 DEF NextHoldLen
<1>9. QED BY <1>1, <1>4, <1>5, <1>6, <1>7, <1>8 DEF IInv

LEMMA ExecuteKeeps ==
  ASSUME IInv, NEW filled \in BOOLEAN, Execute(filled)
  PROVE  IInv'
<1>1. /\ phase' = "decide" /\ phase = "execute"
      /\ UNCHANGED <<strategy, session, model, wanted, ledger>>
      /\ portfolio' = portfolio \/ portfolio' = wanted
  BY DEF Execute
<1>2. /\ story'.streak = IF portfolio' = portfolio THEN story.streak ELSE Fresh
      /\ story'.seen = story.seen \union {x \in {"parted"} : portfolio' # wanted}
  BY DEF Execute
<1>3. Counts' BY <1>1, <1>2 DEF IInv, Counts, Fresh
<1>4. TrackerInSync'
  BY <1>1, <1>2 DEF IInv, TrackerInSync, WantsOnlyWhenTracked, Fresh
<1>5. WantsOnlyWhenTracked' /\ MinHoldKept'
  BY <1>1 DEF WantsOnlyWhenTracked, MinHoldKept
<1>6. LedgerLeads'
  <2> SUFFICES ASSUME strategy \in Live, "parted" \notin story'.seen
               PROVE  /\ ledger.held = wanted /\ ledger.asOf = session /\ portfolio' = wanted
                      /\ portfolio' # Cash => ledger.len = story'.streak.age + 1
    BY <1>1 DEF LedgerLeads
  <2>1. portfolio' = wanted BY <1>2
  <2>2. "parted" \notin story.seen BY <1>2
  <2>3. /\ ledger.held = wanted /\ ledger.asOf = session
        /\ wanted # Cash => ledger.len = IF wanted = portfolio THEN story.streak.age + 1 ELSE 1
    BY <1>1, <2>2 DEF IInv, LedgerLeads
  <2>4. QED BY <1>2, <2>1, <2>3 DEF Fresh
<1>7. QED BY <1>1, <1>3, <1>4, <1>5, <1>6 DEF IInv

LEMMA NextInv == IInv /\ [Next]_vars => IInv'
<1> SUFFICES ASSUME IInv, [Next]_vars PROVE IInv' OBVIOUS
<1>1. ASSUME NEW view, DecideThin(view) PROVE IInv' BY <1>1, ThinKeeps
<1>2. ASSUME NEW view \in View[strategy], NEW new, DecideScored(view, new) PROVE IInv'
  <2>1. view.scores \in Views(Scores) BY SeenScores DEF IInv
  <2>2. QED BY <1>2, <2>1, ScoredKeeps
<1>3. ASSUME NEW filled \in BOOLEAN, Execute(filled) PROVE IInv' BY <1>3, ExecuteKeeps
<1>4. CASE UNCHANGED vars
  BY <1>4 DEF vars, IInv, Counts, TrackerInSync, WantsOnlyWhenTracked, MinHoldKept, LedgerLeads
<1>5. QED BY <1>1, <1>2, <1>3, <1>4 DEF Next

LEMMA Inductive == Spec => []IInv
<1>1. QED BY InitInv, NextInv, PTL DEF Spec

\* The momentum route never sells a candidate that it has held for fewer than
\* MinHold closes, unless the market's momentum is negative: whatever the
\* strategy, the orders left unfilled and the routes taken in between.
THEOREM LockCoversMinHold == Spec => []MinHoldKept
<1>1. IInv => MinHoldKept BY DEF IInv
<1>2. QED BY <1>1, Inductive, PTL

\* As long as orders are filled, live switches whole, a held ticker has its row when
\* `decide` needs it and no challenger beyond the gap appears at the last close of the
\* lock, `decide` records every session, and the model that it restores from its ledger
\* decides like the backtest's long-lived one.
THEOREM LiveAgreesUntilContested == Spec => []AgreesUntilContested
<1>1. IInv => AgreesUntilContested BY DEF IInv, LedgerLeads, AgreesUntilContested
<1>2. QED BY <1>1, Inductive, PTL

-----------------------------------------------------------------------------
(* Types *)

\* Whatever the market, the allocator fills a candidate or nothing.
LEMMA SeenFilled ==
  ASSUME NEW s \in Strategies, NEW view \in View[s]
  PROVE  view.filled \in [DOMAIN view.scores -> Held]
<1>1. PICK sleeve \in Sleeves, market \in Market, family \in Families, weak \in BOOLEAN,
           others \in SUBSET Tickers :
        view = Seen(s, sleeve, market, family, weak, others)
  BY DEF View
<1> DEFINE v == RouteScores(s, sleeve, market, family)
<1>2. /\ view.scores = v
      /\ view.filled = [t \in DOMAIN v |-> IF s = "split_fill_lock"
                                            THEN Filled(v, market, t, family) ELSE t]
  BY <1>1 DEF Seen
<1>3. DOMAIN v \subseteq Tickers BY <1>2, SeenScores DEF Views, Partial
<1> HIDE DEF v
<1>4. ASSUME NEW t \in DOMAIN v PROVE Filled(v, market, t, family) \in DOMAIN v \union {Cash}
  BY <1>4, Zenon DEF Filled
<1>5. QED BY <1>2, <1>3, <1>4 DEF Held

\* What apply_impulse_switch makes of the scores still has a leader.
LEMMA SwitchedLeader ==
  ASSUME NEW v \in Views(Scores), NEW held \in DOMAIN v, NEW rival
  PROVE  Leader(Switched(v, held, rival)) \in DOMAIN v
<1>1. PICK D \in SUBSET Tickers : v \in [D -> Scores] BY DEF Views, Partial
<1>2. TopScore \in Nat /\ \A t \in D : v[t] \in Int /\ v[t] <= TopScore
  BY <1>1, MarketAssumption DEF Scores
<1>3. /\ Switched(v, held, rival) \in [D -> Int]
      /\ \A t \in D : Switched(v, held, rival)[t] <= 2 * TopScore + 1
  BY <1>1, <1>2 DEF Switched
<1>4. D # {} /\ D = DOMAIN v /\ 2 * TopScore + 1 \in Int BY <1>1, <1>2
<1>5. Leader(Switched(v, held, rival)) \in D BY <1>3, <1>4, BoundedLeader
<1>6. QED BY <1>4, <1>5

\* Every route chooses a candidate or CASH.
LEMMA RoutedCandidate ==
  ASSUME NEW view, view.scores \in Views(Scores), NEW held, NEW len, NEW stopped
  PROVE  Routed(view, held, len, stopped) \in DOMAIN view.scores \union {Cash}
<1> DEFINE v == view.scores
<1>1. \A S : Within(v, S) \in Views(Scores) /\ DOMAIN Within(v, S) = DOMAIN v \intersect S
  BY WithinScores DEF Within
<1>2. \A S : DOMAIN Within(v, S) # {} => Leader(Within(v, S)) \in DOMAIN v
  BY <1>1, LeaderExists
<1>3. DOMAIN v # {} => Leader(v) \in DOMAIN v BY LeaderExists
<1>4. Sticky(v, held, len) \in DOMAIN v \union {Cash} BY <1>3 DEF Sticky, Stays
<1>5. Mom60(v, held, len) \in DOMAIN v \union {Cash} BY <1>3 DEF Mom60, Stays
<1>6. Top1(v) \in DOMAIN v \union {Cash} BY <1>3 DEF Top1
<1>7. Anchor(v, held, view.illiquid) \in DOMAIN v \union {Cash}
  BY <1>1, <1>2 DEF Anchor, Top1
<1>8. Overlaid(view, held, len) \in DOMAIN v \union {Cash}
  <2>1. Rivals(view, held) \subseteq DOMAIN v /\ (Rivals(view, held) # {} => held \in DOMAIN v)
    BY DEF Rivals
  <2>2. Rivals(view, held) # {} =>
          /\ Leader(Within(v, Rivals(view, held))) \in DOMAIN v
          /\ Leader(Switched(v, held, Leader(Within(v, Rivals(view, held))))) \in DOMAIN v
    BY <1>1, <1>2, <2>1, SwitchedLeader
  <2>3. QED BY <1>4, <2>2 DEF Overlaid
<1>9. QED BY <1>4, <1>5, <1>6, <1>7, <1>8 DEF Routed

\* Whatever is ordered is a ticker or CASH.
LEMMA OrderedHeld ==
  ASSUME TypeOK, NEW view \in View[strategy], NEW choice \in DOMAIN view.scores \union {Cash}
  PROVE  Ordered(view, choice) \in Held
<1>1. strategy \in Strategies /\ portfolio \in Held BY DEF TypeOK
<1>2. view.filled \in [DOMAIN view.scores -> Held] /\ view.scores \in Views(Scores)
  BY <1>1, SeenFilled, SeenScores
<1>3. DOMAIN view.scores \subseteq Tickers BY <1>2 DEF Views, Partial
<1>4. QED BY <1>1, <1>2, <1>3 DEF Ordered, Held

LEMMA InitType == Init => TypeOK
BY ConfigAssumption DEF Init, TypeOK, Held, NoRunner, NoStop

LEMMA PersistTyped ==
  ASSUME TypeOK, session < MaxSession, NEW view, NEW choice, NEW new \in Held,
         Persist(view, choice, new)
  PROVE  /\ ledger' \in [held : Held, len : Nat, asOf : 0 .. MaxSession]
         /\ ledger'.held = Cash <=> ledger'.len = 0
<1>1. /\ ledger \in [held : Held, len : Nat, asOf : 0 .. MaxSession]
      /\ ledger.held = Cash <=> ledger.len = 0
  BY DEF TypeOK
<1>2. NextHoldLen(ledger, new) \in Nat /\ (new = Cash <=> NextHoldLen(ledger, new) = 0)
  <2>1. CASE new = Cash BY <2>1 DEF NextHoldLen
  <2>2. CASE new # Cash /\ new = ledger.held BY <1>1, <2>2 DEF NextHoldLen
  <2>3. CASE new # Cash /\ new # ledger.held BY <2>3 DEF NextHoldLen
  <2>4. QED BY <2>1, <2>2, <2>3
<1>3. session + 1 \in 0 .. MaxSession BY ConfigAssumption DEF TypeOK
<1>4. QED BY <1>1, <1>2, <1>3 DEF Persist

LEMMA TrackedTyped ==
  ASSUME TypeOK
  PROVE  LET m == Tracked(model, portfolio) IN
         m \in [held : Held, len : Nat] /\ (m.held = Cash <=> m.len = 0)
<1>1. model \in [held : Held, len : Nat] /\ (model.held = Cash <=> model.len = 0) /\ portfolio \in Held
  BY DEF TypeOK
<1>2. QED BY <1>1 DEF Tracked

Runners == [ticker : Held, entry : 0 .. MaxCapital, peak : 0 .. MaxCapital, sessions : Nat,
            armed : BOOLEAN]

LEMMA RunnerTyped ==
  ASSUME TypeOK
  PROVE  Runner(runner, portfolio, capital) \in Runners
<1>1. runner \in Runners /\ portfolio \in Held /\ capital \in 1 .. MaxCapital /\ MaxCapital \in Nat
  BY ConfigAssumption DEF TypeOK, Runners
<1> DEFINE peak == Larger(runner.peak, capital)
<1>2. peak \in 0 .. MaxCapital BY <1>1 DEF Larger, Runners
<1> HIDE DEF peak
<1>3. [runner EXCEPT !.peak = peak, !.sessions = @ + 1,
                     !.armed = runner.sessions + 1 >= Horizon /\ peak > runner.entry] \in Runners
  <2>1. (runner.sessions + 1 >= Horizon /\ peak > runner.entry) \in BOOLEAN OBVIOUS
  <2>2. runner.sessions + 1 \in Nat BY <1>1 DEF Runners
  <2>3. QED BY <1>1, <1>2, <2>1, <2>2, Zenon DEF Runners
<1>4. NoRunner \in Runners BY <1>1 DEF NoRunner, Runners, Held
<1>5. [ticker |-> portfolio, entry |-> capital, peak |-> capital, sessions |-> 1, armed |-> FALSE]
        \in Runners
  BY <1>1 DEF Runners
<1>6. QED BY <1>3, <1>4, <1>5 DEF Runner, peak

LEMMA InactiveTyped ==
  ASSUME TypeOK
  PROVE  Inactive(inactive, portfolio, capital) \in [peak : 0 .. MaxCapital, stopped : BOOLEAN]
<1>1. inactive \in [peak : 0 .. MaxCapital, stopped : BOOLEAN] /\ capital \in 1 .. MaxCapital
      /\ MaxCapital \in Nat
  BY ConfigAssumption DEF TypeOK
<1>2. Larger(inactive.peak, capital) \in 0 .. MaxCapital BY <1>1 DEF Larger
<1>3. \A n : Fallen(n, capital) \in BOOLEAN BY DEF Fallen
<1>4. QED BY <1>1, <1>2, <1>3 DEF Inactive

\* What a scored session does to the trackers, with DecideScored's local names
\* written out.
Exits(view) ==
  strategy = "runner_reversal" /\ portfolio # Cash /\ RunnerExits(runner', capital, view.weak)

LEMMA ScoredTrackers ==
  ASSUME NEW view, NEW new, DecideScored(view, new)
  PROVE  /\ model' = Tracked(model, portfolio)
         /\ runner' = IF strategy = "runner_reversal" THEN Runner(runner, portfolio, capital)
                      ELSE runner
         /\ inactive' = IF strategy = "inactive_participate" /\ view.sleeve = "INACTIVE"
                        THEN Inactive(inactive, portfolio, capital) ELSE inactive
         /\ wanted' = IF Exits(view) THEN Cash
                      ELSE Ordered(view, Routed(view, portfolio, model'.len, inactive'.stopped))
         /\ story' = Told(view, Tracked(model, portfolio), Rule(view, Exits(view)), new)
         /\ UNCHANGED <<strategy, portfolio, capital>>
BY Zenon DEF DecideScored, Exits

LEMMA ThinTyped ==
  ASSUME TypeOK, NEW view, DecideThin(view)
  PROVE  TypeOK'
<1>1. session' = session + 1 /\ session < MaxSession /\ phase' = "execute" /\ wanted' = Cash
      /\ UNCHANGED <<strategy, portfolio, capital, model, runner, inactive>>
      /\ Persist(view, Cash, Cash)
  BY DEF DecideThin
<1>2. /\ ledger' \in [held : Held, len : Nat, asOf : 0 .. MaxSession]
      /\ ledger'.held = Cash <=> ledger'.len = 0
  BY <1>1, PersistTyped DEF Held
<1>3. session' \in 0 .. MaxSession BY <1>1, ConfigAssumption DEF TypeOK
<1>4. QED BY <1>1, <1>2, <1>3 DEF TypeOK, Held

LEMMA ScoredTyped ==
  ASSUME TypeOK, NEW view \in View[strategy], NEW new \in LiveHeld(LiveChoice(view)),
         DecideScored(view, new)
  PROVE  TypeOK'
<1>1. /\ session' = session + 1 /\ session < MaxSession /\ phase' = "execute"
      /\ Persist(view, LiveChoice(view), new)
      /\ UNCHANGED <<strategy, portfolio, capital>>
  BY DEF DecideScored
<1>2. /\ model' = Tracked(model, portfolio)
      /\ runner' \in {runner, Runner(runner, portfolio, capital)}
      /\ inactive' \in {inactive, Inactive(inactive, portfolio, capital)}
      /\ \/ wanted' = Cash
         \/ wanted' = Ordered(view, Routed(view, portfolio, model'.len, inactive'.stopped))
  BY ScoredTrackers
<1>3. view.scores \in Views(Scores) /\ DOMAIN view.scores \subseteq Tickers
  BY SeenScores DEF TypeOK, Views, Partial
<1>4. wanted' \in Held BY <1>2, <1>3, RoutedCandidate, OrderedHeld DEF Held
<1>5. LiveChoice(view) \in Held BY <1>3, RoutedCandidate DEF LiveChoice, Held
<1>6. new \in Held BY <1>5 DEF LiveHeld, TypeOK, Held
<1>7. /\ ledger' \in [held : Held, len : Nat, asOf : 0 .. MaxSession]
      /\ ledger'.held = Cash <=> ledger'.len = 0
  BY <1>1, <1>6, PersistTyped
<1>8. model' \in [held : Held, len : Nat] /\ (model'.held = Cash <=> model'.len = 0)
  BY <1>2, TrackedTyped
<1>9. runner' \in Runners BY <1>2, RunnerTyped DEF TypeOK, Runners
<1>10. inactive' \in [peak : 0 .. MaxCapital, stopped : BOOLEAN]
  BY <1>2, InactiveTyped DEF TypeOK
<1>11. session' \in 0 .. MaxSession BY <1>1, ConfigAssumption DEF TypeOK
<1>12. QED BY <1>1, <1>4, <1>7, <1>8, <1>9, <1>10, <1>11 DEF TypeOK, Runners

LEMMA ExecuteTyped ==
  ASSUME TypeOK, NEW filled \in BOOLEAN, Execute(filled)
  PROVE  TypeOK'
<1>1. /\ phase' = "decide" /\ portfolio' \in {portfolio, wanted}
      /\ capital' \in {capital} \union ((capital - 1 .. capital + 1) \intersect (1 .. MaxCapital))
      /\ UNCHANGED <<strategy, session, model, runner, inactive, wanted, ledger>>
  BY DEF Execute
<1>2. QED BY <1>1 DEF TypeOK

LEMMA NextType == TypeOK /\ [Next]_vars => TypeOK'
<1> SUFFICES ASSUME TypeOK, [Next]_vars PROVE TypeOK' OBVIOUS
<1>1. ASSUME NEW view, DecideThin(view) PROVE TypeOK' BY <1>1, ThinTyped
<1>2. ASSUME NEW view \in View[strategy], NEW new \in LiveHeld(LiveChoice(view)),
             DecideScored(view, new)
      PROVE  TypeOK'
  BY <1>2, ScoredTyped
<1>3. ASSUME NEW filled \in BOOLEAN, Execute(filled) PROVE TypeOK' BY <1>3, ExecuteTyped
<1>4. CASE UNCHANGED vars BY <1>4 DEF vars, TypeOK
<1>5. QED BY <1>1, <1>2, <1>3, <1>4 DEF Next

\* Whatever the strategy and the market: what is held, wanted and recorded is a ticker
\* or CASH, and nothing is counted for CASH.
THEOREM HoldTyped == Spec => []TypeOK
<1>1. QED BY InitType, NextType, PTL DEF Spec

-----------------------------------------------------------------------------
(* The runner exit and the stop of INACTIVE participation *)

\* The runner tracker follows the holding that the hold tracker follows, and knows of
\* it what really happened; it is armed only by an old holding that has gained.
RunnerInSync ==
  strategy = "runner_reversal" =>
    /\ runner.ticker = model.held
    /\ model.held # Cash => model.len > 0
    /\ portfolio # Cash /\ model.held = portfolio =>
         /\ runner.sessions = story.streak.age
         /\ runner.entry = story.streak.entry /\ runner.peak = story.streak.top
    /\ runner.armed => runner.sessions >= Horizon /\ runner.entry < runner.peak

\* As long as participation is not stopped, its peak is no lower than the equity of
\* its last rest in cash; so a fall below that equity has stopped it.
StopCoversRuin ==
  /\ story.base \in Nat
  /\ strategy = "inactive_participate" =>
       /\ ~ inactive.stopped => story.base <= inactive.peak
       /\ "ruined" \in story.seen => inactive.stopped

ExitInv == RunnerInSync /\ StopCoversRuin /\ RunnerConfirmed /\ StopIsFinal

LEMMA ExitConstants ==
  /\ Horizon \in Nat \ {0} /\ StopNum \in Nat /\ StopDen \in Nat /\ StopDen - StopNum \in Nat
  /\ InitialCapital \in Nat /\ MaxCapital \in Nat
BY ConfigAssumption

LEMMA InitExit == Init => ExitInv
BY ExitConstants
   DEF Init, ExitInv, RunnerInSync, StopCoversRuin, RunnerConfirmed, StopIsFinal, NoRunner, NoStop,
       Fresh, Cash

\* A fall below a lower equity is a fall below a higher one.
LEMMA FallenMonotonic ==
  ASSUME NEW a \in Nat, NEW b \in Nat, NEW c \in Nat, a <= b, Fallen(a, c)
  PROVE  Fallen(b, c)
<1>1. a > 0 /\ c * StopDen <= a * (StopDen - StopNum) BY DEF Fallen
<1> DEFINE d == StopDen - StopNum
<1>2. d \in Nat BY ExitConstants
<1> HIDE DEF d
<1>3. PICK e \in Nat : b = a + e
  <2>1. b - a \in Nat /\ b = a + (b - a) OBVIOUS
  <2>2. QED BY <2>1
<1>4. b * d = a * d + e * d /\ e * d \in Nat BY <1>2, <1>3
<1> DEFINE left == c * StopDen
           low  == a * d
           step == e * d
           high == b * d
<1>5. left \in Nat /\ low \in Nat /\ step \in Nat /\ high \in Nat BY <1>2, ExitConstants
<1>6. high = low + step BY <1>4
<1>7. left <= low BY <1>1 DEF d
<1> HIDE DEF left, low, step, high
<1>8. left <= high BY <1>5, <1>6, <1>7
<1>9. c * StopDen <= b * d BY <1>8 DEF left, high
<1>10. b > 0 BY <1>1
<1>11. QED BY <1>9, <1>10 DEF Fallen, d

\* The rule says RUNNER when the exit decides, PARTICIPATE when that route does.
LEMMA RuleNames ==
  ASSUME NEW view, NEW exits
  PROVE  /\ Rule(view, exits) = "RUNNER" => exits
         /\ Rule(view, exits) = "PARTICIPATE" =>
              /\ ~ exits /\ strategy = "inactive_participate" /\ view.sleeve = "INACTIVE"
              /\ Route(view.sleeve, portfolio) = "PARTICIPATE"
BY DEF Rule, Route

\* One more scored session, for the tracker and for the story.
LEMMA RunnerFollows ==
  ASSUME TypeOK, IInv, RunnerInSync, strategy = "runner_reversal", portfolio # Cash
  PROVE  LET r == Runner(runner, portfolio, capital)
             k == Longer(story.streak) IN
         /\ r.ticker = portfolio /\ r.sessions = k.age /\ r.entry = k.entry /\ r.peak = k.top
         /\ r.armed => r.sessions >= Horizon /\ r.entry < r.peak
<1>0. portfolio # Cash /\ capital \in Nat BY DEF TypeOK
<1>1. CASE model.held = portfolio
  <2>1. story.streak.age \in Nat /\ story.streak.age > 0
    BY <1>0, <1>1 DEF IInv, Counts, TrackerInSync, RunnerInSync
  <2>2. runner.ticker = portfolio /\ runner.sessions = story.streak.age
        /\ runner.entry = story.streak.entry /\ runner.peak = story.streak.top
    BY <1>0, <1>1 DEF RunnerInSync
  <2>3. /\ Longer(story.streak).age = story.streak.age + 1
        /\ Longer(story.streak).entry = runner.entry
        /\ Longer(story.streak).top = Larger(runner.peak, capital)
    BY <2>1, <2>2, <1>0 DEF Longer
  <2>4. runner \in Runners BY DEF TypeOK, Runners
  <2> DEFINE peak == Larger(runner.peak, capital)
  <2>5. Runner(runner, portfolio, capital)
          = [runner EXCEPT !.peak = peak, !.sessions = @ + 1,
                           !.armed = runner.sessions + 1 >= Horizon /\ peak > runner.entry]
    BY <1>0, <2>2 DEF Runner
  <2>6. peak \in Nat BY <1>0, <2>4 DEF Larger, Runners
  <2> HIDE DEF peak
  <2>8. QED BY <2>2, <2>3, <2>4, <2>5, <2>6, ExitConstants DEF Runners, peak
<1>2. CASE model.held # portfolio
  <2>1. story.streak.age = 0 /\ runner.ticker # portfolio
    BY <1>0, <1>2 DEF IInv, TrackerInSync, RunnerInSync
  <2>2. QED BY <1>0, <2>1 DEF Runner, Longer
<1>3. QED BY <1>1, <1>2

LEMMA ThinKeepsExit ==
  ASSUME ExitInv, NEW view, DecideThin(view)
  PROVE  ExitInv'
<1>1. /\ story' = [story EXCEPT !.rule = "THIN"]
      /\ UNCHANGED <<strategy, portfolio, capital, model, runner, inactive>>
  BY DEF DecideThin
<1>2. /\ story'.streak = story.streak /\ story'.seen = story.seen /\ story'.base = story.base
      /\ story'.rule \notin {"RUNNER", "PARTICIPATE"}
  BY <1>1
<1>3. QED BY <1>1, <1>2 DEF ExitInv, RunnerInSync, StopCoversRuin, RunnerConfirmed, StopIsFinal

LEMMA ExecuteKeepsExit ==
  ASSUME TypeOK, IInv, ExitInv, NEW filled \in BOOLEAN, Execute(filled)
  PROVE  ExitInv'
<1>1. /\ phase' = "decide" /\ phase = "execute"
      /\ UNCHANGED <<strategy, model, runner, inactive>>
      /\ portfolio' = portfolio \/ portfolio' = wanted
  BY DEF Execute
<1>2. /\ story'.streak = IF portfolio' = portfolio THEN story.streak ELSE Fresh
      /\ story'.base = story.base
      /\ "ruined" \in story'.seen => "ruined" \in story.seen
  <2>1. story' = [story EXCEPT !.streak = IF portfolio' = portfolio THEN @ ELSE Fresh,
                               !.seen = @ \union {x \in {"parted"} : portfolio' # wanted}]
    BY Zenon DEF Execute
  <2>2. /\ story'.streak = IF portfolio' = portfolio THEN story.streak ELSE Fresh
        /\ story'.seen = story.seen \union {x \in {"parted"} : portfolio' # wanted}
        /\ story'.base = story.base
    BY <2>1
  <2>3. QED BY <2>2
<1>3. RunnerConfirmed' /\ StopIsFinal' BY <1>1 DEF RunnerConfirmed, StopIsFinal
<1>4. StopCoversRuin'
  BY <1>1, <1>2 DEF ExitInv, StopCoversRuin
<1>5. RunnerInSync'
  <2>1. portfolio' # portfolio /\ portfolio' # Cash => model.held # portfolio'
    BY <1>1 DEF IInv, WantsOnlyWhenTracked
  <2>2. QED BY <1>1, <1>2, <2>1 DEF ExitInv, RunnerInSync
<1>6. QED BY <1>3, <1>4, <1>5 DEF ExitInv

LEMMA ScoredKeepsExit ==
  ASSUME TypeOK, IInv, ExitInv, NEW view, NEW new, DecideScored(view, new)
  PROVE  ExitInv'
<1> DEFINE exits == Exits(view)
<1>1. /\ model' = Tracked(model, portfolio)
      /\ runner' = IF strategy = "runner_reversal" THEN Runner(runner, portfolio, capital)
                   ELSE runner
      /\ inactive' = IF strategy = "inactive_participate" /\ view.sleeve = "INACTIVE"
                     THEN Inactive(inactive, portfolio, capital) ELSE inactive
      /\ wanted' = IF exits THEN Cash
                   ELSE Ordered(view, Routed(view, portfolio, model'.len, inactive'.stopped))
      /\ story' = Told(view, Tracked(model, portfolio), Rule(view, exits), new)
      /\ UNCHANGED <<strategy, portfolio, capital>>
  BY ScoredTrackers
<1>2. /\ strategy = "runner_reversal" /\ exits => portfolio # Cash /\ runner'.armed /\ capital < runner'.peak
      /\ exits => strategy = "runner_reversal"
  BY DEF Exits, RunnerExits
<1> HIDE DEF exits
<1>3. /\ story'.streak = Longer(story.streak) /\ story'.rule = Rule(view, exits)
      /\ story'.base = IF view.sleeve = "INACTIVE" /\ portfolio = Cash THEN capital ELSE story.base
      /\ "ruined" \in story'.seen => \/ "ruined" \in story.seen
                                     \/ view.sleeve = "INACTIVE" /\ Fallen(story'.base, capital)
  BY <1>1 DEF Told
<1>4. capital \in Nat /\ model'.held = portfolio BY <1>1, TrackedInSync DEF TypeOK, IInv
<1>5. RunnerInSync' /\ RunnerConfirmed'
  <2>1. CASE strategy # "runner_reversal"
    BY <1>1, <1>2, <1>3, <2>1, RuleNames DEF RunnerInSync, RunnerConfirmed
  <2>2. CASE strategy = "runner_reversal" /\ portfolio # Cash
    <3>1. /\ runner'.ticker = portfolio /\ runner'.sessions = story'.streak.age
          /\ runner'.entry = story'.streak.entry /\ runner'.peak = story'.streak.top
          /\ runner'.armed => runner'.sessions >= Horizon /\ runner'.entry < runner'.peak
      BY <1>1, <1>3, <1>4, <2>2, RunnerFollows DEF ExitInv
    <3>2. model'.len > 0
      BY <1>1, <2>2 DEF ExitInv, RunnerInSync, IInv, Counts, Tracked
    <3>3. RunnerInSync' BY <1>1, <1>4, <3>1, <3>2 DEF RunnerInSync
    <3>4. RunnerConfirmed'
      <4> SUFFICES ASSUME Rule(view, exits) = "RUNNER"
                   PROVE  /\ story'.streak.age >= Horizon
                          /\ story'.streak.entry < story'.streak.top /\ capital' < story'.streak.top
        BY <1>3 DEF RunnerConfirmed
      <4>1. exits BY RuleNames
      <4>2. QED BY <1>1, <1>2, <2>2, <3>1, <4>1
    <3>5. QED BY <3>3, <3>4
  <2>3. CASE strategy = "runner_reversal" /\ portfolio = Cash
    <3>1. runner' = NoRunner BY <1>1, <2>3 DEF Runner
    <3>2. RunnerInSync' BY <1>1, <1>4, <2>3, <3>1 DEF RunnerInSync, NoRunner
    <3>3. ~ exits BY <1>2, <2>3
    <3>4. Rule(view, exits) # "RUNNER" BY <3>3, RuleNames
    <3>5. RunnerConfirmed' BY <1>3, <3>4 DEF RunnerConfirmed
    <3>6. QED BY <3>2, <3>5
  <2>4. QED BY <2>1, <2>2, <2>3
<1>6. StopCoversRuin'
  <2>1. story.base \in Nat /\ inactive.peak \in Nat /\ inactive.stopped \in BOOLEAN
    BY DEF TypeOK, ExitInv, StopCoversRuin
  <2>2. story'.base \in Nat BY <1>3, <1>4, <2>1
  <2>3. inactive'.peak \in Nat /\ inactive'.stopped \in BOOLEAN
    <3>1. Larger(inactive.peak, capital) \in Nat BY <1>4, <2>1 DEF Larger
    <3>2. \A n \in Nat : Fallen(n, capital) \in BOOLEAN BY DEF Fallen
    <3>3. QED BY <1>1, <1>4, <2>1, <3>1, <3>2 DEF Inactive
  <2>4. ASSUME strategy = "inactive_participate"
        PROVE  /\ ~ inactive'.stopped => story'.base <= inactive'.peak
               /\ "ruined" \in story'.seen => inactive'.stopped
    <3>0. /\ ~ inactive.stopped => story.base <= inactive.peak
          /\ "ruined" \in story.seen => inactive.stopped
      BY <2>4 DEF ExitInv, StopCoversRuin
    <3>1. CASE view.sleeve # "INACTIVE"
      BY <1>1, <1>3, <3>0, <3>1
    <3>2. CASE view.sleeve = "INACTIVE" /\ inactive.stopped
      <4>1. inactive'.stopped BY <1>1, <2>4, <3>2 DEF Inactive
      <4>2. QED BY <4>1
    <3>3. CASE view.sleeve = "INACTIVE" /\ ~ inactive.stopped
      <4>1. inactive' = Inactive(inactive, portfolio, capital) BY <1>1, <2>4, <3>3
      <4>2. story'.base <= inactive'.peak
        <5>1. CASE portfolio = Cash BY <1>3, <1>4, <3>3, <4>1, <5>1 DEF Inactive
        <5>2. CASE portfolio # Cash
          BY <1>3, <1>4, <2>1, <3>0, <3>3, <4>1, <5>2 DEF Inactive, Larger
        <5>3. QED BY <5>1, <5>2
      <4>3. inactive'.stopped = Fallen(inactive'.peak, capital)
        BY <3>3, <4>1 DEF Inactive, Fallen
      <4>4. Fallen(story'.base, capital) => inactive'.stopped
        BY <1>4, <2>2, <2>3, <4>2, <4>3, FallenMonotonic
      <4>5. QED BY <1>3, <3>0, <3>3, <4>2, <4>4
    <3>4. QED BY <3>1, <3>2, <3>3
  <2>5. QED BY <1>1, <1>4, <2>2, <2>3, <2>4 DEF StopCoversRuin
<1>7. StopIsFinal'
  <2> SUFFICES ASSUME Rule(view, exits) = "PARTICIPATE", "ruined" \in story'.seen
               PROVE  wanted' = Cash
    BY <1>3 DEF StopIsFinal
  <2>1. ~ exits /\ strategy = "inactive_participate" /\ Route(view.sleeve, portfolio) = "PARTICIPATE"
    BY RuleNames
  <2>2. inactive'.stopped BY <1>1, <1>6, <2>1 DEF StopCoversRuin
  <2>3. Routed(view, portfolio, model'.len, inactive'.stopped) = Cash
    BY <2>1, <2>2 DEF Routed
  <2>4. QED BY <1>1, <2>1, <2>3 DEF Ordered
<1>8. QED BY <1>5, <1>6, <1>7 DEF ExitInv

LEMMA NextExit == TypeOK /\ IInv /\ ExitInv /\ [Next]_vars => ExitInv'
<1> SUFFICES ASSUME TypeOK, IInv, ExitInv, [Next]_vars PROVE ExitInv' OBVIOUS
<1>1. ASSUME NEW view, DecideThin(view) PROVE ExitInv' BY <1>1, ThinKeepsExit
<1>2. ASSUME NEW view, NEW new, DecideScored(view, new) PROVE ExitInv'
  BY <1>2, ScoredKeepsExit
<1>3. ASSUME NEW filled \in BOOLEAN, Execute(filled) PROVE ExitInv' BY <1>3, ExecuteKeepsExit
<1>4. CASE UNCHANGED vars
  BY <1>4 DEF vars, ExitInv, RunnerInSync, StopCoversRuin, RunnerConfirmed, StopIsFinal
<1>5. QED BY <1>1, <1>2, <1>3, <1>4 DEF Next

LEMMA ExitInductive == Spec => []ExitInv
<1>1. QED BY InitExit, NextExit, HoldTyped, Inductive, PTL DEF Spec

\* The runner exit sells a holding only after Horizon closes of that very holding, and
\* below a gain it has made: whatever was sold, bought back, left unfilled or skipped by
\* thin sessions before it.
THEOREM RunnerExitConfirmed == Spec => []RunnerConfirmed
<1>1. ExitInv => RunnerConfirmed BY DEF ExitInv
<1>2. QED BY <1>1, ExitInductive, PTL

\* Once the equity has fallen by the stop below what it was at the last rest in cash,
\* INACTIVE participation buys nothing again, for any stop, equity and order of routes.
THEOREM StopNeverLifts == Spec => []StopIsFinal
<1>1. ExitInv => StopIsFinal BY DEF ExitInv
<1>2. QED BY <1>1, ExitInductive, PTL

=============================================================================
