---------------------------- MODULE StickyMarket ----------------------------
(***************************************************************************)
(* What a sticky strategy sees of a session: the rows of the snapshot pass  *)
(* the filters of its configuration and leave the scores of the one route   *)
(* that the market's sleeve takes.                                          *)
(*                                                                          *)
(* A row is there with all its columns or not at all, and has one score,    *)
(* read as mom_20, mom_60 or rv_20 by the route that is taken.  ADV and     *)
(* order limits are one scale, on which RequiredAdv fills an order to       *)
(* min_fill_ratio and FullAdv fills it.  A ticker that the snapshot leaves  *)
(* out may still have a row in the panel.                                   *)
(***************************************************************************)
EXTENDS Integers

CONSTANTS
  NTickers,    \* tickers are 1 .. NTickers, in alphabetical order
  Anchors,     \* anchor_tickers: the index +2x ETFs of a rebound campaign
  Plus2,       \* the tickers whose name says +2x
  Synthetic,   \* the tickers whose name says synthetic
  Families,    \* the ways underlying_index_name may group the tickers
  TopScore,    \* bound: scores are -1 .. TopScore
  TopAdv,      \* bound: ADV is Unknown or 0 .. TopAdv
  RequiredAdv, \* capital * min_fill_ratio / max_order_to_adv
  FullAdv,     \* capital / max_order_to_adv: fills an order for all of it
  Strategies   \* strategies that a run may be started with

Cash    == 0
Unknown == -1
Tickers == 1 .. NTickers
Scores  == -1 .. TopScore

\* The strategies `decide` accepts (_LIVE_STICKY_STRATEGIES), and those that
\* only the backtest runs.
Live    == {"mom60_raw", "post_crash_anchor"}
Surging == {"impulse_crash", "split_fill_lock"}
Known   == Live \union {"inactive_participate", "runner_reversal", "mom60_hold"} \union Surging

\* A history of the KOSPI headline series: a return or a volatility is known
\* from twenty sessions on, the long return from sixty.
Headlines ==
  {m \in [mom60 : {"missing", "falling", "flat", "rising"},   \* below 0, between, above 8 %
          mom20 : {"missing", "flat", "rebounding"},         \* above 3 %
          rv20  : {"missing", "calm", "turbulent"}] :        \* above 25 % a year
     /\ m.mom20 = "missing" <=> m.rv20 = "missing"
     /\ m.mom20 = "missing" => m.mom60 = "missing"}

ClassifySleeve(m) ==
  CASE "missing" \in {m.mom60, m.mom20, m.rv20} -> "UNCERTAIN"
    [] m = [mom60 |-> "falling", mom20 |-> "rebounding", rv20 |-> "turbulent"] -> "CRASH_REBOUND"
    [] m.mom60 = "rising" -> "LOTTERY_ON"
    [] OTHER -> "INACTIVE"

Sleeves == {ClassifySleeve(m) : m \in Headlines}

ASSUME MarketAssumption ==
  /\ NTickers \in Nat /\ TopScore \in Nat /\ TopAdv \in Nat /\ RequiredAdv \in Nat /\ FullAdv \in Nat
  /\ Anchors \subseteq Tickers /\ Strategies \subseteq Known

-----------------------------------------------------------------------------
Partial(S) == UNION {[D -> S] : D \in SUBSET Tickers}
Views(S)   == Partial(S)

\* Sorted by score, then by ticker.
IsLeader(v, t) ==
  /\ t \in DOMAIN v
  /\ \A u \in DOMAIN v : v[u] < v[t] \/ (v[u] = v[t] /\ t <= u)
Leader(v) == CHOOSE t \in DOMAIN v : IsLeader(v, t)

Within(v, S) == [t \in DOMAIN v \intersect S |-> v[t]]

-----------------------------------------------------------------------------
\* impulse: a five-session surge with volume; fallen: drawdown_20 beyond the
\* stop of an anchor and beyond cash_drawdown.
Row    == [score : Scores, adv : Unknown .. TopAdv, impulse : BOOLEAN, fallen : BOOLEAN]
Market == Partial(Row)

ScoreOf(market) == [t \in DOMAIN market |-> market[t].score]

\* The strategies with a capacity filter are those that leave synthetic
\* products out (the mom60 ones).
Capped(kind) == kind \notin Surging

\* filter_plus2_scores
Plus2Scores(kind, market) ==
  Within(ScoreOf(market), IF Capped(kind) THEN Plus2 \ Synthetic ELSE Plus2)

\* An order of the capital that the run started with, not of what is left.
Deep(row) == row.adv >= RequiredAdv

\* apply_capacity_filter: what is not known to be too thin.
Fillable(v, market) ==
  Within(v, {t \in DOMAIN v : market[t].adv = Unknown \/ Deep(market[t])})

\* collapse_plus2_by_family: of each family the ticker that traded most, and by
\* score where nobody's trading is known.
Sibling(v, t, family) == {u \in DOMAIN v : family[u] = family[t]}
Measured(market, S) == {u \in S : market[u].adv # Unknown}

Heavier(v, market, u, t) ==
  \/ market[t].adv < market[u].adv
  \/ market[t].adv = market[u].adv /\ (v[t] < v[u] \/ (v[t] = v[u] /\ u < t))

IsVehicle(v, market, t, family) ==
  LET measured == Measured(market, Sibling(v, t, family)) IN
  IF measured # {}
  THEN t \in measured /\ \A u \in measured : ~ Heavier(v, market, u, t)
  ELSE IsLeader(Within(v, Sibling(v, t, family)), t)

Collapsed(v, market, family) == Within(v, {t \in DOMAIN v : IsVehicle(v, market, t, family)})

\* The candidates of the momentum route.
Momentum(kind, market, family) ==
  LET v == Plus2Scores(kind, market) IN
  IF Capped(kind) THEN Fillable(v, market)
  ELSE IF kind = "split_fill_lock" THEN Collapsed(v, market, family) ELSE v

\* The capacity filter took all of them: score() returns at once.
Thin(kind, market) ==
  /\ Capped(kind) /\ DOMAIN Plus2Scores(kind, market) # {}
  /\ DOMAIN Fillable(Plus2Scores(kind, market), market) = {}

\* rebound_leader_scores, then the capacity filter where there is one.
Rebound(kind, market) ==
  LET v == Within(ScoreOf(market), Plus2 \ Synthetic) IN
  IF Capped(kind) THEN Fillable(v, market) ELSE v

\* inactive_leader_scores: a thin ticker is left out, and one of unknown volume.
Participating(market) ==
  Within(ScoreOf(market), {t \in (Plus2 \ Synthetic) \intersect DOMAIN market : Deep(market[t])})

\* post_crash_anchor_scores before the choice: the anchors that are not stopped.
Standing(market) ==
  Within(ScoreOf(market), {t \in Anchors \intersect DOMAIN market : ~ market[t].fallen})

\* What is left for the route that the sleeve leads to; `weak`: the momentum of
\* the held ticker over the runner's horizon is known and <= 0.
RouteScores(kind, sleeve, market, family) ==
  CASE sleeve = "LOTTERY_ON" -> Momentum(kind, market, family)
    [] sleeve = "CRASH_REBOUND" /\ kind # "post_crash_anchor" -> Rebound(kind, market)
    [] sleeve = "INACTIVE" /\ kind = "inactive_participate" -> Participating(market)
    [] sleeve \in {"CRASH_REBOUND", "INACTIVE"} /\ kind = "post_crash_anchor" -> Standing(market)
    [] OTHER -> Within(ScoreOf(market), {})

\* split_residual_plus2: what the leader's trading cannot fill goes to the best
\* ticker of another family, or of its own where there is no other.
Fillables(row) == IF row.adv > FullAdv THEN FullAdv ELSE IF row.adv = Unknown THEN 0 ELSE row.adv

Residuals(v, market, t, family) ==
  LET apart == DOMAIN v \ Sibling(v, t, family) IN
  Measured(market, IF apart # {} THEN apart ELSE DOMAIN v \ {t})

\* pick_liquidity_sleeve: by score, then by trading, then by ticker.
IsResidual(v, market, t, family, u) ==
  LET known == Residuals(v, market, t, family) IN
  /\ u \in known
  /\ \A w \in known \ {u} :
       v[w] < v[u] \/ (v[w] = v[u] /\ ~ Heavier(v, market, w, u))

\* The heavier of the leader and the ticker that takes its residual, the first
\* of two equal ones; CASH where neither can be filled.
Filled(v, market, t, family) ==
  LET own      == Fillables(market[t])
      Share(u) == IF own + Fillables(market[u]) > FullAdv THEN FullAdv - own
                  ELSE Fillables(market[u])
      larger   == {u \in DOMAIN v : /\ IsResidual(v, market, t, family, u)
                                    /\ Share(u) > own \/ (Share(u) = own /\ u < t /\ own > 0)} IN
  CASE own < FullAdv /\ larger # {} -> CHOOSE u \in larger : TRUE
    [] own > 0 /\ (own = FullAdv \/ larger = {}) -> t
    [] OTHER -> Cash

Seen(kind, sleeve, market, family, weak, others) ==
  LET v       == RouteScores(kind, sleeve, market, family)
      Flags(S) == IF kind \in Surging /\ sleeve = "LOTTERY_ON" THEN S ELSE {} IN
  [sleeve   |-> sleeve,
   thin     |-> Thin(kind, market),
   scores   |-> v,
   illiquid |-> IF kind = "post_crash_anchor"
                THEN {t \in Anchors \intersect DOMAIN market :
                        market[t].adv # Unknown /\ ~ Deep(market[t])} ELSE {},
   surge    |-> Flags({t \in DOMAIN v : market[t].impulse}),
   fallen   |-> Flags({t \in DOMAIN v : market[t].fallen}),
   filled   |-> [t \in DOMAIN v |-> IF kind = "split_fill_lock"
                                    THEN Filled(v, market, t, family) ELSE t],
   quoted   |-> IF kind \in Live THEN DOMAIN market \union others ELSE Tickers,
   weak     |-> weak /\ kind = "runner_reversal"]

\* The sessions each strategy may meet.
View == [kind \in Strategies |->
           {Seen(kind, sleeve, market, family, weak, others) :
              sleeve \in Sleeves, market \in Market, family \in Families, weak \in BOOLEAN,
              others \in SUBSET Tickers}]
=============================================================================
