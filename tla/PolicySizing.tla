---------------------------- MODULE PolicySizing ----------------------------
(* Which instruments the portfolio policy takes from a session's scores and   *)
(* how much of the book each gets: family and theme deduplication             *)
(* (portfolio/selection.py), confidence sizing, tail concentration, the       *)
(* lottery and convexity overlays (portfolio/sizing.py, convexity.py), the    *)
(* liquidity and gross caps and the rebalance band (constraints.py).          *)
(*                                                                            *)
(* Scores are integers counted in units of c0, the leader's margin at which   *)
(* the logistic of confidence_weights is half way; one unit from there it is  *)
(* flat but for a residue the other names share.  Weights are integers, Unit of them are the whole book;  *)
(* a scaled weight is rounded down to a unit.  A score map is a function on   *)
(* the instruments that were scored.                                          *)
EXTENDS Integers, FiniteSets, Functions, FiniteSetsExt

CONSTANTS
  Tickers, Family, Theme, Multiple,  \* the instrument master
  Order,                             \* its listing order, which settles ties
  Doubtful,                          \* instruments whose attributes have LOW confidence
  MaxPerTheme, MaxPerFamily,         \* select_positions: 2 and 1
  SizedNames,                        \* ConfidenceSizingConfig.k: 3
  Unit,                              \* weight units in the whole book
  MaxGross,                          \* max_gross_exposure in units: 1.60
  OverlayGross                       \* max_gross of the overlays: 2.0

ASSUME SizingAssumption ==
  /\ IsFiniteSet(Tickers) /\ Order \in [Tickers -> Nat] /\ Multiple \in [Tickers -> Nat \ {0}]
  /\ {MaxPerTheme, MaxPerFamily, SizedNames} \subseteq Nat \ {0}
  /\ {Unit, MaxGross, OverlayGross} \subseteq Nat

RiskOn == {"RISK_ON", "STRONG_RISK_ON"}
Crisis == "STRONG_RISK_OFF"

First(S) == CHOOSE t \in S : \A u \in S : Order[t] <= Order[u]

Total(w) == SumFunction(w)

(* The gross exposure, each product counted by what multiple says of it.      *)
GrossBy(w, multiple) == SumFunction([t \in DOMAIN w |-> w[t] * multiple[t]])
Weight(w, t) == IF t \in DOMAIN w THEN w[t] ELSE 0

(* -------- selection -------- *)

Before(s, t, u) == s[t] > s[u] \/ (s[t] = s[u] /\ Order[t] < Order[u])
RankIn(s, t) == 1 + Cardinality({u \in DOMAIN s : Before(s, u, t)})
Leader(s) == CHOOSE t \in DOMAIN s : RankIn(s, t) = 1
Gap(s) ==
  IF Cardinality(DOMAIN s) < 2 THEN 0
  ELSE s[Leader(s)] - Max({s[t] : t \in DOMAIN s \ {Leader(s)}})

(* select_positions: the best of each family, then the best of each theme.    *)
SelectPositions(s) ==
  LET better(S, key, t) == {u \in S : key[u] = key[t] /\ Before(s, u, t)}
      ofFamily == {t \in DOMAIN s :
                     Cardinality(better(DOMAIN s, Family, t)) < MaxPerFamily}
  IN  Restrict(s, {t \in ofFamily :
                     Cardinality(better(ofFamily, Theme, t)) < MaxPerTheme})

(* -------- sizing -------- *)

WTop(gap) ==
  CASE gap = 0 -> Unit \div 3
    [] gap = 1 -> (2 * Unit) \div 3
    [] OTHER   -> Unit - Unit \div 250

(* The leader gets its confidence, the other names share what is left.        *)
ConfidenceWeights(s) ==
  LET names == {t \in DOMAIN s : RankIn(s, t) <= SizedNames}
      top   == WTop(Gap(s))
  IN  [t \in names |->
         IF t = Leader(s) THEN top
         ELSE (Unit - top) \div (Cardinality(names) - 1)]

(* tail_concentration_weights: a clear leader in a tradable theme takes all.  *)
SizedWeights(s, themes, regime) ==
  IF /\ regime \in RiskOn
     /\ Leader(s) \in DOMAIN themes
     /\ themes[Leader(s)] \in {"LEADING", "RECOVERY"}
     /\ Gap(s) >= 1
  THEN [t \in {Leader(s)} |-> Unit]
  ELSE ConfidenceWeights(s)

(* confidence_vehicle_gate: the sizing of the scores before selection is too  *)
(* weak for a leveraged vehicle (vehicle_conf_min 0.85).                      *)
ConfidenceLow(s) ==
  LET w == ConfidenceWeights(s)
  IN  100 * Max({w[t] : t \in DOMAIN w}) < 85 * Unit

(* -------- overlays -------- *)

LotteryActive(overlays, gate) ==
  "lottery" \in overlays /\ gate.leverage = "allowed" /\ gate.regime \in RiskOn

ConvexityActive(overlays, gate) ==
  "convexity" \in overlays /\ gate.leverage = "allowed" /\ gate.regime # Crisis

(* convexity_should_exit: the top score has lost 30 % of the entry score.     *)
ConvexityExit(top, entry) == entry > 0 /\ 10 * top <= 7 * entry

OverlayWeights(s) == [t \in {Leader(s)} |-> Unit]

(* -------- caps and band -------- *)

(* Known: adv gives each instrument's cap as a weight; one it does not list   *)
(* passes uncapped.                                                           *)
LiquidityCapped(w, adv) ==
  [t \in DOMAIN w |-> IF t \in DOMAIN adv /\ w[t] > adv[t] THEN adv[t] ELSE w[t]]

ScaledTo(w, limit, size) ==
  IF size <= limit THEN w ELSE [t \in DOMAIN w |-> (w[t] * limit) \div size]

(* For mutation: the cap forgets the leverage.                                *)
BadGrossCapped(w, multiple, limit) == ScaledTo(w, limit, Total(w))

GrossCapped(w, multiple, limit) == ScaledTo(w, limit, GrossBy(w, multiple))
WithinBook(w) == ScaledTo(w, Unit, Total(w))

Distance(a, b) == IF a > b THEN a - b ELSE b - a

(* rebalance_band: a resize smaller than the threshold is not traded; what is *)
(* left at zero is not listed at all.                                         *)
RebalanceBand(w, held, minDelta) ==
  LET banded(t) == IF /\ Weight(w, t) > 0 /\ Weight(held, t) > 0
                      /\ Distance(Weight(w, t), Weight(held, t)) < minDelta
                   THEN held[t] ELSE Weight(w, t)
      kept == {t \in DOMAIN w \cup DOMAIN held : banded(t) > 0}
  IN  [t \in kept |-> banded(t)]

=============================================================================
