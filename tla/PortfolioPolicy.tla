--------------------------- MODULE PortfolioPolicy ---------------------------
(* The path-dependent portfolio policy and the loop that feeds it             *)
(* (portfolio/policy_core.py, policy_tail.py, state.py, intent.py; the calls  *)
(* in backtest/engine_runner.py and tournament/simulator_windows.py).  Each   *)
(* session: the pending intent is executed at the open, as far as the market  *)
(* lets it (Execute); the model scores the close (Score); allocate turns the  *)
(* scores into the next intent (Allocate), updating the trackers, the peaks   *)
(* and the convexity reference it keeps for the whole run.                    *)
(*                                                                            *)
(* Prices move no weight between two executions, the aggression multiplier    *)
(* no builder sets is left out, and a tracker counts its sessions outside no  *)
(* further than Cooldown, beyond which they tell nothing apart.               *)
EXTENDS VehicleRouter

CONSTANTS
  Sessions,     \* what a session may bring: [scores, themes, gate, adv]
  Overlays,     \* the overlay sets a model may be built with
  MinDelta,     \* min_rebalance_delta
  RankLimit,    \* infer_theme_proxy's k: 3
  MaxBlocked,   \* orders of one open that may fail to fill
  Cooldown,     \* PositionTracker.cooldown: 3
  NoAdv,        \* adv is not passed
  None          \* no session's inputs are pending

ASSUME PolicyAssumption ==
  /\ MinDelta \in Nat /\ Cooldown \in Nat \ {0} /\ None \notin Sessions
  /\ \A m \in Sessions :
       /\ DOMAIN m.scores \subseteq Tickers /\ m.scores \in [DOMAIN m.scores -> Int]
       /\ m.adv # NoAdv => \A t \in DOMAIN m.adv.caps : m.adv.caps[t] \in Nat

VARIABLES
  overlays,     \* lottery_config and convexity_config
  trackers,     \* _trackers: instrument -> [state, since]
  peaks,        \* _peaks: instrument -> its highest score
  entry,        \* _convexity_entry_key and _score
  held,         \* the book's positive weights
  intent,       \* [kind, weights], kind "hold" or "target"
  market        \* this session's inputs, None between two sessions

vars == <<overlays, trackers, peaks, entry, held, intent, market>>

NoEntry == [key |-> "none", score |-> 0]
Empty == [t \in {} |-> 0]
Hold == [kind |-> "hold", weights |-> Empty]
Out == {"EXIT", "WATCH"}

NewTracker == [state |-> "HOLD", since |-> 0]

(* For mutation: the cooldown is one session short.                           *)
BadTransition(tr, theme) ==
  LET inside(st)     == [state |-> st, since |-> 0]
      outside(st, n) == [state |-> st, since |-> n]
  IN  CASE tr.state \in Out ->
             IF tr.since + 1 >= Cooldown /\ theme = "RECOVERY" THEN inside("RE_ENTER")
             ELSE outside("WATCH", Min({tr.since + 1, Cooldown}))
        [] tr.state \in {"HOLD", "TRIM"} /\ theme = "BREAKDOWN" -> outside("EXIT", 1)
        [] OTHER -> inside("HOLD")

(* transition_position and the counting of PositionTracker.transition.        *)
Transition(tr, theme) ==
  LET outside(st, n) == [state |-> st, since |-> n]
      inside(st)     == [state |-> st, since |-> 0]
  IN  CASE tr.state \in Out ->
             IF tr.since >= Cooldown /\ theme = "RECOVERY" THEN inside("RE_ENTER")
             ELSE outside("WATCH", Min({tr.since + 1, Cooldown}))
        [] tr.state \in {"HOLD", "TRIM"} /\ theme = "BREAKDOWN"  -> outside("EXIT", 1)
        [] tr.state \in {"HOLD", "TRIM"} /\ theme = "OVERHEATED" -> inside("TRIM")
        [] tr.state \in {"HOLD", "TRIM"} /\ theme \in {"LEADING", "RECOVERY"} -> inside("HOLD")
        [] tr.state = "RE_ENTER" -> inside("HOLD")
        [] OTHER -> inside(tr.state)

(* A score that has lost 30 % of its peak; a missing score counts as 0.       *)
Fallen(score, peak) == peak # 0 /\ 10 * score <= 7 * peak

(* infer_theme_proxy for instrument x, peak a set with at most one value.     *)
ThemeProxy(x, s, peak, state) ==
  LET score == IF x \in DOMAIN s THEN s[x] ELSE 0
      rank  == IF x \in DOMAIN s THEN RankIn(s, x) ELSE 0
  IN  IF \E p \in peak : Fallen(score, p) THEN "BREAKDOWN"
      ELSE IF state \in Out /\ rank \in 1..RankLimit /\ score > 0 THEN "RECOVERY"
      ELSE IF rank > RankLimit THEN "BREAKDOWN"
      ELSE IF rank = 1 /\ 2 * Gap(s) < 1 THEN "OVERHEATED"
      ELSE "LEADING"

PeakOf(pk, t) == {pk[u] : u \in DOMAIN pk \cap {t}}

(* The theme of a vehicle: given explicitly, for it or for its source, or     *)
(* inferred from the source's score and the vehicle's own peak, its source's  *)
(* where it has none.                                                         *)
ThemeOf(t, route, s, pk, themes, state) ==
  LET sources == {x \in DOMAIN route : route[x] = t}
      src     == IF sources = {} THEN t ELSE First(sources)
  IN  IF t \in DOMAIN themes THEN themes[t]
      ELSE IF src \in DOMAIN themes THEN themes[src]
      ELSE ThemeProxy(src, s, IF PeakOf(pk, t) # {} THEN PeakOf(pk, t) ELSE PeakOf(pk, src),
                      state)

(* An unlisted tracker is looked up by its own ticker alone.                  *)
OrphanTheme(t, s, pk, themes, state) ==
  IF t \in DOMAIN themes THEN themes[t] ELSE ThemeProxy(t, s, PeakOf(pk, t), state)

(* self._peaks after the scores that passed the selection.                    *)
PeaksAfter(pk, s) ==
  [t \in DOMAIN pk \cup DOMAIN s |->
     Max(PeakOf(pk, t) \cup {s[u] : u \in DOMAIN s \cap {t}})]

(* apply_state_multipliers; an active overlay turns TRIM into HOLD.           *)
Multiplied(w, tr, overlay) ==
  [t \in DOMAIN w |->
     CASE tr[t].state \in Out -> 0
       [] tr[t].state = "TRIM" /\ ~overlay -> w[t] \div 2
       [] OTHER -> w[t]]

-----------------------------------------------------------------------------
(* The trackers after the state pass: every candidate's moves, and every      *)
(* other tracker there is.                                                    *)
TrackersMoved(listed, route, s, pk, themes) ==
  LET tracker(t) == IF t \in DOMAIN trackers THEN trackers[t] ELSE NewTracker
  IN  [t \in listed \cup DOMAIN trackers |->
         LET st == tracker(t).state
         IN  Transition(tracker(t), IF t \in listed THEN ThemeOf(t, route, s, pk, themes, st)
                                    ELSE OrphanTheme(t, s, pk, themes, st))]

(* A demoted weight takes its tracker along, over the one it finds.           *)
TrackersDemoted(tr, to) ==
  LET moved == {t \in DOMAIN to : to[t] # t}
      from(t) == {u \in moved : to[u] = t}
  IN  [t \in (DOMAIN tr \ moved) \cup {to[u] : u \in moved} |->
         IF from(t) # {} THEN tr[First(from(t))] ELSE tr[t]]

ConvexityStops(m, top) ==
  ConvexityActive(overlays, m.gate) /\ ConvexityExit(top, entry.score)

Lottery(m) == LotteryActive(overlays, m.gate)

Convex(m) ==
  LET s == SelectPositions(m.scores)
  IN  ConvexityActive(overlays, m.gate) /\ ~ConvexityStops(m, s[Leader(s)])

(* The caps bind outside the convexity overlay only, and only where adv is    *)
(* passed; an overlay has its own gross limit.                                *)
CapsOf(m) == IF m.adv = NoAdv \/ Convex(m) THEN Empty ELSE m.adv.caps
LimitOf(m) == IF Lottery(m) \/ Convex(m) THEN OverlayGross ELSE MaxGross

(* The arbitration of the overlays, and the plain sizing where none is on.    *)
Sized(s, m, overlay) ==
  IF overlay THEN OverlayWeights(s) ELSE SizedWeights(s, m.themes, m.gate.regime)

(* The confidence gate on vehicles, which the lottery overlay suppresses.     *)
VehiclesDoubted(m, lottery) == ~lottery /\ ConfidenceLow(m.scores)

(* The vehicle of every weight: by convexity, by capacity where adv is        *)
(* passed, by the pick where it is not.                                       *)
Routes(sized, m, doubted, convexity) ==
  [t \in DOMAIN sized |->
     CASE convexity -> ConvexityVehicle(t, m.gate)
       [] ~convexity /\ m.adv = NoAdv -> PickVehicle(t, m.gate, doubted)
       [] ~convexity /\ m.adv # NoAdv -> CapacityRoute(t, m.gate, doubted, m.adv.caps, held)]

(* The multiple recorded for every vehicle: by capacity the route's, of the   *)
(* last of its sources.                                                       *)
Counted(route, s, m, doubted, convexity) ==
  LET sources(v) == {t \in DOMAIN route : route[t] = v}
      last(v) == CHOOSE t \in sources(v) : \A u \in sources(v) : RankIn(s, u) <= RankIn(s, t)
  IN  [v \in {route[t] : t \in DOMAIN route} |->
         IF convexity \/ m.adv = NoAdv THEN Multiple[v]
         ELSE RouteMultiple(last(v), m.gate, doubted, m.adv.caps, held)]

(* What the state pass leaves of the weights.                                 *)
Staged(w, tr, overlay) == WithinBook(Multiplied(w, tr, overlay))

(* After the demotion: the liquidity caps, then the gross exposure.           *)
Capped(w, caps, counted, limit) == GrossCapped(LiquidityCapped(w, caps), counted, limit)

(* The band leaves small changes undone; the book is full at Unit.            *)
Traded(w) == WithinBook(RebalanceBand(w, held, MinDelta))

(* One call of allocate on market m.                                          *)
Outcome(m) ==
  LET s         == SelectPositions(m.scores)
      leader    == Leader(s)
      stops     == ConvexityStops(m, s[leader])
      convexity == Convex(m)
      overlay   == Lottery(m) \/ convexity
      sized     == Sized(s, m, overlay)
      doubted   == VehiclesDoubted(m, Lottery(m))
      route     == Routes(sized, m, doubted, convexity)
      vehicles  == OnePerFamily(OnVehicles(sized, route))
      pk        == PeaksAfter(peaks, s)
      moved     == TrackersMoved(DOMAIN vehicles, route, s, pk, m.themes)
      staged    == Staged(vehicles, moved, overlay)
      caps      == CapsOf(m)
      demotion  == Demotion(staged, caps)
      counted   == Recounted(Counted(route, s, m, doubted, convexity), demotion)
  IN  [trackers |-> TrackersDemoted(moved, demotion),
       peaks    |-> pk,
       entry    |-> IF stops THEN NoEntry
                    ELSE IF convexity /\ entry.key # leader
                    THEN [key |-> leader, score |-> s[leader]] ELSE entry,
       weights  |-> Traded(Capped(OnVehicles(staged, demotion), caps, counted, LimitOf(m)))]

(* resolve_portfolio_intent: no weights, no change.                           *)
IntentOf(w) == IF w = Empty THEN Hold ELSE [kind |-> "target", weights |-> w]

-----------------------------------------------------------------------------
Init ==
  /\ overlays \in Overlays
  /\ trackers = Empty
  /\ peaks = Empty
  /\ entry = NoEntry
  /\ held = Empty
  /\ intent = Hold
  /\ market = None

(* The open: an instrument the target does not list is sold.  Up to           *)
(* MaxBlocked orders do not fill; a buy the unsold rest leaves no cash for    *)
(* does not either; and a session without prices trades nothing.              *)
Fills(w) ==
  LET traded   == {t \in DOMAIN w \cup DOMAIN held : Weight(w, t) # Weight(held, t)}
      after(B) == LET book(t) == Weight(IF t \in B THEN held ELSE w, t)
                  IN  [t \in {u \in DOMAIN w \cup DOMAIN held : book(u) > 0} |-> book(t)]
  IN  {held} \cup
      {after(B) : B \in {G \in SUBSET traded :
                           Cardinality(G) <= MaxBlocked /\ Total(after(G)) <= Unit}}

(* The open and the scores of the close.  A failed score is an empty one.     *)
Score ==
  /\ market = None
  /\ held' \in IF intent.kind = "hold" THEN {held} ELSE Fills(intent.weights)
  /\ market' \in Sessions
  /\ intent' = Hold
  /\ UNCHANGED <<overlays, trackers, peaks, entry>>

AllocateNothing ==
  /\ market # None
  /\ market.scores = Empty
  /\ intent' = Hold
  /\ market' = None
  /\ UNCHANGED <<overlays, trackers, peaks, entry, held>>

Allocate ==
  /\ market # None
  /\ market.scores # Empty
  /\ LET o == Outcome(market)
     IN  /\ trackers' = o.trackers
         /\ peaks' = o.peaks
         /\ entry' = o.entry
         /\ intent' = IntentOf(o.weights)
  /\ market' = None
  /\ UNCHANGED <<overlays, held>>

Next == Score \/ AllocateNothing \/ Allocate

Spec == Init /\ [][Next]_vars

-----------------------------------------------------------------------------
TypeOK ==
  /\ overlays \in Overlays
  /\ \E S \in SUBSET Tickers :
       trackers \in [S -> [state : {"HOLD", "TRIM", "EXIT", "WATCH", "RE_ENTER"},
                          since : 0..Cooldown]]
  /\ \A t \in DOMAIN trackers : (trackers[t].since > 0) <=> (trackers[t].state \in Out)
  /\ DOMAIN peaks \subseteq Tickers
  /\ entry.key \in Tickers \cup {"none"}
  /\ DOMAIN held \subseteq Tickers /\ \A t \in DOMAIN held : held[t] \in 1..Unit
  /\ Total(held) <= Unit
  /\ intent.kind \in {"hold", "target"}
  /\ (intent.kind = "target") <=> (intent.weights # Empty)
  /\ DOMAIN intent.weights \subseteq Tickers
  /\ \A t \in DOMAIN intent.weights : intent.weights[t] \in 0..Unit
  /\ Total(intent.weights) <= Unit

(* A product of a family without a +1x one may stand in for it, and then      *)
(* counts once, whatever its leverage.                                        *)
Leverage == [t \in Tickers |-> IF WithMultiple(Family[t], 1) = {} THEN 1 ELSE Multiple[t]]

(* What an intent trades respects the caps: a weight over its liquidity cap   *)
(* is what is left of a holding, never a purchase, and the gross exceeds its  *)
(* limit by no more than the band let stand of holdings, families that have   *)
(* no +1x product being counted once.                                         *)
CapsOnTrades ==
  [][market # None /\ intent'.kind = "target" =>
       LET w == intent'.weights
           caps == CapsOf(market)
           kept == {t \in DOMAIN w : w[t] <= Weight(held, t)}
       IN  /\ \A t \in DOMAIN w \cap DOMAIN caps : w[t] > caps[t] => t \in kept
           /\ GrossBy(w, Leverage)
                <= LimitOf(market) + MinDelta * GrossBy([t \in kept |-> 1], Leverage)]_vars

(* The convexity overlay buys a +2x product by permission alone; otherwise    *)
(* regime and permission must be there and, where adv is passed, the capacity *)
(* for what is missing to a full position.                                    *)
MayEnter(t, m) ==
  /\ m.gate.leverage = "allowed"
  /\ \/ "convexity" \in overlays /\ m.gate.regime # Crisis
     \/ m.gate.regime \in RiskOn /\ (m.adv # NoAdv => Fillable(t, m.adv.caps, held))

(* A holding takes the weight of its family when the market does not take it  *)
(* back, or does not sell enough of the +1x product.                          *)
NoWayOut(t, m) ==
  /\ t \in DOMAIN held /\ m.adv # NoAdv
  /\ \/ CannotUnwind(t, m.adv.caps, held)
     \/ ~Fillable(First(WithMultiple(Family[t], 1)), m.adv.caps, held)

(* A leveraged product, of a family that has a plain one, is bought or kept   *)
(* only where regime, rules and capacity permit it, or where it is held and   *)
(* capacity bars the way out of it into the plain one.                        *)
NoUngatedEntry ==
  [][market # None =>
       \A t \in DOMAIN intent'.weights :
          Multiple[t] = 2 /\ WithMultiple(Family[t], 1) # {}
          => MayEnter(t, market) \/ NoWayOut(t, market)]_vars

(* Out of the book, an instrument comes back on a recovery after Cooldown     *)
(* sessions, or as the product a heavier vehicle of its family is demoted to. *)
ReEntryIsEarned ==
  [][market # None =>
       \A t \in DOMAIN trackers \cap DOMAIN intent'.weights :
          trackers[t].state \in Out =>
             \/ trackers[t].since >= Cooldown /\ trackers'[t].state = "RE_ENTER"
             \/ \E u \in Members(Family[t]) \ {t} :
                  t = PlusOne(Family[t]) /\ u \notin DOMAIN trackers']_vars

=============================================================================
