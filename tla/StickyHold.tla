----------------------------- MODULE StickyHold -----------------------------
(***************************************************************************)
(* The sticky strategies: `StickyLeaderModel.score` holds one ticker at a   *)
(* time, chosen by the market's sleeve, and keeps it by a minimum holding   *)
(* time and a minimum gap.  The backtest runs one long-lived model whose    *)
(* trackers follow what the portfolio really holds; `decide` builds a new   *)
(* model every session and restores it from the sticky ledger.              *)
(*                                                                          *)
(* A session is decided at its close and executed at the next open.  Scores *)
(* and capital are small integers; a view is what StickyMarket leaves of    *)
(* the snapshot for the one route that the session takes.                   *)
(***************************************************************************)
EXTENDS StickyMarket

CONSTANTS
  MinHold,    \* min_hold
  MinGap,     \* min_gap
  Horizon,    \* sessions named by runner_mom_col
  StopNum, StopDen, \* inactive_stop_drawdown = StopNum / StopDen
  InitialCapital,
  MaxCapital, \* bound: values of the equity
  MaxSession  \* bound: sessions

Held == {Cash} \union Tickers

ASSUME ConfigAssumption ==
  /\ MinHold \in Nat /\ MinGap \in Nat /\ Horizon \in Nat \ {0}
  /\ StopNum \in Nat /\ StopDen \in Nat /\ StopNum < StopDen
  /\ MaxCapital \in Nat /\ MaxSession \in Nat
  /\ InitialCapital \in 1 .. MaxCapital

VARIABLES
  strategy,  \* the strategy of this run
  session,   \* sessions decided so far
  phase,     \* "decide" at a close, "execute" at the open after it
  portfolio, \* the heaviest position the backtest holds
  capital,   \* its equity
  model,     \* the backtest model's hold tracker: _held, _hold_len
  runner,    \* its runner tracker
  inactive,  \* its stop tracker of INACTIVE participation
  wanted,    \* what the backtest decided
  ledger,    \* the live ledger: what `decide` recorded last
  story      \* what really happened, for the properties only

vars == <<strategy, session, phase, portfolio, capital, model, runner, inactive,
          wanted, ledger, story>>

-----------------------------------------------------------------------------
(* Choosing among scores *)

\* TOP1 of the scores, CASH when there are none.
Top1(v) == IF DOMAIN v = {} THEN Cash ELSE Leader(v)

\* The held ticker is less than min_gap behind the leader.
InGap(v, held) == v[held] + MinGap >= v[Leader(v)]

\* apply_sticky_leader keeps the held ticker, whose score it lifts above the top.
Stays(v, held, len) == held \in DOMAIN v /\ (len < MinHold \/ InGap(v, held))

\* apply_sticky_leader, then apply_abs_mom_cash on the lifted scores: a held
\* leader at zero momentum is kept, a new one is not bought.
Mom60(v, held, len) ==
  CASE DOMAIN v = {}        -> Cash
    [] Stays(v, held, len)  -> IF v[Leader(v)] < 0 THEN Cash ELSE held
    [] OTHER                -> IF v[Leader(v)] <= 0 THEN Cash ELSE Leader(v)

\* mom60_hold: without abs_mom_cash; apply_same_leader_hold turns a held leader
\* into a HOLD, which keeps the same ticker.
Sticky(v, held, len) ==
  CASE DOMAIN v = {}       -> Cash
    [] Stays(v, held, len) -> held
    [] OTHER               -> Leader(v)

\* apply_impulse_switch: the best challenger that surges while the held ticker
\* does not is put just above the held one, wherever it was before.
Rivals(view, held) ==
  IF held \in DOMAIN view.scores /\ held \notin view.surge
  THEN DOMAIN view.scores \intersect view.surge ELSE {}

Switched(v, held, rival) ==
  [t \in DOMAIN v |-> IF t = rival THEN 2 * v[held] + 1 ELSE 2 * v[t]]

\* The overlays in their order: impulse, then apply_crash_cash on what is held.
Overlaid(view, held, len) ==
  LET v     == view.scores
      rival == Leader(Within(v, Rivals(view, held))) IN
  CASE held \in DOMAIN v /\ held \in view.fallen -> Cash
    [] Rivals(view, held) # {} /\ held \notin view.fallen ->
         IF Stays(v, held, len) THEN rival ELSE Leader(Switched(v, held, rival))
    [] OTHER -> Sticky(v, held, len)

\* post_crash_anchor_scores: v scores what is not stopped; a held anchor is kept.
\* The capacity filter comes after the choice: there is no second one.
Anchor(v, held, illiquid) ==
  LET eligible == Within(v, Anchors)
      choice   == IF held \in DOMAIN eligible THEN held ELSE Top1(eligible) IN
  IF choice \in illiquid THEN Cash ELSE choice

-----------------------------------------------------------------------------
(* StickyLeaderModel.score *)

\* resolve_attack_sleeve
Route(sleeve, held) ==
  CASE sleeve = "LOTTERY_ON" -> "MOM60"
    [] sleeve = "CRASH_REBOUND" ->
         IF strategy = "post_crash_anchor" THEN "ANCHOR" ELSE "REBOUND"
    [] sleeve = "INACTIVE" /\ strategy = "post_crash_anchor" /\ held \in Anchors -> "ANCHOR"
    [] sleeve = "INACTIVE" /\ strategy = "inactive_participate" -> "PARTICIPATE"
    [] OTHER -> "CASH"

\* Variants named Bad... are faulty versions of the definition after them.
BadTracked(m, held) ==
  IF held = Cash THEN [held |-> Cash, len |-> 0] ELSE [held |-> held, len |-> m.len + 1]

\* The hold tracker, brought up to date with the held ticker.
Tracked(m, held) ==
  IF held # m.held THEN [held |-> held, len |-> IF held = Cash THEN 0 ELSE 1]
  ELSE IF held # Cash THEN [m EXCEPT !.len = @ + 1] ELSE m

Larger(a, b) == IF a < b THEN b ELSE a

NoRunner == [ticker |-> Cash, entry |-> 0, peak |-> 0, sessions |-> 0, armed |-> FALSE]

BadRunner(r, held, cap) ==
  IF held = Cash THEN [r EXCEPT !.armed = FALSE]
  ELSE IF r.ticker = Cash
    THEN [ticker |-> held, entry |-> cap, peak |-> cap, sessions |-> 1, armed |-> FALSE]
  ELSE LET peak == Larger(r.peak, cap) IN
       [r EXCEPT !.peak = peak, !.sessions = @ + 1,
                 !.armed = r.sessions + 1 >= Horizon /\ peak > r.entry]

\* The runner tracker: armed once a holding is old enough and has gained.
Runner(r, held, cap) ==
  IF held = Cash THEN NoRunner
  ELSE IF r.ticker # held
    THEN [ticker |-> held, entry |-> cap, peak |-> cap, sessions |-> 1, armed |-> FALSE]
  ELSE LET peak == Larger(r.peak, cap) IN
       [r EXCEPT !.peak = peak, !.sessions = @ + 1,
                 !.armed = r.sessions + 1 >= Horizon /\ peak > r.entry]

\* Its gain is being given back and the momentum has turned.
RunnerExits(r, cap, weak) == r.armed /\ cap < r.peak /\ weak

\* No peak yet is 0.
NoStop == [peak |-> 0, stopped |-> FALSE]

Fallen(peak, cap) == peak > 0 /\ cap * StopDen <= peak * (StopDen - StopNum)

BadInactive(i, held, cap) ==
  LET peak == IF held = Cash THEN cap
              ELSE IF i.peak > 0 THEN Larger(i.peak, cap) ELSE 0 IN
  [peak |-> peak, stopped |-> Fallen(peak, cap)]

\* The stop of INACTIVE participation: it latches until reset_trackers.
Inactive(i, held, cap) ==
  LET peak == IF held = Cash /\ ~ i.stopped THEN cap
              ELSE IF i.peak > 0 THEN Larger(i.peak, cap) ELSE 0 IN
  [peak |-> peak, stopped |-> i.stopped \/ Fallen(peak, cap)]

\* What the session's route picks, given the trackers of this session.
Routed(view, held, len, stopped) ==
  LET route == Route(view.sleeve, held) IN
  CASE route = "MOM60" /\ strategy \in Surging     -> Overlaid(view, held, len)
    [] route = "MOM60" /\ strategy = "mom60_hold"   -> Sticky(view.scores, held, len)
    [] route = "MOM60" /\ strategy \notin Surging \union {"mom60_hold"} ->
         Mom60(view.scores, held, len)
    [] route = "ANCHOR"  -> Anchor(view.scores, held, view.illiquid)
    [] route = "REBOUND" -> Top1(view.scores)
    [] route = "PARTICIPATE" /\ ~ stopped -> Top1(view.scores)
    [] OTHER -> Cash

-----------------------------------------------------------------------------
(* One session: the decision at its close, the order at the next open *)

Fresh == [age |-> 0, entry |-> 0, top |-> 0]

Init ==
  /\ strategy \in Strategies
  /\ session = 0 /\ phase = "decide"
  /\ portfolio = Cash /\ capital = InitialCapital
  /\ model = [held |-> Cash, len |-> 0] /\ runner = NoRunner /\ inactive = NoStop
  /\ wanted = Cash /\ ledger = [held |-> Cash, len |-> 0, asOf |-> 0]
  /\ story = [streak |-> Fresh, rule |-> "NONE", base |-> 0, seen |-> {}]

BadNextHoldLen(prior, new) == IF new = Cash THEN 0 ELSE prior.len + 1

NextHoldLen(prior, new) ==
  CASE new = Cash                     -> 0
    [] new # Cash /\ new = prior.held -> prior.len + 1
    [] OTHER                          -> 1

\* `decide` restores a new model from the ledger, and score() advances it.
LiveLen          == ledger.len + 1
LiveChoice(view) == Routed(view, ledger.held, LiveLen, FALSE)

\* The live caps: an order takes at most a share of the ADV and none without ADV, so
\* a switch may leave the old ticker the heaviest, or sell it and buy nothing.  A
\* choice of CASH is not capped.
LiveHeld(choice) ==
  IF strategy \notin Live \/ ledger.asOf # session \/ choice \in {Cash, ledger.held} THEN {choice}
  ELSE {choice, ledger.held, Cash}

\* What becomes the heaviest position when the order for a choice is filled.  The
\* split allocator may fill the residual's ticker better than the leader, and
\* with nothing to fill its empty weights keep what is held.
Ordered(view, choice) ==
  CASE strategy # "split_fill_lock" \/ choice = Cash -> choice
    [] strategy = "split_fill_lock" /\ choice # Cash ->
         IF view.filled[choice] = Cash THEN portfolio ELSE view.filled[choice]

\* The live limits look up the names of the tickers, the held one's too, in the
\* rows of the decision date, unless the model wants CASH.
Named(view, choice) == choice = Cash \/ ledger.held \in view.quoted \union {Cash}

\* persist_sticky_state, by the strategies that `decide` runs.  Without a name, or
\* without the entry of the prior session, `decide` fails and records nothing.
Persist(view, choice, new) ==
  ledger' = IF strategy \in Live /\ ledger.asOf = session /\ Named(view, choice)
            THEN [held |-> new, len |-> NextHoldLen(ledger, new), asOf |-> session + 1]
            ELSE ledger

\* The scored sessions of the present holding, with the equity at its first one
\* and the highest since.
Longer(streak) ==
  IF portfolio = Cash THEN Fresh
  ELSE [age   |-> streak.age + 1,
        entry |-> IF streak.age = 0 THEN capital ELSE streak.entry,
        top   |-> IF streak.age = 0 THEN capital ELSE Larger(streak.top, capital)]

\* What decided the session.  KEEP: the momentum route, the held ticker still a
\* candidate, the market's momentum not negative, no overlay at work, and the allocator
\* able to fill the held ticker.
Rule(view, exits) ==
  LET route == Route(view.sleeve, portfolio) IN
  CASE exits -> "RUNNER"
    [] /\ ~ exits /\ route = "MOM60"
       /\ portfolio \in DOMAIN view.scores /\ view.scores[Leader(view.scores)] >= 0
       /\ strategy \in Surging => Rivals(view, portfolio) = {} /\ portfolio \notin view.fallen
       /\ Ordered(view, portfolio) = portfolio
         -> "KEEP"
    [] OTHER -> route

\* What the session adds to the story, m being the backtest's hold tracker.  Live and
\* backtest part over a challenger at the last close that the lock covers, a switch
\* the caps cut short, a held ticker without a row that `decide` needs, or (Execute) an
\* order that is not filled.  In INACTIVE sessions: the equity of a rest in cash, and a
\* fall by the stop below it.
Told(view, m, rule, new) ==
  LET base == IF view.sleeve = "INACTIVE" /\ portfolio = Cash THEN capital ELSE story.base IN
  [streak |-> Longer(story.streak),
   rule   |-> rule,
   base   |-> base,
   seen   |-> story.seen
     \union {x \in {"parted"} :
               \/ rule = "KEEP" /\ m.len = MinHold - 1 /\ ~ InGap(view.scores, portfolio)
               \/ new # LiveChoice(view)
               \/ ~ Named(view, LiveChoice(view))}
     \union {x \in {"ruined"} : view.sleeve = "INACTIVE" /\ Fallen(base, capital)}]

\* The capacity filter leaves no score: score() returns before any tracker.
DecideThin(view) ==
  /\ phase = "decide" /\ session < MaxSession
  /\ view.thin
  /\ wanted' = Cash /\ Persist(view, Cash, Cash)
  /\ session' = session + 1 /\ phase' = "execute"
  /\ story' = [story EXCEPT !.rule = "THIN"]
  /\ UNCHANGED <<strategy, portfolio, capital, model, runner, inactive>>

DecideScored(view, new) ==
  LET m == Tracked(model, portfolio)
      r == IF strategy = "runner_reversal" THEN Runner(runner, portfolio, capital) ELSE runner
      i == IF strategy = "inactive_participate" /\ view.sleeve = "INACTIVE"
             THEN Inactive(inactive, portfolio, capital) ELSE inactive
      exits == strategy = "runner_reversal" /\ portfolio # Cash /\ RunnerExits(r, capital, view.weak)
  IN
  /\ phase = "decide" /\ session < MaxSession
  /\ ~ view.thin
  /\ model' = m /\ runner' = r /\ inactive' = i
  /\ wanted' = IF exits THEN Cash ELSE Ordered(view, Routed(view, portfolio, m.len, i.stopped))
  /\ Persist(view, LiveChoice(view), new)
  /\ session' = session + 1 /\ phase' = "execute"
  /\ story' = Told(view, m, Rule(view, exits), new)
  /\ UNCHANGED <<strategy, portfolio, capital>>

\* At the open the order is filled or not, and the equity moves with what is held.
Execute(filled) ==
  /\ phase = "execute" /\ phase' = "decide"
  /\ portfolio' = IF filled THEN wanted ELSE portfolio
  /\ capital' \in IF portfolio = Cash /\ portfolio' = Cash THEN {capital}
                  ELSE (capital - 1 .. capital + 1) \intersect (1 .. MaxCapital)
  /\ story' = [story EXCEPT !.streak = IF portfolio' = portfolio THEN @ ELSE Fresh,
                            !.seen = @ \union {x \in {"parted"} : portfolio' # wanted}]
  /\ UNCHANGED <<strategy, session, model, runner, inactive, wanted, ledger>>

Next ==
  \/ \E view \in View[strategy] : DecideThin(view) \/ \E new \in LiveHeld(LiveChoice(view)) : DecideScored(view, new)
  \/ \E filled \in BOOLEAN : Execute(filled)

Spec == Init /\ [][Next]_vars

-----------------------------------------------------------------------------
(* Properties *)

\* Every tracker has its shape, and nothing is counted for CASH: a stopped or
\* forgotten holding leaves no length behind in the model or in the ledger.
TypeOK ==
  /\ strategy \in Strategies /\ session \in 0 .. MaxSession /\ phase \in {"decide", "execute"}
  /\ portfolio \in Held /\ wanted \in Held /\ capital \in 1 .. MaxCapital
  /\ model \in [held : Held, len : Nat]
  /\ ledger \in [held : Held, len : Nat, asOf : 0 .. MaxSession]
  /\ \A h \in {model, ledger} : h.held = Cash <=> h.len = 0
  /\ runner \in [ticker : Held, entry : 0 .. MaxCapital, peak : 0 .. MaxCapital, sessions : Nat,
                  armed : BOOLEAN]
  /\ inactive \in [peak : 0 .. MaxCapital, stopped : BOOLEAN]

\* A ticker bought is kept on the momentum route until the model has seen it at
\* MinHold closes, however the orders before it were filled, unless the whole
\* market's momentum is negative or the ticker is no longer a candidate.
MinHoldKept ==
  phase = "execute" /\ story.rule = "KEEP" /\ wanted # portfolio
    => story.streak.age >= MinHold

\* The runner exit sells a holding only after Horizon closes of that very
\* holding, and only below a gain that this holding has made.
RunnerConfirmed ==
  phase = "execute" /\ story.rule = "RUNNER" =>
    /\ story.streak.age >= Horizon
    /\ story.streak.entry < story.streak.top /\ capital < story.streak.top

\* Once the equity has fallen by the stop below what it was when INACTIVE
\* participation last rested in cash, no INACTIVE session buys anything again.
StopIsFinal ==
  phase = "execute" /\ story.rule = "PARTICIPATE" /\ "ruined" \in story.seen => wanted = Cash

\* With every order filled and no live switch cut short, the new model that
\* `decide` restores each session decides what the backtest's long-lived model
\* decides and records it, as long as no session found a challenger beyond the gap
\* at the last close that the lock covers, or no row of the held ticker when the
\* model wanted one.
AgreesUntilContested ==
  strategy \in Live /\ "parted" \notin story.seen
    => ledger.held = wanted /\ ledger.asOf = session

=============================================================================
