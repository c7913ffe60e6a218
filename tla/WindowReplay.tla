----------------------------- MODULE WindowReplay -----------------------------
(***************************************************************************)
(* Three ways to replay the windows of a backtest with one model object:    *)
(*   "fast"    run_rolling from the session cache, window after window;     *)
(*   "slow"    run_rolling with an engine run of its own for each window;   *)
(*   "oneshot" oneshot_independent_window_returns for given start dates.    *)
(* A window starts from cash.  What was decided at the close of the session *)
(* before it, its eve, is executed at its first open.                       *)
(*                                                                          *)
(* Sessions are those of the calendar; the grid keeps the ones with rows in *)
(* the panel.  A portfolio is one product.  What a model remembers is the   *)
(* product it follows, for how many closes, up to Lock, and whether its     *)
(* equity once fell so far that it stays out.  A policy allocates, and is   *)
(* aided by the regime, the permissions and the volumes the caller passes.  *)
(***************************************************************************)
EXTENDS ConvexImpulse, FiniteSets, Sequences, FiniteSetsExt

CONSTANTS
  Products,
  LastSession,   \* config.end
  FirstSession,  \* config.start; rows before it are look-back
  Horizon, Lock,
  Asked,         \* the start dates of a oneshot, in their order
  Worlds         \* [kind, rows, tradable, eligible, best, failing, falls, shown]

ASSUME ReplayAssumption ==
  /\ LastSession \in Nat /\ FirstSession \in 1 .. LastSession
  /\ Horizon \in Nat \ {0} /\ Lock \in Nat /\ MinHold \in 0 .. Lock /\ MinGap \in Int
  /\ Asked \in Seq(Nat)
  /\ IsFiniteSet(Products) /\ None \notin Products

\* What the panel says of a product to the convex strategy.
Rows == [double : BOOLEAN, fills : BOOLEAN, surges : BOOLEAN, climbs : BOOLEAN,
         mom10 : Int, mom60 : Int, crashed : BOOLEAN]

Sessions == 1 .. LastSession

\* What allocate is told of a day: nothing by the cached replay on its eve, what the
\* cache holds on its sessions, what the engine builds in a run of its own.
Aids == {"none", "cache", "engine"}

ASSUME WorldAssumption ==
  \A w \in Worlds :
    /\ w = [kind |-> w.kind, rows |-> w.rows, tradable |-> w.tradable, eligible |-> w.eligible,
            best |-> w.best, failing |-> w.failing, falls |-> w.falls, shown |-> w.shown]
    /\ w.kind \in {"sticky", "fillable", "policy", "convex"}
    /\ w.rows \subseteq Sessions
    /\ w.tradable \in [Sessions -> SUBSET Products] /\ w.eligible \in [Sessions -> SUBSET Products]
    /\ w.best \in [Aids -> [Sessions -> Products]]
    /\ w.kind # "policy" => \A x, y \in Aids : w.best[x] = w.best[y]
    /\ w.kind = "convex" => w.shown \in [Sessions -> [Products -> Rows]]

VARIABLES
  world,
  tool,      \* which of the three is running
  next,      \* its windows done so far
  window,    \* the sessions of the window in progress that are left
  mem,       \* what the model object remembers
  held,      \* the portfolio: a product or nothing
  pending,   \* the intent for the next open
  trace,     \* what was held after each open of the window
  results,   \* [tool -> [start -> trace]] of the windows done
  pc

replayVars == <<world, tool, next, window, mem, held, pending, trace, results, pc>>

Tools    == {"fast", "slow", "oneshot"}
Fresh    == [leader |-> None, age |-> 0, stopped |-> FALSE]
Nothing  == [ticker |-> None]
Stay     == [kind |-> "hold", ticker |-> None]
Cash     == [kind |-> "cash", ticker |-> None]
Enter(t) == [kind |-> "target", ticker |-> t]

------------------------------------------------------------------------------
\* resolve_session_grid: calendar sessions without a row are dropped.
GridOf(w, from, to) == {d \in from .. to : d \in w.rows}
Grid == GridOf(world, FirstSession, LastSession)

Nth(S, i) == CHOOSE d \in S : Cardinality({e \in S : e <= d}) = i

\* A slice of the grid, cut off at its end, as the list slice of the code is.
Slice(S, from, count) ==
  LET size == Cardinality(S)
      to   == IF from + count - 1 < size THEN from + count - 1 ELSE size
  IN  [i \in 1 .. (IF to < from THEN 0 ELSE to - from + 1) |-> Nth(S, from + i - 1)]

\* What the model is shown of a day.  The cache shows a model that checks
\* what it can fill every tradable product, the engine the eligible ones.
ChecksFill(w) == w.kind \in {"fillable", "convex"}
CacheScored(w, d) == IF ChecksFill(w) THEN w.tradable[d] ELSE w.eligible[d]
EngineScored(w, d) == w.eligible[d]

ScoredOn(w, who, d) == IF who = "slow" THEN EngineScored(w, d) ELSE CacheScored(w, d)

\* The model's memory after it has seen what is held, and what it wants.
Remembered(w, m, h, d) ==
  LET stopped == m.stopped \/ (h.ticker # None /\ d \in w.falls)
  IN  IF h.ticker = None THEN [Fresh EXCEPT !.stopped = stopped]
      ELSE [leader  |-> h.ticker, stopped |-> stopped,
            age     |-> IF m.leader # h.ticker THEN 1 ELSE IF m.age < Lock THEN m.age + 1 ELSE Lock]

Preferred(w, m, h, shown, d, aid) ==
  IF h.ticker \in shown /\ m.age < Lock THEN h.ticker
  ELSE IF w.best[aid][d] \in shown THEN w.best[aid][d]
  ELSE CHOOSE t \in shown : TRUE

\* Scores that raise leave the model's trackers and the portfolio alone.  Of an
\* empty set of scores a policy is not asked to allocate; the sticky model counts
\* the close and answers with cash.
StickyWants(w, who, m, h, d, aid) ==
  LET shown == ScoredOn(w, who, d)
      m1    == Remembered(w, m, h, d)
  IN  IF d \in w.failing \/ (shown = {} /\ w.kind = "policy") THEN [mem |-> m, intent |-> Stay]
      ELSE [mem |-> m1, intent |-> IF m1.stopped \/ shown = {} THEN Cash
                                   ELSE Enter(Preferred(w, m1, h, shown, d, aid))]

\* The convex model answers for every day, with cash where it finds nothing;
\* of a day without affordable rows its trackers see nothing.
ConvexWants(w, who, m, h, d) ==
  LET m1    == Remembered([w EXCEPT !.falls = {}], m, h, d)
      rows  == [t \in ScoredOn(w, who, d) |-> w.shown[d][t]]
      score == ConvexScore(rows, m1.age, h.ticker)
  IN  IF d \in w.failing THEN [mem |-> m, intent |-> Stay]
      ELSE [mem |-> IF score.seen THEN m1 ELSE m,
            intent |-> IF score.wants = None THEN Cash ELSE Enter(score.wants)]

Wanted(w, who, m, h, d, aid) ==
  IF w.kind = "convex" THEN ConvexWants(w, who, m, h, d) ELSE StickyWants(w, who, m, h, d, aid)

\* On a session, what the cache holds or what the engine builds.
AidOf(who) == IF who = "slow" THEN "engine" ELSE "cache"

\* The eve: resolve_prestart_intent asks for the allocation without a regime, a
\* permission or a volume, bootstrap_prestart_intent as for any session.
CacheEve(w, m, d) == Wanted(w, "fast", m, Nothing, d, "none")
EngineEve(w, m, d) == Wanted(w, "slow", m, Nothing, d, "engine")

\* transition_portfolio_state for one product: without an open of what is held
\* nothing happens; a purchase that is not filled leaves cash.
Quoted(w, t, d) == t \in w.tradable[d]
Traded(w, h, intent, d) ==
  IF \/ intent.kind = "hold"
     \/ h.ticker # None /\ ~Quoted(w, h.ticker, d)
  THEN h
  ELSE IF Quoted(w, intent.ticker, d) THEN [ticker |-> intent.ticker]
  ELSE Nothing

------------------------------------------------------------------------------
ReplayInit ==
  /\ world \in Worlds
  /\ tool = "fast" /\ next = 0
  /\ window = <<>> /\ mem = Fresh /\ held = Nothing /\ pending = Stay /\ trace = <<>>
  /\ results = [t \in Tools |-> <<>>]
  /\ pc = "window"

\* The window whose turn it is: its name and the index of its first session,
\* 0 if it is skipped.  A rolling run takes every start in the grid; a oneshot
\* looks the start up in the calendar and counts there.
RollingStarts == Cardinality(Grid) - Horizon + 1
RollingWindow(i) == [start |-> Nth(Grid, i), index |-> i]

\* Mutant: the index of the calendar, counted from zero.
OneshotFromZero(i) ==
  LET index == Asked[i] - FirstSession
      fits  == index + Horizon <= LastSession - FirstSession + 1
  IN  [start |-> Asked[i], index |-> IF fits THEN index ELSE 0]

OneshotWindow(i) ==
  LET st    == Asked[i]
      index == st - FirstSession + 1
      fits  == st \in FirstSession .. LastSession /\ index - 1 + Horizon <= LastSession - FirstSession + 1
  IN  [start |-> st, index |-> IF fits THEN index ELSE 0]

WindowCount == IF tool = "oneshot" THEN Len(Asked) ELSE RollingStarts
WindowAt(i) == IF tool = "oneshot" THEN OneshotWindow(i) ELSE RollingWindow(i)

\* Mutant: the trackers are left as the previous window left them.
KeptTrackers(m) == m
\* reset_trackers, the first thing of a replay and of an engine run.
Reset(m) == Fresh

\* simulate_window_from_cache: its eve is the date before it in the cache.
CacheStart(index) ==
  LET eve == IF index > 1 /\ index <= Cardinality(Grid) + 1 THEN Nth(Grid, index - 1) ELSE 0
  IN  IF eve = 0 THEN [mem |-> Reset(mem), intent |-> Stay] ELSE CacheEve(world, Reset(mem), eve)

\* The calendar's previous session, if the panel has rows of it.
PreviousEve(w, start) == IF start - 1 \in w.rows THEN start - 1 ELSE 0

EngineStart(start) ==
  LET eve == PreviousEve(world, start)
  IN  IF eve = 0 THEN [mem |-> Reset(mem), intent |-> Stay] ELSE EngineEve(world, Reset(mem), eve)

\* A window begins: reset, the eve's decision, the sessions.
Begin ==
  /\ pc = "window" /\ next < WindowCount
  /\ LET win   == WindowAt(next + 1)
         begun == IF tool = "slow" THEN EngineStart(win.start) ELSE CacheStart(win.index)
     IN  IF win.index = 0
         THEN /\ next' = next + 1
              /\ UNCHANGED <<world, tool, window, mem, held, pending, trace, results, pc>>
         ELSE /\ window' = Slice(Grid, win.index, Horizon)
              /\ mem' = begun.mem /\ pending' = begun.intent
              /\ held' = Nothing /\ trace' = <<>>
              /\ pc' = "session"
              /\ UNCHANGED <<world, tool, next, results>>

\* A session: the pending intent at its open, a new one at its close.
Session ==
  /\ pc = "session" /\ window # <<>>
  /\ LET d       == Head(window)
         now     == Traded(world, held, pending, d)
         decided == Wanted(world, tool, mem, now, d, AidOf(tool))
     IN  /\ held' = now /\ trace' = Append(trace, now)
         /\ mem' = decided.mem /\ pending' = decided.intent
  /\ window' = Tail(window)
  /\ UNCHANGED <<world, tool, next, results, pc>>

\* The window's result is filed under its start.
File ==
  /\ pc = "session" /\ window = <<>>
  /\ results' = [results EXCEPT ![tool] = Append(@, [start |-> WindowAt(next + 1).start, trace |-> trace])]
  /\ next' = next + 1 /\ pc' = "window"
  /\ UNCHANGED <<world, tool, window, mem, held, pending, trace>>

\* The next tool, with the same model object.
Following == [fast |-> "slow", slow |-> "oneshot"]
ChangeTool ==
  /\ pc = "window" /\ next >= WindowCount
  /\ IF tool = "oneshot" THEN pc' = "done" /\ UNCHANGED <<tool, next>>
     ELSE tool' = Following[tool] /\ next' = 0 /\ UNCHANGED pc
  /\ UNCHANGED <<world, window, mem, held, pending, trace, results>>

ReplayNext == Begin \/ Session \/ File \/ ChangeTool
ReplaySpec == ReplayInit /\ [][ReplayNext]_replayVars

------------------------------------------------------------------------------
Memories   == [leader : Products \cup {None}, age : Nat, stopped : BOOLEAN]
Portfolios == [ticker : Products \cup {None}]
Intents    == [kind : {"hold", "cash", "target"}, ticker : Products \cup {None}]
Replays    == [start : Nat, trace : Seq(Portfolios)]

ReplayTypeOK ==
  /\ world \in Worlds /\ tool \in Tools /\ next \in Nat /\ pc \in {"window", "session", "done"}
  /\ window \in Seq(Sessions)
  /\ mem \in Memories /\ held \in Portfolios /\ pending \in Intents
  /\ trace \in Seq(Portfolios) /\ results \in [Tools -> Seq(Replays)]

Filed(who) == {results[who][i] : i \in 1 .. Len(results[who])}
\* The eve is seen by both: it is in the grid and has rows, or there is none.
SameEve(start) ==
  \/ start > FirstSession /\ start - 1 \in world.rows
  \/ start - 1 \notin world.rows /\ \A d \in world.rows : d >= start

\* INV-WINDOW-1: a window replayed from the cache, among all the others and with
\* the model they leave behind, holds at each open what an engine run of this
\* window alone holds.  Not promised where the eve is look-back data or has no rows,
\* where the cache scores products the engine does not, and of a policy, which the
\* cached replay has allocate on the eve without what the engine tells it.
FastIsSlow ==
  \A x \in Filed("fast"), y \in Filed("slow") :
    /\ x.start = y.start
    /\ SameEve(x.start)
    /\ ChecksFill(world) => world.tradable = world.eligible
    /\ world.kind # "policy"
    => x.trace = y.trace

\* A window asked for by its date is the rolling window of that date, whatever
\* was asked for before, as long as every calendar session up to its end has rows.
OneshotIsRolling ==
  \A x \in Filed("oneshot"), y \in Filed("fast") :
    /\ x.start = y.start
    /\ FirstSession .. x.start + Horizon - 1 \subseteq world.rows
    => x.trace = y.trace
==============================================================================
