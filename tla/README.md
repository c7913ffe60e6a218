# Formal models of mt-etf-king-2026

TLA+ models, TLC configurations and TLAPS proofs of the parts of this program
that keep state from one step to the next, or whose answers must agree with each
other, and that a unit test reaches badly: the live decision ledger, the contest
archive, the contest evening and weekend commands with the simulation behind the
weekly card, the store of raw market data with its daily quota, the silver table
and the point-in-time universe, the cash ledger that every backtest trades
through, the replay of windows, the portfolio policy, the sticky strategies, and the
research that may replace the champion.

## 1. The system

A set of systemd timers and one operator run a command line program,
`mt-etf <command>`, on one machine. Every command is a process of its own; what
one tells the next is in files under `data/`.

| Part | State it keeps | Operations | Talks to | Correct when |
| --- | --- | --- | --- | --- |
| Live decision pipeline (`cli/commands/pipeline.py`, `cli/commands/decide`, `tournament/live_decision.py`) | silver tables, gold features, `data/state/<strategy>_position.json` (the sticky ledger), decision cards | `daily-refresh --decide` (timer, seven times a day), `decide` (operator) | data store, calendar, strategy | the ledger is one chain of decisions, each from the one before, and reaches the last session |
| Leaderboard archive (`contest/leaderboard.py`) | `<baseDt>/`, `<baseDt>/revisions/<instant>/`, staging directories | `contest-archive` (timer, three times an evening; operator) | contest site, contest commands | nothing archived changes, nothing is archived twice |
| Contest evening (`contest/daily.py`, `contest/segment.py`, `cli/commands/contest*.py`) | quotes archive, shadow cards, `metrics.jsonl`, equity ledger, segment cards | `contest-daily` then `contest-segment` (timer, three times an evening; operator) | quote service, leaderboard archive | the equity ledger compounds what was held, each session once |
| Contest weekend (`contest/decision.py`, `fade.py`, `engine.py`, `crowd.py`, `scripts/contest_weekly.sh`) | weekly card, position state, fade card | `contest-weekly` (timer, several times a weekend), `contest-fade` | leaderboard archive, silver | cards speak of the holding there is; the simulated field is the archived one |
| Data store (`data/bronze.py`, `data/backfill.py`, `data/silver.py`, `data/providers`) | write-once bronze files, silver tables, quota file | `ingest`, `normalize`, `storage-migrate` | KRX | the quota holds, what is stored stays, a table does not depend on how it was built |
| Data lock, atomic files (`core/locks.py`, `core/atomic_io.py`) | one `flock` file | exclusive: ingest, normalize, features, daily-refresh, storage-migrate; shared: the contest commands; none: decide, backtest, contest-archive | every command | writers of the data exclude each other |
| Universe (`universe`, `data/panel.py`) | instrument master, average values, in memory | `PointInTimeUniverse.get` | decide, engine, research | a day's universe does not depend on later rows or on the range asked for |
| Cash accounting, backtest engine, window replay (`execution`, `backtest`, `tournament/simulator_*`) | cash, shares, the pending intent, trackers of one model object | one transition a session; windows from a cache, by the engine, one by one | strategy, portfolio | money is conserved, caps hold, replays agree |
| Portfolio policy (`portfolio`) | trackers per instrument, score peaks, the convexity reference, for as long as a model lives | `allocate` | engine, simulator | caps bind what is traded, leverage only where allowed, no re-entry that is not earned |
| Sticky and convex strategies (`strategies`) | held ticker, hold length, runner and stop trackers | `score`, the live hooks of `decide` | engine, decide | a lock, an exit and a stop follow the real holding, live as in a backtest |
| Champion research (`alpha`, `tournament/champion`, `tournament/adaptive_specialists*`) | labels, folds, scores, the verdict file | `champion-research` | engine, universe | nothing is trained on what it is judged by; a promotion is earned out of sample |
| Features, reporting, configuration, calendar | none between runs | pure functions and result files | all | |

What is hard here: the timer fires again while data is still missing, so every
command is a retry of itself; KRX publishes a session hours or days late, and
not for both tables at once; processes die between two files that belong
together; the operator starts commands by hand, some of them outside the lock;
a decision is derived from the one before, so one wrong step is never repaired.
In the offline part: one model object is reused for thousands of windows, the same
session is computed along several paths that must agree, and a single label, row or
name that was not known on the day makes a result worthless without making it fail.

## 2. Modules

| Module | Models | Kind |
| --- | --- | --- |
| `DailyRefresh` | the refresh run, the operator's `decide`, the sticky ledger | state machine |
| `AppendOnlyArchive` | what readers of the leaderboard archive may rely on | abstract specification |
| `LeaderboardArchive` | `contest-archive`, implementing it | state machine, refinement |
| `ContestEvening` | `contest-daily`, `contest-segment` and the operator's evening | state machine |
| `ContestWeek` | `contest-weekly` with its wrapper, `contest-fade`, the operator's week | state machine |
| `ContestSimulation` | one simulated world of the weekly decision | state machine |
| `QuotaLedger`, `BronzeStore` | the quota file and a process's copy of it; raw files and the migration's steps | operators, actions |
| `Backfill` | `ingest` and `storage-migrate` over both, KRX, midnight, crashes | state machine, composes the two |
| `SilverTable` | the silver build, tradability, validation gates | actions |
| `PointInTimeUniverse` | instrument master, universe, bounded panel over it | state machine, composes it |
| `CashLedger` | the order transition and the loop of sessions of a backtest | state machine |
| `ConvexImpulse`, `WindowReplay` | the convex strategy; three ways to replay windows | operators; state machine |
| `PolicySizing`, `VehicleRouter`, `PortfolioPolicy` | sizing and caps; the route to a product; `allocate` in its loop | operators, operators, state machine |
| `StickyMarket`, `StickyHold` | what a strategy sees of a session; `score` in a backtest and live | operators; state machine |
| `PurgedWalkForward`, `ChampionResearch`, `AdaptiveSpecialists` | the split; the command from labels to verdict; its third candidate mode | operators, state machine, its extension |
| `DailyRefreshProofs`, `ContestProofs`, `ContestEveningProofs`, `PolicyProofs`, `BacktestProofs`, `BackfillProofs`, `StickyHoldProofs`, `ResearchProofs` | theorems | proofs |
| `MC...` | the values of constants that a configuration cannot write | instances |

A definition named `Bad...`, or with a comment that calls it a mutant or for
mutation, is a faulty version of the definition after it, kept to show that a
property would notice.

### 2.1 DailyRefresh

Sessions are numbered; the calendar is `1 .. MaxSession`. `closed` is the last
session whose close has passed (`resolve_pipeline_target_session`). A run's
stages are the calls of `cmd_daily_refresh` in their order:

* `StartRun` reads the silver dates and fixes the ingest window
  (`resolve_ingest_start`: the look-back, or back to the first missing session);
* `IngestEtf`, `IngestIdx`: a backfill leaves any subset of the sessions it
  asked for, for KRX may answer with no rows, fail, or the quota may end;
* `GapGate`, `BuildFeatures`, `PlanCatchup`;
* then, for each session to decide, `ReadPrior` / `Refuse`, `LoadHistory`,
  `Persist` / `PersistFails`, `WriteCard` / `CardFails`: the reads and writes of
  `cmd_decide`, one action for each access to a file, because a second process
  may come between any two of them.

The ledger is a status (`missing`, `torn`, `ok`), `asOf` and `history`. `torn`
is a file that does not parse: `write_text` truncates before it writes. What a
strategy decides to hold is a nondeterministic choice; `entry` carries the hold
length because that number is what a broken chain corrupts. `quoted` says which
vehicles have a row in each session's data. Unless the strategy wants CASH, `decide` looks up the
name of what it held and of what it wants in those rows, and without one it fails
(`live_decision.py:376`): `Refuse`, then, at every retry. `Blocked` is a ledger in
front of such a session.

The operator recovers a lost ledger (`decide --held`), decides a session again,
or overrides one; `ManualKinds` says which of these a run allows and `Serial`
whether they keep out of the way of other runs. The data lock makes refreshes
exclusive; it does not cover `decide`.

### 2.2 AppendOnlyArchive and LeaderboardArchive

The abstract archive has two steps: an original for a base date without one, a
named revision that differs from the original. `LeaderboardArchive` has the
steps of `archive_leaderboard`: fetch the two files one by one, look for the date
directory, stage, rename, compare, stage a revision file by file, rename. `ArchiverCrash`
leaves the staging directory where it was. `AppendOnly` is
`INSTANCE AppendOnlyArchive` with the same `original` and `revisions` and the
seconds of the clock as names.

### 2.3 ContestEvening

`day` and `phase` are the calendar. Only what an evening reads of its own day is
kept for the current day (`board`, `quotes`, `market`); cards, metrics rows and
the ledger are kept for all sessions. The ledger's equity is modelled by what it
was computed from: the session of its last anchor and the list of sessions, with
sides, compounded since. `executed` is the side the operator really held: that of
the card, or one of his own when the card was NO_DATA or missing. The task
variable is the command in progress; its `pc` moves between the writes, so a
crash or a failed command falls between any two of them.

`Segment` is the segment's configuration, checked as the code checks it (windows in
minutes, voting tickers, cost, prize rank); the vote counts which of them closed
lower. `Standing` is what the card says of our rank: unknown, stale, an equity, or
the equity a prize requires. The ranking is assumed longer than the prize rank.
A ranking archived after a card is decided changes nothing: later runs skip it.

Not in the model: the churn gate G2, streak holders and the mirror target, the
endgame number, an equity entered by hand, `--session` reruns.

### 2.4 CashLedger

The engine and the window simulator call `transition_portfolio_state` once a
session; the frontier study calls `cash_order_transition` itself (`Carries`). The
order transition is one Python call, but it is two loops, each of which changes
cash, shares, traded volume and fees at every ticker; the model has one step per
iteration, so that the properties hold between any two orders and not only at the
end.

| Action | Code |
| --- | --- |
| `CarryPriceless` | nothing held has an open: intent dropped, last marks, return 0 |
| `CarryHold` | HOLD: no order, equity at the close |
| `StartOrders` | marks, equity at the open, volume budgets |
| `SellUnquoted`, `SellNothing`, `Sell` | one iteration over `sorted(held)` |
| `StartBuys` | marks and `equity_cur` after the sales |
| `BuyBlocked`, `BuyNothing`, `Buy` | one iteration over `sorted(target)` |
| `CloseSession` | equity at the close, the session's return |
| `Decide` | the next pending intent, and the closes as the next `prev_closes` |

Money is counted in won/`FeeDen` and weights in 1/`WDen`, so that every amount the
code computes in floating point is an integer and a cap is a whole division. A
lot is a share where `lot_size=1` is passed and stands for the resolution of a
float where none is; prices are per lot. `SingleLots`, `CashLots`, `GrossLots` and
`AdvLots` are the four caps of a purchase, each already divided by the price with
the fee in it. The return of a session is represented by `base`, the equity it is
measured from. What a strategy asks for is a choice in `Targets`, what a ticker
quotes a choice in `Quotes` (0 stands for a price that is not fillable).

Not in the model: the refusals of malformed input, an empty map of previous closes
(the first session of a panel), diagnostics, trade and trace rows.

### 2.5 QuotaLedger, BronzeStore and Backfill

A session stands for one date of one dataset: all datasets share one quota file.
An ingest is one process, the tasks of its event loop are interleaved at their
awaits, and the data lock (`job`) keeps ingests and migrations apart; a
`daily-refresh` is a series of ingests. One command may come between two ingests of
a refresh in the model though the lock is held throughout: the model allows more.

| Action | Code |
| --- | --- |
| `Load`, `Plan` | `QuotaLedger.__init__`, `BackfillPlanner.plan`, creation of the tasks |
| `Enter`, `EnterUnsaved` | `_process_one` from the semaphore to the first await: `remaining`, `consume`, and the exception of `consume` that is ignored |
| `Send` | `limiter.acquire()` returns and the request leaves |
| `Transient`, `Permanent` | tenacity tries again or gives up; any other error |
| `NoRows`, `Rows`, `RowsLost` | an empty answer; an answer stored; a store that fails, before or after the rename |
| `Finish` | `gather` returns and the process ends |
| `Migrate`, `MigrateStep`, `MigrateFault`, `MigrateEnd` | `migrate_plain_to_gzip`, split where it opens, completes, verifies and removes a file |
| `Publish`, `NewDay`, `Crash` | KRX, midnight in Seoul, the end of a process at any point |

The content of a file is the number of the publication KRX answered with, so that a
replaced file is seen. Both parts of the ledger compare dates with today's only:
a date is `today` or `past`, and `NewDay` ages the file and the copy in memory, also
while tasks are in flight, so there is no bound on days. `charged`, `unsaved` and
`seen` are not in the code: they count what the quota is about.

Abstracted: the pacing between requests, two readings of the clock within
one call of `remaining` or `consume` that fall on two days, a quota file torn by a
power failure (it is renamed into place but not synced; an unreadable one counts as
nothing). A migration that breaks off inside a file leaves a torn compressed file in
front of the plain one: `ContentKept` says the plain one stays, not that `read` finds
it, and indeed `has_session` holds and `read` raises until someone removes the file.
`PublishedArrives` speaks of content on disk in the same sense.

### 2.6 StickyMarket and StickyHold

One market, seen twice: by the backtest, whose one model lives as long as the run
and whose trackers follow what the portfolio really holds, and by `decide`, which
builds a model every session, restores it from the sticky ledger and records what it
decided. `Strategies` names the variants: `mom60_raw`, `post_crash_anchor`,
`mom60_hold`, `impulse_crash` and `split_fill_lock`, which `decide` accepts, and
`inactive_participate` and `runner_reversal`, which only the backtest runs.

`StickyMarket` is what the filters leave of a snapshot: the +2x and synthetic
filters, the family collapse to the product that traded most, the capacity filter,
the routes' rankings, and, for the split-fill allocator, which part of the order the
leader's volume takes and which product gets the rest. A row has all its columns or
none, and one score that every route reads; ADV is one scale with the two levels that
matter, an order filled to `min_fill_ratio` and one filled.
`Headlines` and `ClassifySleeve` say what the history of the KOSPI headline series
makes of a session: the sleeve that the route follows, UNCERTAIN while a return or the
volatility is not known.

| Definition | Code |
| --- | --- |
| `DecideThin` | `score()` when the filters leave nothing: CASH before any tracker is touched |
| `DecideScored` | the rest of `score()`: trackers, crash cash, sticky leader, impulse switch, absolute momentum, sleeve route, runner exit |
| `Execute` | the transition at the next open: the order is filled or not, the equity moves |
| `Tracked`, `Runner`, `Inactive` | the three trackers of the model |
| `Sticky`, `Switched`, `Overlaid`, `Anchor`, `Route`, `Routed` | `apply_sticky_leader` with `apply_abs_mom_cash`, `apply_impulse_switch`, the overlays in their order, `post_crash_anchor_scores` with the capacity filter, `resolve_attack_sleeve`, `apply_attack_sleeve_route` |
| `LiveChoice`, `LiveHeld`, `Named`, `Persist`, `NextHoldLen` | `_hook_sticky_live_allocate`, which fails and records nothing when the held ticker has no row (`Named`) or the ledger has no entry of the prior session (`ledger.asOf`) |

A ticker that is not in the market of a view may still have a row that day: `quoted` is
any set that includes the market.
A portfolio is its heaviest position, which is what the trackers and the ledger
follow; weights that drift past each other are not modelled. The live caps
(`apply_live_exposure_and_capacity_limits`) are modelled by their effect on that
position: a capped switch may leave the old ticker the heaviest or end in cash, a
CASH choice is never capped. Both observers get the same view: the capacity filter
uses the rules' initial capital in either. `story` is not in the code; it counts the
closes that the model saw of the present holding and its equity, and what happened
that parts live from the backtest, for the properties.

Not in the model: blended scores, which no strategy sets, the peak-lock variants,
`--held`, which `DailyRefresh` has. The equity moves by one unit a session, and the
ledger starts seeded with CASH.

### 2.7 ContestWeek

`contest_weekly.sh` runs `contest-weekly` several times a weekend, with `--force` if
the newest card says NO_DATA. A ranking is abstracted to whether it lists us and
whether our return of the day is explained by one vehicle, the simulated
probabilities to the candidate they favour. `Decide` computes the card; `WriteCard`
and `WriteState` are the two files, and `Crash` may come between them. `ReadFade`
and `WriteFade` are the read and the write of `contest-fade`, which the shared lock
does not keep apart from a weekly run. The operator trades by both cards at the next
open, or strays. `split`, `strayed` and `overnight` are not in the code: they say
what the position state cannot know, and the properties name each as a
precondition. Not in the model: `--session` reruns of older sessions.

### 2.8 ContestSimulation

`build_crowd` draws agents, `bootstrap_worlds` their sessions, `simulate_contest`
plays a session (`Session`: gap on the old holding, move on the new one), and at the
close of the last realized session `pin_to_leaderboard` sets the crowd to the
archived ranking. Equities are logarithms in units of a price step, so that they add
where the code multiplies. An agent's choice looks at the last session only, weights
are one, and what is random is a choice. `base` is `_compound_legs` over the realized
sessions, by which every path of ours is scaled to our equity (`Ours`).

### 2.9 SilverTable and PointInTimeUniverse

A bronze file is a function from its tickers to rows. `Build` reads the sessions the
table lacks (a file may be unreadable once), leaves out days without trading, decides
tradability over the whole combined table (median and median distance of the premium,
computed in doubled integers), and refuses the table if a key occurs twice or capital
and shares disagree too often. `Decide` computes the universe of the latest session
under each of `Filters` (deployed, research with staged orders, one on a list of
funds, structural) and keeps it in `seen` with the panel behind it, for the
properties. A name stands for what `resolve_leverage` and `resolve_issuer` read in
it. Not in the model: the gates V2 and V10 on dates the backfill never asks for, the
overrides file, statistics that only warn.

### 2.10 PolicySizing, VehicleRouter and PortfolioPolicy

`Execute` the pending intent as far as the market lets it, `Score` the close,
`Allocate`. `Outcome` is `allocate` whole and in its order: selection, confidence
sizing or an overlay, the route of every name to its +1x or +2x product with the
volume it can take, peaks, trackers, their multipliers, the demotion of what cannot be
sold, one product a family, liquidity and gross caps, the rebalance band. Scores are
integers in units of the confidence margin, weights integers of a thousandth of the
book. Not in the model: inverse and synthetic products, the aggression multiplier,
price drift between two opens, the builders that read the configuration.

Where a family has no +1x product, another one stands in for it: the source itself
on the routes by capacity and by convexity (`PlainOf`), the first product of the family
in `ExposureSelector.select` and in the demotion (`PlusOne`). The route by capacity
counts the stand-in once whatever its multiple (`RouteMultiple`, `Counted`; a demotion
counts again, `Recounted`), and the gross cap uses what was counted. `CapsOnTrades`
therefore counts the products of such a family once and all others truly (`Leverage`);
`NoUngatedEntry` is about the other families. It permits a +2x product where regime, rules
and capacity do (`MayEnter`), and where it is held and cannot be sold or the plain
product cannot be bought (`NoWayOut`): the router then gives it the whole weight of its
family.

### 2.11 PurgedWalkForward, ChampionResearch and AdaptiveSpecialists

`ChampionResearch` has the stages of the command: `Inputs` (mode, rows, embargo and
folds are checked; a refusal leaves the old verdict file), `Label`, `Split`,
`FitFold`, `Judge`, `Write`, `Fail`. What a fold learns is one of `Rankings`, the
dates a hurdle activates any subset, a bootstrap interval over mixed evidence a choice.
A ticker stands for its family, prices move within a session only, costs are zero.
`AdaptiveSpecialists` plays the third mode window by window: four specialists propose,
a fixed-share router weighs them, a controller chooses among them, the router and
cash by the disjoint finished paths of each. Router probabilities are powers of two,
returns add, and means and risks are compared as the fractions they are, by cross
products. `NotInferior` and `Robust` are the leave-one-year-out gates, with the
tolerances of `loyo.py` as constants in thousandths, a ruin threshold of its own and
the concentration in recent years. Not in the model: the tail policy's mode, eras,
confidence intervals as numbers.

### 2.12 ConvexImpulse and WindowReplay

Three ways to trade the windows of a backtest with one model object: `run_rolling`
from the session cache, `run_rolling` with an engine run for each window, and
`oneshot_independent_window_returns`. A window begins with a reset and the decision of
its eve, which each way finds in its own manner (`CacheStart`, `EngineStart`), then
one `Session` after the other. Four kinds of model: `sticky` and `fillable` follow a
best product with a lock and a stop, `policy` allocates, `convex` is `ConvexImpulse`, with
setups, the lock of `MinHold` closes, the gap and the crash exit. A world fixes the
panel: rows, tradable and eligible products, failing scores, and the product that comes
out of a session's scores. What `allocate` is given beside the scores (regime,
permissions, volumes) differs: nothing at the eve from the cache, what the cache holds in
its sessions, what the engine resolves in its own (`Aids`); a policy may end
with another product under each, any other model does not ask. A trace is the product
an engine run holds at each open. `FastIsSlow` and `OneshotIsRolling` name as preconditions where the
ways part by design: see section 4.

## 3. Runs

| Run | Shows | Bounds |
| --- | --- | --- |
| `refresh` | `ChainContinuity`, `CardsNeverOvertaken`, `NeverRewinds`, `NoWitnessedSkip`, and `LedgerCatchesUp` under `FairSpec` | three sessions, one of them backfilled, so that two must be decided with holes in either table; a history of two entries, so that trimming happens; one fault; one vehicle, with a row in each session or with none in the second, the first to catch up with; recovery by the operator, and one decision by hand of any kind on any session, not overlapping another run |
| `archive` | `AppendOnly` (the refinement), `StoredOnce` | two archivers, a re-publication of either file or both, three seconds, two crashes; several bodies per date, for a run may fetch one file before and one after |
| `evening` | `EstimateIsHonest`, `RowsFollowCards` | three sessions: an anchor, a missed evening, and one after it, or the last after the contest; gate windows of one day; one crash; about 9.4 million states |
| `ledger_orders` | `TypeOK`, `Reconciles`, `WithinVolume`, `NoRoundTrip`, `PurchasesKeepLimits` | two tickers, the second leveraged twice; three sessions, so that what is bought can be sold and bought again; a 5 % fee and small prices, so that a lot and a fee matter; rows that rise, fall, halt or are missing; budgets that bind and budgets that do not |
| `backfill` | `WithinQuota`, `NoneRefused`, `RequestsBounded`, `ContentKept`, and `PublishedArrives` under `FairSpec` | two sessions, one of them possibly with a plain file; two publications, two tasks at a time, two attempts, a quota of two, so that a second ingest of the day finds it spent; one crash or I/O failure |
| `sticky` | `MinHoldKept`, `RunnerConfirmed`, `StopIsFinal`, `AgreesUntilContested` | seven strategies, five sessions, two tickers of one family or of two, of which one is an anchor; three scores around a gap of one, a lock of three closes (the code's is two: with three the live lock, one shorter, still exists), a runner horizon of two, a stop at a quarter with an equity of up to four |
| `week` | `WeekendDecides`, `CurrentIsHeld`, `FadeOnHeldBase` | three sessions with a weekend and the end of the contest, two timer runs a weekend, two runs by hand, one crash or stray trade, three vehicles, both fade modes |
| `contest_sim` | `FieldIsRanking`, `StandingReproduced` | two realized sessions and one drawn, two vehicles with every gap, two drawn agents of three kinds, every ranking of two entries with known and unknown holders |
| `policy` | `CapsOnTrades`, `NoUngatedEntry`, `ReEntryIsEarned` | a family with a +1x and a +2x product and one with a +2x only; ten kinds of session (regime, permission, deep, thin, unknown or no volume, fallen leader, failed score) in any order and number, one unfilled order an open, both overlays |
| `universe` | `IncrementalIsFull`, `LaterRowsInvisible`, `BoundedAgrees` | two funds, four sessions published in any order, files that rename, dry up, delist, misprice or duplicate a fund, one unreadable file a build, an ADV window of two |
| `champion` | `PurgedLabels`, `PairsAreOutOfSample`, `PromotionEarned`, `EvidenceCountedOnce` | twelve sessions, windows of two, a gap of four, two folds, up to two holes in candidates or quotes; the adaptive mode on every panel with at most one hole |
| `windows` | `FastIsSlow`, `OneshotIsRolling` | seven sessions, the first before the configured start; windows of three; two products, up to two incidents (no row, untradable, ineligible, failed score, fall, thin or quiet day); a lock of two closes |

The bounds are small because the mechanisms are: a hole, its two neighbours and
the step over it need three sessions; a lost update needs two processes; a lock, an
exit or a re-entry needs one session more than its length. The chain
properties of `refresh` say nothing after a decision by hand: an operator who decides
an earlier session again breaks the chain on purpose. Every safety property above is
also proved without bounds (section 5); TLC alone checks the two liveness properties. The type
invariants hold in TLC and, where section 5 names them, are proved; the configurations
leave them out to keep the runs to what may be wrong.

`CHECK_DEADLOCK FALSE` where a system really ends: `CashLedger`, `StickyHold`,
`ContestSimulation` and `WindowReplay` after the last session, `ChampionResearch` once
the verdict is written or the run has failed, `ContestWeek` when the contest is over and
its manual runs are spent.

### Fairness

`DailyRefresh`: the timer keeps firing and a started process goes on
(`SF(StartRun)`, `WF` of its steps); KRX publishes each session sooner or later
and one of the retries gets it (`SF` of an ingest that contains it: the pipeline
asks again because the window reaches back to missing sessions, which is what
the property checks); the operator re-seeds a ledger that the commands refuse to
read (the error the code logs asks for it), for a session with data and a position
that has a row in it. Nothing obliges the operator to act on a ledger that is readable
but `Blocked`, nor a strategy to want CASH there, so `LedgerCatchesUp` ends
there too.
`Backfill`: days pass; a started command goes on, and a request ends, if only by its
timeout; the timer starts ingests again and again, whatever else takes the lock in
between (`SF(Load)`), and among them ones for the whole calendar (`SF(PlanAll)`: the
window of a refresh reaches back to the first missing session); KRX publishes every
session and does not fail one for ever (`SF(Rows)`). The last one is needed for all
sessions at once: the plan takes the oldest first, so as many sessions as the quota,
never published, would starve the younger ones for good.
The other modules have no liveness property and no fairness: they are loops over a
finite calendar, or, as `ContestWeek`, promise something about a retry that did run.

## 4. Observations

What the modelling brought up and the properties exclude by a named precondition,
or leave to the reader. None of them is a run of its own.

*Live decisions.*
`decide` takes no lock; overlapping a refresh it writes a stale history back
(`cli/main.py:40`, `live_decision.py:215`); `SerialNeverRewinds` is the theorem for
runs that do not overlap. The live ledger counts the session that decided an entry and
the restored model counts again when it scores, so `min_hold` locks one close less live
than in a backtest (`decide/models.py:227`); `AgreesUntilContested` says up to where
the two agree. The live caps apply exposure before volume
(`live_decision.py:343-408`). Empty weights mean hold, so an exit to nothing keeps the
position (`portfolio/intent.py:34`). A held ticker without a row on the decision date
(halted, delisted) makes `decide` fail at every retry until the strategy wants CASH
or the operator says what is held; the sessions after it wait (`live_decision.py:376`).

*Contest.*
The archive's comparison reads staging directories of crashed runs
(`leaderboard.py:225`). The gates judge a retried NO_DATA session by its old row
and its new one (`daily.py:407`). The quotes archive is final once the two mirror sides are there,
and a ticker of the segment that is missing then stays missing (`contest.py:401`). The standing that the
simulation derives for us divides by realized legs with the first gap in them, which
the path, starting in cash, never earned (`contest/decision.py:545-551`).

*Strategies.*
The family collapse picks the product that traded most each day, so a held one may
drop out of the scores, and the lock does not keep it. `apply_impulse_switch` may
lower the surging leader's score. The capacity filter keeps a ticker of unknown volume,
inactive participation drops it. The live split-fill hook scores with nothing held, so
it never locks. The convex switch compares the ten-day momentum of a surge with the
sixty-day momentum of a held continuation.

*Backtest and research.*
`session_return` does not chain over missing rows (`cash_accounting.py:135`). The
first window of a grid has no eve in the fast replay and one in the slow; a calendar
session without rows before a start removes the slow one's eve;
`oneshot_independent_window_returns` indexes the grid with a position in the calendar.
The session cache's key leaves the panel out. The eve of a window from the cache calls
`allocate` without regime, permissions and volumes (`simulator_windows.py:213-217`), the
engine's with all of them (`engine_session.py:150-169`): overlays and the trims
they suppress exist on one of them only, so a policy may start a window with another
product, and `FastIsSlow` excludes it. `UNWIND_DEFER` gives a holding that cannot be sold the
whole weight of its family: with known volume the demotion after it undoes that, with
unknown volume a +2x product gains weight while its gate is closed (`exposure.py:184-202`). A
family without a +1x product is counted once by the gross cap, so a +2x product that
stands in for it goes beyond the limit in truth (`exposure.py:146-149`).
`reentry.cooldown_days` is not read. The adaptive controller decides at an
open with paths that end at that session's close; the router's fallback is chosen
without meeting the limits; a holding without a previous close is valued at nothing. The
candidate scores a warm-up date that is never served, so its first paired window
starts with HOLD. Discordant windows overlap though their count is called effective.

*Data.*
Tradability is decided again over the whole table, so a past universe may change with
it; `LaterRowsInvisible` takes an equal panel. A full build drops a session
whose file cannot be read this time; a session that fails a critical gate blocks every
later build. `configs/universe_manifest.yaml` says that the manifest goes before the
whitelist, the code applies both. A migration that breaks off leaves a torn compressed
file in front of the plain one (section 2.5).

## 5. Proofs

All theorems hold for every value of the constants that satisfies the modules'
named assumptions: no bound on sessions, tickers, processes, runs or histories. Each
proof module states one inductive invariant a machine, one lemma an action, and
derives the theorems from it.

* `DailyRefreshProofs`. `TypeCorrect`: `TypeOK` alone is not inductive where `Persist`
  takes the newest key of a history; it needs that a nonempty set of integers has a
  greatest element and that trimming keeps it (`HasLatest`). `SerialNeverRewinds`:
  with `Serial` at most one process is in a decision, so what it loaded is still the
  history on disk when it writes (`SerialInv`).
  `SerialSkipsNothing`, `SerialChainContinuous` and `SerialCardsKept` are the chain
  itself, from `CatchupInv`: what is recorded, carded or being decided is a session of the
  tables (`Admitted`), at most one of which is ahead beyond the gate (`Gated`); a writer
  holds what the file holds (`Kept`); a run decides its sessions in order, none older
  than the ledger nor newer than its target (`UpTo`, `InOrder`); and the entry it is about
  to record continues the ledger on disk (`Derived`). They say nothing after a decision
  by hand, nor do the properties, and they assume `Serial`, as the run does: two decisions
  at once rewind the ledger, as section 4 says.
* `ContestProofs`, of the archive (`ArchiveSpec`). `ArchiveTypeCorrect` and the
  refinement `ArchiveIsAppendOnly`: the type invariant carries what a process knows at
  its rename (the date directory exists, its body differs), and each step maps to a step
  of the abstract archive or to a stutter. `SerialRunsStoreOnce`: without an overlap the
  newest body a process compared with is still the newest when it renames.
* `ContestProofs`, of the contest week (`Spec`). `WeekTyped`, `RetriesEndWithCard`,
  `CardNamesHolding` and `FadesOnBase`. The invariant ties the retries of a weekend to
  its card (`RetriesDecide`, `DecidedOnCurrent`), the recorded switches to the holding
  (`SwitchIsRecorded`) and the position state to what is held (`StateIsHeld`) under the
  preconditions the properties name: what the operator did and the state cannot know.
* `ContestEveningProofs`, of the evening (`Spec`). `EveningTyped`, `LedgerIsHonest` and `MetricsFollowCards`.
  `EstimateInv` says that a ledger counts each session since its anchor once, with the
  side really held (`Honest`), that the operator holds what the card of the evening before
  asks for (`Followed`), and what a card, written or about to be, may say of our standing
  (`Grounded`); `RowsInv`, that a command between card and row holds the card's data.
  `Others`, the metrics file without a session's rows, is a recursive function: what it
  keeps is proved for the least length at which it would fail.
* `ContestEveningProofs`, of the simulation (`SimulationSpec`). `FieldIsPinned` and
  `StandingIsReproduced`, for any panel, crowd, ranking, history and order of ties.
  `PinnedInv` says of any set of equities above the last listed one that as many agents as
  entries of the ranking have one of the set; TLC checks it for single equities
  (`FieldIsRanking`), the rank of ours needs it for all above ours. To take a holder's
  equity out of the ranking removes exactly one entry that has it (`WithoutIs`,
  `RemainingIs`), what remains goes to the best of the crowd one each (`PinnedIs`), and
  `PinnedCounts` adds up the two by one-to-one maps. `PathsInv`: until the switch every path of
  ours is the realized base less the gap of the first session.
* `BacktestProofs`, of the cash ledger (`Spec`). `LedgerTyped`, `LedgerReconciles`, `VolumeRespected`,
  `NeverRoundTrips` and `PurchasesWithinLimits`, from `LedgerInv`, for any number of
  tickers, any prices, weights and budgets, any charge up to the notional and a reserve
  below the whole. `NoRoundTrip` is not inductive: the invariant adds that a ticker sold
  today is still held up to its target (`SoldDownToTarget`) and that fees are not
  negative. The target in lots is rounded down at the equity before fees, so one lot more
  is worth more than the target's share of the smaller equity after fees, and the
  purchase has no room for it (`NotBoughtBack`). That the cash stays nonnegative follows
  from the reserve: what is left over a share `CLim/WDen` of itself and of the positions
  cannot be negative (`ReserveNonneg`). The results assume exact arithmetic: the code
  computes the same rationals in floating point, so its sums and caps hold up to rounding.
* `BacktestProofs`, of the window replay (`ReplaySpec`). `ReplayTyped`,
  `OneshotReplaysRolling` and `FastReplaysSlow`, for any calendar, horizon, products and
  panel, windows that overlap or not. `ReplayInv` says that what a tool has played of its window
  follows from its own start of the window, session by session (`WindowInv`), and that so
  does every window it has filed (`FiledInv`): the model object brings nothing along, for
  a window begins with a reset. Two tools that begin a window with the same memory
  and intent hold the same in all of it, by the least session at which they would not
  (`ReplaysAgree`); they do begin so where both find the same eve (`EvesAgree`), which is
  a matter of positions in the grid and in the calendar (`RollingRank`, `CalendarRank`)
  under the preconditions that the properties name. A policy is excluded from
  `FastReplaysSlow`: its eve is not decided with the same arguments (section 4).
* `BackfillProofs`. `BackfillTyped`, `QuotaRespected`, `NothingRefused`,
  `RequestsLimited` and `StoreIsWriteOnce`, for any finite set of sessions, any quota,
  number of tasks, attempts and failures. The parts of the invariant: `LedgerOK`, what the
  file and the copy know of today's charges (a copy of yesterday means that the file is
  not of today either, which is what lets `consume` start from zero without a look at
  it); `PlanFits`, what waits fits what is left, where the plan's choice of the oldest
  sessions needs that the session of the highest rank has all others before it
  (`ScheduledFits`); `BudgetOK`, which counts the requests that sessions in flight may
  still send together with those sent; `AskedMissing` and `MigrationOK`, when a session
  has no file, a whole one or a torn one.
* `StickyHoldProofs`. `HoldTyped`, `LockCoversMinHold`, `LiveAgreesUntilContested`,
  `RunnerExitConfirmed` and `StopNeverLifts`, for any number of tickers and sessions, any
  market, families, lock and gap, all seven strategies, unfilled orders and live switches
  that the caps cut short. The tracker counts the closes of what is really held, or has
  not seen it yet (`TrackerInSync`); only a session which updated the tracker can want a
  ticker (`WantsOnlyWhenTracked`: thin sessions want CASH); the ledger is exactly one
  ahead (`LedgerLeads`), and one close more changes no choice but that of a contested
  session (`LeadIsHarmless`); a session in which they part by design or in which `decide` fails
  is in the story ("parted"), after which the property says nothing. `ExitInv` adds that the runner's count and gain are those of
  the holding, and that a stop once reached is still reached at rest in cash.
* `ResearchProofs`, of the command in all three modes (`AdaptiveSpec`).
  `LabelsArePurged`: the argument is about ranks, not dates: the split cuts the list of
  dates that have labels, and ranks grow no faster than dates (`RankGrowth`), so a gap of
  more entries than the horizon (`GapCovers`) is a gap of more sessions (`FoldIsPurged`).
  `ComparedOutOfSample` and `PromotionsAreEarned`, from `ResearchInv`: the folds are the
  ones the split made (`SplitInv`), an evaluated score is of a fold that tests its date
  (`ScoresInv`), and a verdict to promote was earned by these scores (`VerdictInv`).
  `EvidenceIsCounted`: the real ledger is cash with the return 0, or there is evidence
  already; an action other than cash is open to the controller only when a specialist has
  its scenarios (`ActionsAre`, `ScenariosAreEvidence`). The work is in that the controller does choose one of its actions: one is best
  because the four keys it compares are a total preorder, fractions by cross products
  (`BestExists`, `CrossProducts`), and the disjoint paths are a recursive function, treated
  as above. It rests on what the command passes on: at least one scenario is asked for,
  and cash is not ruin (`AdaptiveAssumption`).
* `ResearchProofs`, of the universe (`UniverseSpec`). `TableIsFullBuild`: the table is
  what a full build over its sessions would write (`TableInv`), because the statistics of
  tradability look at the combined table only. `LaterRowsStayInvisible`: what was decided
  on a day is a function of the rows up to the day (`PastIsEnough`, `SnapshotOfThePast`).
  `BoundedPanelAgrees`: the rows a bounded panel leaves out are neither among the latest
  `AdvWindow` tradable ones of a fund nor its newest (`CutKeepsCounted`, `BoundedKeeps`).
  `UniverseTyped`: the types of both.
* `PolicyProofs`. `PolicyTyped`, `CapsBindTrades`, `LeverageIsGated` and `ReEntryIsByRule`,
  for any finite set of instruments, any families, scores, caps and limits. `PolicyInv` is
  little more than types; the work is in one call of `allocate`, which the lemmas follow:
  a book is never more than whole (`BookIsWhole`, `SharesWithin`), a route ends at a
  product the rules permit or at one that is held (`RouteIs`), what is demoted and capped
  is within the caps or at its holding (`CappedIs`), the band puts back only what was held
  (`TradedIs`), so the gross exceeds its limit by what the band leaves (`GrossOfTraded`, with what
  the routes recorded for each product, which is its multiple or, in a family without a
  plain one, possibly 1),
  and a tracker leaves the book for the cooldown (`TransitionIs`, `DemotedIs`). A sum over
  a set is a fold; `SumRemove`, proved over all subsets from the empty one up, makes it
  independent of the order (`SumsAre`, `SubsetInduction`). Proving it changed three
  properties and one operator: after the final scaling a holding the band kept may be
  smaller than it was, a family without a plain product falls back to its own, a demotion
  ends at `PlusOne` whatever its multiple, and a held theme in discovery has a state too.

Three techniques recur. Induction schemes are not available to the prover, so a lemma
about a recursive function (`Sum`, `Others`, `Remaining`, a router's trace) takes
the least index at which it fails (`WFMin` over `<` on the naturals) and refutes it; in
`BacktestProofs` that gives `SumUpdate`, changing one summand changes the sum by the
difference, which is all the ledger needs. `CHOOSE` of a greatest or least session is
replaced by the lemma that one exists. And a function of several arguments is written as
a function of functions, which the prover can apply.

Only model-checked, and why: `LedgerCatchesUp` and `PublishedArrives`, liveness under
fairness, which is out of the prover's reach. Every other property of a run is a
theorem. What the theorems do not speak of is what the modules leave out: rounding,
which the ledger, the policy and the simulation do without, and the parts that
section 2 names one by one.

## 6. Not modelled, and the plan

The map of `PROJECT.json` ties every definition to the lines it stands for; together
they are about a third of the implementation. Most of the rest is not a matter of
behaviour over time: the strategy families and builders under
`cli/commands/backtest/families`, `strategies/factories` and `portfolio/builders_*`
(tables of parameters), numeric features and statistics (`features`,
`tournament/distribution`, `tournament/attainability.py`, `frontier.py`: arithmetic on
columns), reports and dashboards (`reporting`, every `render_*`), parsing, and the trading
calendar of a third party. The theme state machine of `alpha/state.py` and the sector
leadership model have no way to reset their states between windows; they serve no
strategy that the replay supports, and are left out.

What is partly modelled names its gaps in `PROJECT.json`. Next would be:

1. `DataLock`: polling, timeout and shared holders; so far exclusion is a guard of the
   commands in `DailyRefresh` and `Backfill`. The spacing of `RateLimiter`.
2. `--session` reruns of older contest sessions, and the gate G2.
3. Inverse and synthetic products in the router, and price drift between two opens.
4. Rounding: the theorems about money and equities are exact; a bound on what floating
   point adds would tie them to the tolerances of the code.
