----------------------------- MODULE ContestWeek -----------------------------
(***************************************************************************)
(* The weekly contest decision and the fade overlay.  contest_weekly.sh runs *)
(* contest-weekly several times a weekend: it reads the archived ranking,    *)
(* the prices and the recorded position, writes the card of the last session *)
(* and then the position state.  contest-fade writes a fade card, gated on   *)
(* that state.  The operator trades by both cards at the next open.  Both    *)
(* commands take the data lock shared, so neither keeps the other out.       *)
(*                                                                          *)
(* A ranking is abstracted to whether it lists us and whether our return of  *)
(* the day is explained by a single vehicle; the simulated probabilities to  *)
(* the candidate they favour.  The commands read and write cards of the      *)
(* current session only, so those of earlier sessions are not kept.          *)
(***************************************************************************)
EXTENDS Integers, FiniteSets

CONSTANTS
  Vehicles,     \* aliases of the tradable vehicles
  Base, Inverse,\* fade.base_alias, fade.inverse_alias
  Candidates,   \* decision.candidates without HOLD, which is always one
  Modes,        \* values of fade.mode
  LastSession,  \* bound: sessions 1 .. LastSession
  WeekEnds,     \* the sessions before a weekend
  EndDate,      \* contest.end_date
  Endgame,      \* decision.endgame_sessions
  Timers,       \* runs of the weekly timer in a weekend
  MaxManual,    \* bound: runs the operator starts by hand
  MaxFaults     \* bound: crashes, and trades against the cards

None == "none"

ASSUME WeekAssumption ==
  /\ Base \in Vehicles /\ Inverse \in Vehicles /\ Base # Inverse /\ None \notin Vehicles
  /\ Candidates \subseteq Vehicles /\ Modes \subseteq {"close_return", "open_only"} /\ Modes # {}
  /\ LastSession \in Nat \ {0} /\ WeekEnds \subseteq 1 .. LastSession /\ EndDate \in Nat
  /\ Endgame \in Nat /\ Timers \in Nat \ {0} /\ MaxManual \in Nat /\ MaxFaults \in Nat

VARIABLES
  day, phase,   \* the current session: "trading", "evening" or "weekend"
  mode,         \* fade.mode, fixed
  fired,        \* runs of the weekly timer since the last weekend began
  held,         \* vehicle held at the close of the day
  mixed,        \* was another one held during the day
  rises,        \* did the base gain the fade threshold, the day before and that day
  board,        \* archived ranking of the day
  priced,       \* do the silver tables have the day
  listed,       \* has any archived ranking listed us
  ready,        \* timer runs that were over when ranking and prices were there
  newest,       \* action of the newest weekly card file
  card,         \* weekly card of the day
  state,        \* data/state/contest_position.json
  fade,         \* fade card of the day
  overnight,    \* is the inverse held by a fade that no card has taken back
  task, fader,  \* contest-weekly and contest-fade in progress
  manual, faults,
  split,        \* the state parted from the orders: a crash came between card and
                \* state, or the cards of that session ask for something else
  strayed       \* the operator traded against the cards, and no card shows it

market == <<day, phase, mode, held, mixed, rises, overnight, strayed>>
inputs == <<board, priced, listed, ready>>
weekly == <<fired, newest, card, state, task, manual, split>>
fading == <<fade, fader>>
vars   == <<market, inputs, weekly, fading, faults>>

NoCard  == [action |-> None, current |-> None, target |-> None]
NoState == [asOf |-> 0, alias |-> None]
Idle    == [pc |-> "idle", entered |-> FALSE, card |-> NoCard]
NoFader == [pc |-> "idle", card |-> None]
Decided == {"HOLD", "SWITCH"}

-----------------------------------------------------------------------------
(* The decision: decide_week, resolve_current_holding, _our_equity_override *)

Shown  == board = "clear"
Listed == board \in {"clear", "unclear"}

\* What the ranking shows goes before what was recorded.
BadCurrent == IF state.alias # None THEN state.alias ELSE IF Shown THEN held ELSE None

Current == IF Shown THEN held ELSE state.alias

\* Our equity when the ranking does not list us: entered by the operator, or
\* compounded with the recorded holding from the last ranking that did.
Compounds == state.alias # None /\ listed
KnowsEquity(entered) == entered \/ Listed \/ Compounds

Remaining == IF day < EndDate THEN EndDate - day ELSE 0

\* The vehicles among which the simulation chooses: the candidates, the current
\* holding, near the end that of the best ranked rival; none that is illiquid.
Eligible(illiquid, rival) ==
  LET mimic == IF Remaining <= Endgame THEN {rival} ELSE {} IN
  ((Candidates \union mimic \union {Current}) \ {None}) \ illiquid

\* choose_target: keep the holding unless another gains enough; a holding that is
\* unknown or illiquid is left.
Choices(eligible) ==
  IF Current \in eligible
    THEN {<<"HOLD", Current>>} \union {<<"SWITCH", v>> : v \in eligible \ {Current}}
    ELSE {<<"SWITCH", v>> : v \in eligible}

Card(action, current, target) == [action |-> action, current |-> current, target |-> target]

\* What a card without a decision calls the holding: an older ranking may show one.
Outdated == {state.alias} \union (IF board = "absent" /\ listed THEN Vehicles ELSE {})

\* Every card decide_week can write for the day.
DecideWeek(entered, illiquid, rival) ==
  LET eligible == Eligible(illiquid, rival) IN
  CASE Remaining = 0 -> {Card("CONTEST_OVER", state.alias, None)}
    [] Remaining > 0 /\ (board = "absent" \/ ~ priced) -> {Card("NO_DATA", a, a) : a \in Outdated}
    [] Remaining > 0 /\ board # "absent" /\ priced /\ (~ KnowsEquity(entered) \/ eligible = {}) ->
         {Card("NEEDS_CONFIRMATION", Current, Current)}
    [] OTHER -> {Card(c[1], Current, c[2]) : c \in Choices(eligible)}

-----------------------------------------------------------------------------
(* The fade rule: decide_fade, build_fade_card *)

FadeRule(rose, prevRose) ==
  CASE mode = "open_only" /\ prevRose /\ rose   -> "KEEP_INVERSE"
    [] mode = "open_only" /\ prevRose /\ ~ rose -> "RETURN_LONG"
    [] OTHER -> IF rose THEN "FADE" ELSE "HOLD_LONG"

\* bar and prevBar: are the quotes of the day and of the one before there.
BadFadeCard(bar, prevBar) ==
  CASE Remaining = 0 -> "CONTEST_OVER"
    [] Remaining > 0 /\ state.alias = Inverse -> "INACTIVE"
    [] Remaining > 0 /\ state.alias # Inverse /\ ~ bar -> "NO_DATA"
    [] OTHER -> FadeRule(rises[2], prevBar /\ rises[1])

FadeCard(bar, prevBar) ==
  CASE Remaining = 0 -> "CONTEST_OVER"
    [] Remaining > 0 /\ state.alias # Base -> "INACTIVE"
    [] Remaining > 0 /\ state.alias = Base /\ ~ bar -> "NO_DATA"
    [] OTHER -> FadeRule(rises[2], prevBar /\ rises[1])

-----------------------------------------------------------------------------
(* Calendar, market, contest site and operator *)

\* The holding at the next close by the cards of the day; the weekly one governs.
Ordered ==
  CASE card.action = "SWITCH" -> card.target
    [] card.action # "SWITCH" /\ fade = "RETURN_LONG" -> Base
    [] card.action # "SWITCH" /\ fade = "KEEP_INVERSE" -> Inverse
    [] card.action # "SWITCH" /\ fade = "FADE" -> IF mode = "open_only" THEN Inverse ELSE Base
    [] OTHER -> held

Open ==
  /\ day < LastSession /\ phase = IF day \in WeekEnds THEN "weekend" ELSE "evening"
  /\ task = Idle /\ fader = NoFader
  /\ day' = day + 1 /\ phase' = "trading"
  /\ \/ held' = Ordered /\ strayed' = (strayed /\ card.action # "SWITCH") /\ UNCHANGED faults
     \/ \E v \in Vehicles \ {Ordered} :
          held' = v /\ strayed' = TRUE /\ faults < MaxFaults /\ faults' = faults + 1
  /\ mixed' = (held' # held \/ (card.action # "SWITCH" /\ fade = "FADE"))
  /\ overnight' = (/\ mode = "open_only" /\ card.action # "SWITCH"
                   /\ fade \in {"FADE", "KEEP_INVERSE"} \/ (overnight /\ fade # "RETURN_LONG"))
  /\ split' = (split \/ (state.asOf = day /\ Ordered # state.alias /\ ~ overnight'))
  /\ board' = "absent" /\ priced' = FALSE /\ ready' = Timers
  /\ card' = NoCard /\ fade' = None
  /\ UNCHANGED <<mode, rises, listed, fired, newest, state, task, fader, manual>>

Close ==
  /\ phase = "trading" /\ phase' = "evening"
  /\ \E up \in BOOLEAN : rises' = <<rises[2], up>>
  /\ UNCHANGED <<day, mode, held, mixed, overnight, strayed, inputs, weekly, fading, faults>>

Weekend ==
  /\ phase = "evening" /\ day \in WeekEnds
  /\ phase' = "weekend" /\ fired' = 0
  /\ UNCHANGED <<day, mode, held, mixed, rises, overnight, strayed, inputs, newest, card, state,
                 task, manual, split, fading, faults>>

\* contest-archive (LeaderboardArchive) keeps the ranking, daily-refresh the prices.
Arrive(ranking, prices) ==
  /\ phase # "trading" /\ day > 0
  /\ ranking = board \/ board = "absent"
  /\ ranking = "clear" => ~ mixed
  /\ priced => prices
  /\ <<ranking, prices>> # <<board, priced>>
  /\ board' = ranking /\ priced' = prices
  /\ listed' = (listed \/ ranking \in {"clear", "unclear"})
  /\ ready' = IF ranking # "absent" /\ prices /\ phase = "weekend" THEN fired
              ELSE IF ranking # "absent" /\ prices THEN 0 ELSE Timers
  /\ UNCHANGED <<market, weekly, fading, faults>>

-----------------------------------------------------------------------------
(* contest-weekly *)

\* contest_weekly.sh: --force if the newest card decided NO_DATA.
BadForces == FALSE

Forces == newest = "NO_DATA"

\* An existing card is final without --force.
Begin(force, entered) ==
  task' = IF card # NoCard /\ ~ force THEN Idle
          ELSE [Idle EXCEPT !.pc = "decide", !.entered = entered]

TimerRun ==
  /\ phase = "weekend" /\ fired < Timers /\ task = Idle
  /\ fired' = fired + 1 /\ Begin(Forces, FALSE)
  /\ UNCHANGED <<market, inputs, newest, card, state, manual, split, fading, faults>>

\* The operator may add --force and --our-return.
ManualRun(force, entered) ==
  /\ phase # "trading" /\ day > 0 /\ task = Idle /\ manual < MaxManual
  /\ manual' = manual + 1 /\ Begin(force, entered)
  /\ UNCHANGED <<market, inputs, fired, newest, card, state, split, fading, faults>>

Decide(illiquid, rival) ==
  /\ task.pc = "decide"
  /\ \E c \in DecideWeek(task.entered, illiquid, rival) : task' = [task EXCEPT !.pc = "card", !.card = c]
  /\ UNCHANGED <<market, inputs, fired, newest, card, state, manual, split, fading, faults>>

\* The card, renamed into place; only a decision is recorded as the position.
WriteCard ==
  /\ task.pc = "card"
  /\ card' = task.card /\ newest' = task.card.action
  /\ task' = IF task.card.action \in Decided THEN [task EXCEPT !.pc = "state"] ELSE Idle
  /\ UNCHANGED <<market, inputs, fired, state, manual, split, fading, faults>>

WriteState ==
  /\ task.pc = "state"
  /\ state' = [asOf |-> day, alias |-> task.card.target]
  /\ task' = Idle /\ split' = FALSE /\ strayed' = (strayed /\ ~ Shown)
  /\ UNCHANGED <<day, phase, mode, held, mixed, rises, overnight, inputs, fired, newest, card,
                 manual, fading, faults>>

\* An error before the card is written, a full disk, or the end of the process.
Crash ==
  /\ task # Idle /\ faults < MaxFaults
  /\ faults' = faults + 1 /\ task' = Idle
  /\ split' = (split \/ task.pc = "state")
  /\ UNCHANGED <<market, inputs, fired, newest, card, state, manual, fading>>

-----------------------------------------------------------------------------
(* contest-fade: quotes and state are read first, the card is written later *)

ReadFade(bar, prevBar) ==
  /\ phase # "trading" /\ day > 0 /\ fader = NoFader
  /\ fade \in {None, "NO_DATA"}
  /\ fader' = [pc |-> "card", card |-> FadeCard(bar, prevBar)]
  /\ UNCHANGED <<market, inputs, weekly, fade, faults>>

WriteFade ==
  /\ fader.pc = "card"
  /\ fade' = fader.card /\ fader' = NoFader
  /\ UNCHANGED <<market, inputs, weekly, faults>>

-----------------------------------------------------------------------------
Init ==
  /\ day = 0 /\ phase = "evening" /\ mode \in Modes
  /\ held = Base /\ mixed = FALSE /\ rises = <<FALSE, FALSE>> /\ overnight = FALSE /\ strayed = FALSE
  /\ board = "absent" /\ priced = FALSE /\ listed = FALSE /\ ready = Timers
  /\ fired = Timers /\ newest = None /\ card = NoCard /\ state = NoState
  /\ task = Idle /\ manual = 0 /\ split = FALSE
  /\ fade = None /\ fader = NoFader /\ faults = 0

Next ==
  \/ Open \/ Close \/ Weekend
  \/ \E ranking \in {"absent", "unlisted", "unclear", "clear"}, prices \in BOOLEAN :
       Arrive(ranking, prices)
  \/ TimerRun
  \/ \E force, entered \in BOOLEAN : ManualRun(force, entered)
  \/ \E illiquid \in SUBSET Vehicles, rival \in Vehicles \union {None} : Decide(illiquid, rival)
  \/ WriteCard \/ WriteState \/ Crash
  \/ \E bar, prevBar \in BOOLEAN : ReadFade(bar, prevBar)
  \/ WriteFade

Spec == Init /\ [][Next]_vars

-----------------------------------------------------------------------------
(* Properties *)

Aliases == Vehicles \union {None}
Cards   == [action : Decided \union {None, "CONTEST_OVER", "NO_DATA", "NEEDS_CONFIRMATION"},
            current : Aliases, target : Aliases]
Fades   == {None, "CONTEST_OVER", "INACTIVE", "NO_DATA", "HOLD_LONG", "FADE", "KEEP_INVERSE",
            "RETURN_LONG"}

\* The types of files and processes; in particular a decision always names a
\* vehicle, and a recorded position has one and is never of a session to come.
TypeOK ==
  /\ day \in 0 .. LastSession /\ phase \in {"trading", "evening", "weekend"} /\ mode \in Modes
  /\ held \in Vehicles /\ mixed \in BOOLEAN /\ rises \in BOOLEAN \X BOOLEAN
  /\ overnight \in BOOLEAN /\ strayed \in BOOLEAN
  /\ board \in {"absent", "unlisted", "unclear", "clear"}
  /\ priced \in BOOLEAN /\ listed \in BOOLEAN
  /\ fired \in 0 .. Timers /\ ready \in 0 .. Timers
  /\ card \in Cards /\ (card.action \in Decided => card.target \in Vehicles)
  /\ newest \in {c.action : c \in Cards}
  /\ state \in [asOf : 0 .. day, alias : Aliases] /\ (state.asOf = 0 <=> state.alias = None)
  /\ fade \in Fades /\ fader \in [pc : {"idle", "card"}, card : Fades]
  /\ task \in [pc : {"idle", "decide", "card", "state"}, entered : BOOLEAN, card : Cards]
  /\ manual \in 0 .. MaxManual /\ faults \in 0 .. MaxFaults /\ split \in BOOLEAN

\* The retries of a weekend do their work (contest_weekly.sh): once ranking and
\* prices are there before the last of them, the week has a card with data.
WeekendDecides ==
  phase = "weekend" /\ fired = Timers /\ task = Idle /\ ready < Timers /\ faults = 0
    => card.action \notin {None, "NO_DATA"}

\* What a card calls the current holding is what the operator holds, also when the
\* card is made again.  Where the ranking does not show it, this takes an operator
\* who follows the cards, a recorded state, no switch already recorded for the same
\* session, and no fade held overnight: the state knows none of these.
CurrentIsHeld ==
  [][/\ card' # card /\ card'.action \in Decided /\ card'.current # None
     /\ Shown \/ (~ split /\ ~ strayed /\ state.asOf # day /\ ~ overnight)
     => card'.current = held]_vars

\* A fade is ordered only on top of the base holding (build_fade_card: on another
\* it "would be a real-money error"), unless the weekly decision of the same session
\* is already recorded or switches, for then the state is ahead of the operator, or
\* an earlier overnight fade was never taken back: the rule knows only the quotes of
\* the day before.
FadeOnHeldBase ==
  [][/\ fade' # fade /\ fade' = "FADE" /\ ~ split /\ ~ strayed
     /\ state.asOf # day /\ card.action # "SWITCH" /\ ~ overnight
     => held = Base]_vars

=============================================================================
