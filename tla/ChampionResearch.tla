-------------------------- MODULE ChampionResearch --------------------------
(***************************************************************************)
(* champion-research: label the candidates of every session, split the      *)
(* labelled dates into purged folds, fit a model for each fold and score    *)
(* its later dates, replay every window of Horizon sessions with those      *)
(* scores and with the incumbent, compare the windows that were scored      *)
(* throughout, and write the verdict.                                       *)
(*                                                                          *)
(* What a model learns from its labels is a choice of one of Rankings, what *)
(* a bootstrap interval says of mixed evidence is a choice.  Sessions are   *)
(* those of the session grid, the ones with rows in the panel.              *)
(***************************************************************************)
EXTENDS PurgedWalkForward, FiniteSetsExt

CONSTANTS
  Tickers, None,
  Multiple,       \* leverage_multiple of each ticker
  LastSession,
  Worlds,         \* the panels and incumbents a run is started on
  Rankings,       \* what a fitted model may prefer: functions Tickers -> score
  Thresholds,     \* the returns whose exceedance makes the tail score
  RuinAt,         \* g2a_ruin_threshold: a window below it is ruined
  RuinMax,        \* ruin_max, in percent of the windows
  MinDiscordant,  \* min_effective_discordant
  MinYear,        \* min_year_n: the windows a year needs to be compared
  Year,           \* [session -> year]
  Hurdle,         \* the threshold of p_gt_50
  LossAt,         \* the ruin_threshold of the comparison by years
  P50Tol, RuinTol, MeanTol,  \* its tolerances, in thousandths
  Recent, RecentMax          \* the years of concentration_share, and its limit in percent

ASSUME ResearchAssumption ==
  /\ LastSession \in Nat /\ MinDiscordant \in Nat /\ MinYear \in Nat \ {0}
  /\ None \notin Tickers

VARIABLES
  world,       \* [asked, mode, quoted, eligible, move, wanted, breach]: mode is the
               \* configuration's, asked the command line's
  labels,      \* the labelled rows, <<decision date, ticker>>
  folds,
  scores,      \* OOS rows: [date, ticker, fold, through, evaluated, score, active]
  evaluation,  \* ChampionEvaluation
  artifact,    \* docs/results/champion_promotion.json
  pc

vars == <<world, labels, folds, scores, evaluation, artifact, pc>>

Sessions == 1 .. LastSession
Starts   == 1 .. LastSession - Horizon + 1
Window(s) == s .. s + Horizon - 1
Verdict(status) == [status |-> status, discordant |-> 0]

------------------------------------------------------------------------------
\* Who is eligible on the day and quoted; of these the +2x products, one for
\* each family, or with the hurdle all of them.
DirectCandidates(w, d) == w.eligible[d] \cap w.quoted[d]
FamilyCandidates(w, d) == {t \in DirectCandidates(w, d) : Multiple[t] = 2}

Candidates(w, d) ==
  IF w.mode = "executable_hurdle" THEN DirectCandidates(w, d) ELSE FamilyCandidates(w, d)

\* A label buys at the next open and sells at the last close; the executable
\* one needs a row on every session between.
TailLabelled(w, d, t) ==
  /\ d + Horizon <= LastSession
  /\ t \in w.quoted[d + 1] /\ t \in w.quoted[d + Horizon]

Executable(w, d, t) == \A s \in d + 1 .. d + Horizon : t \in w.quoted[s]

Labelled(w, d, t) ==
  TailLabelled(w, d, t) /\ (w.mode = "executable_hurdle" => Executable(w, d, t))

LabelRows(w) == {row \in Sessions \X Tickers :
                   row[2] \in Candidates(w, row[1]) /\ Labelled(w, row[1], row[2])}

DecisionDates(rows) == {row[1] : row \in rows}

\* What the ranker may learn, and the dates a calibrated hurdle may activate.
Fitted == Rankings
Activations(w, fold) == IF w.mode = "executable_hurdle" THEN SUBSET fold.test ELSE {{}}

\* One fold: the model fitted on its training dates scores the candidates of
\* the warm-up date and of the test dates.
FoldScores(w, fold, ranking, active) ==
  {[date |-> row[1], ticker |-> row[2], fold |-> fold.id, through |-> Max(fold.train),
    evaluated |-> row[1] \in fold.test, score |-> ranking[row[2]], active |-> row[1] \in active] :
     row \in {key \in Scored(fold) \X Tickers : key[2] \in Candidates(w, key[1])}}

Evaluated(rows) == {row \in rows : row.evaluated}
EvalDates(rows) == {row.date : row \in Evaluated(rows)}

\* The checks at the end of build_champion_oos_scores; the hurdle's builder
\* makes none.
Refused(w, rows) ==
  /\ w.mode = "p27_matched_2x"
  /\ \/ Evaluated(rows) = {}
     \/ \E x, y \in Evaluated(rows) : x # y /\ x.date = y.date /\ x.ticker = y.ticker
     \/ \E row \in Evaluated(rows) : row.date <= row.through

------------------------------------------------------------------------------
\* OosScoreStore.scores_for: what is served to the models on a day.
Served(w, rows, d) == {row \in Evaluated(rows) : row.date = d /\ row.ticker \in w.quoted[d]}

Activated(rows) == \E row \in rows : row.active

BestOf(rows) == (CHOOSE x \in rows : \A y \in rows : y.score <= x.score).ticker

\* The incumbent scores whatever is quoted, the hurdle's copy of it who is
\* eligible.
Choice(w, d, offered) ==
  IF w.wanted[d] \in offered THEN [basis |-> "incumbent", want |-> w.wanted[d]]
  ELSE [basis |-> "hold", want |-> None]

Incumbent(w, d) == Choice(w, d, w.quoted[d])

\* Mom60RawMatchedOosModel holds on a day without scores, ExecutableOpportunity
\* Model falls back on the incumbent there and where it is not activated.
Candidate(w, rows, d) ==
  LET served   == Served(w, rows, d)
      own      == [basis |-> "model", want |-> BestOf(served)]
      fallback == Choice(w, d, DirectCandidates(w, d))
  IN  IF w.mode = "executable_hurdle"
      THEN IF served # {} /\ Activated(served) /\ fallback.want # None THEN own ELSE fallback
      ELSE IF served # {} THEN own ELSE [basis |-> "hold", want |-> None]

Decision(w, rows, who, d) == IF who = "candidate" THEN Candidate(w, rows, d) ELSE Incumbent(w, d)

\* The order of a decision at the next open: what is not quoted is not traded.
Traded(w, held, decision, s) ==
  LET want == decision.want
  IN  IF \/ decision.basis = "hold" \/ want = held
         \/ held # None /\ held \notin w.quoted[s]
      THEN held
      ELSE IF want \in w.quoted[s] THEN want ELSE None

\* simulate_window_from_cache: the holding of each session of the window that
\* starts at s, from cash, with the decision of the session before.
Trace(w, rows, who, s) ==
  LET held[d \in Window(s)] ==
        IF d = 1 THEN None
        ELSE Traded(w, IF d = s THEN None ELSE held[d - 1], Decision(w, rows, who, d - 1), d)
  IN  held

Return(w, rows, who, s) ==
  LET held == Trace(w, rows, who, s)
  IN  MapThenSumSet(LAMBDA d : IF held[d] # None /\ held[d] \in w.quoted[d]
                               THEN w.move[d][held[d]] ELSE 0, Window(s))

\* Mutant: the last session of a window decides whether it was scored.
EndScored(rows) == {s \in Starts : s + Horizon - 1 \in EvalDates(rows)}

Paired(rows) == {s \in Starts : Window(s) \subseteq EvalDates(rows)}

------------------------------------------------------------------------------
\* Of a set of windows: how many exceed each threshold, summed; the ruined ones.
Utility(w, rows, who, s) == Cardinality({x \in Thresholds : Return(w, rows, who, s) > x})
TailScore(w, rows, who, S) == MapThenSumSet(LAMBDA s : Utility(w, rows, who, s), S)
Ruined(w, rows, who, S) == {s \in S : Return(w, rows, who, s) < RuinAt}
Total(w, rows, who, S) == MapThenSumSet(LAMBDA s : Return(w, rows, who, s), S)

\* evaluate_championship_adoption, `sure` being that the interval of the paired
\* differences does not reach below zero.
Adopted(w, rows, S, sure) ==
  /\ sure
  /\ ~w.breach
  /\ 100 * Cardinality(Ruined(w, rows, "candidate", S)) <= RuinMax * Cardinality(S)
  /\ TailScore(w, rows, "candidate", S) >= TailScore(w, rows, "incumbent", S)

NeverBehind(w, rows, S) ==
  \A s \in S : Utility(w, rows, "candidate", s) >= Utility(w, rows, "incumbent", s)

\* What the comparison by years counts, with a threshold of ruin of its own.
Exceeding(w, rows, who, S) == {s \in S : Return(w, rows, who, s) > Hurdle}
Losing(w, rows, who, S) == {s \in S : Return(w, rows, who, s) < LossAt}

\* Per window of S, x exceeds y by no more than tol thousandths.
NotMore(x, y, tol, S) == 1000 * (x - y) <= tol * Cardinality(S)

\* evaluate_loyo_years: within a year not materially worse in the share above the
\* hurdle, in ruin and in the mean.
NotInferior(w, rows, S) ==
  /\ NotMore(Cardinality(Exceeding(w, rows, "incumbent", S)),
             Cardinality(Exceeding(w, rows, "candidate", S)), P50Tol, S)
  /\ NotMore(Cardinality(Losing(w, rows, "candidate", S)),
             Cardinality(Losing(w, rows, "incumbent", S)), RuinTol, S)
  /\ NotMore(Total(w, rows, "incumbent", S), Total(w, rows, "candidate", S), MeanTol, S)

ByYear(S) == {{s \in S : Year[s] = y} : y \in {Year[s] : s \in S}}
Compared(S) == {slice \in ByYear(S) : Cardinality(slice) >= MinYear}

Required(n) == IF n >= 8 THEN 6 ELSE Larger(1, (3 * n + 3) \div 4)

\* evaluate_promotion_robustness: over all windows the share without tolerance, and
\* not nearly all of the successes in the recent years.
Robust(w, rows, S) ==
  LET years == Compared(S)
      hits  == Exceeding(w, rows, "candidate", S)
  IN  /\ years # {}
      /\ Cardinality({slice \in years : NotInferior(w, rows, slice)}) >= Required(Cardinality(years))
      /\ Cardinality(hits) >= Cardinality(Exceeding(w, rows, "incumbent", S))
      /\ NotMore(Cardinality(Losing(w, rows, "candidate", S)),
                 Cardinality(Losing(w, rows, "incumbent", S)), RuinTol, S)
      /\ 100 * Cardinality({s \in hits : Year[s] \in Recent}) <= RecentMax * Cardinality(hits)

\* Mutant: counts the sessions on which the holdings differ.
DiscordantSessions(w, rows, S) ==
  Cardinality({x \in S \X Sessions : x[2] \in Window(x[1]) /\
     Trace(w, rows, "candidate", x[1])[x[2]] # Trace(w, rows, "incumbent", x[1])[x[2]]})

Discordant(w, rows, S) ==
  Cardinality({s \in S : Trace(w, rows, "candidate", s) # Trace(w, rows, "incumbent", s)})

Status(w, rows, S, sure) ==
  IF ~ (Adopted(w, rows, S, sure) /\ Robust(w, rows, S)) THEN "RESEARCH_ONLY"
  ELSE IF Discordant(w, rows, S) < MinDiscordant THEN "INSUFFICIENT_POWER"
  ELSE "PROMOTE"

------------------------------------------------------------------------------
Init ==
  /\ world \in Worlds
  /\ labels = {} /\ folds = {} /\ scores = {}
  /\ evaluation = Verdict("none") /\ artifact = Verdict("none")
  /\ pc = "inputs"

\* The command line and the configuration name the same mode, the panel has rows
\* and the split is one that can purge.
InputsAccepted(w) ==
  /\ w.asked = w.mode
  /\ \E d \in Sessions : w.quoted[d] # {}
  /\ Embargo >= Horizon /\ NFolds >= 2

\* Refused inputs end the command without a verdict: the artifact of an earlier
\* run stays.
Inputs ==
  /\ pc = "inputs"
  /\ pc' = IF InputsAccepted(world) THEN "label" ELSE "done"
  /\ UNCHANGED <<world, labels, folds, scores, evaluation, artifact>>

\* Whatever fails before the verdict makes the run RESEARCH_ONLY.
Fail ==
  /\ evaluation' = Verdict("RESEARCH_ONLY") /\ pc' = "write"
  /\ UNCHANGED <<world, labels, folds, scores, artifact>>

Label ==
  /\ pc = "label"
  /\ \/ LabelRows(world) = {} /\ Fail
     \/ /\ LabelRows(world) # {}
        /\ labels' = LabelRows(world) /\ pc' = "split"
        /\ UNCHANGED <<world, folds, scores, evaluation, artifact>>

Split ==
  /\ pc = "split"
  /\ \/ Usable(DecisionDates(labels)) <= 0 /\ Fail
     \/ /\ Usable(DecisionDates(labels)) > 0
        /\ folds' = Folds(DecisionDates(labels)) /\ pc' = "fit"
        /\ UNCHANGED <<world, labels, scores, evaluation, artifact>>

Unfitted == {fold \in folds : \A row \in scores : row.fold # fold.id}

FitFold ==
  /\ pc = "fit" /\ Unfitted # {}
  /\ LET fold == CHOOSE f \in Unfitted : \A g \in Unfitted : f.id <= g.id
     IN  \E ranking \in Fitted, active \in Activations(world, fold) :
           scores' = scores \cup FoldScores(world, fold, ranking, active)
  /\ UNCHANGED <<world, labels, folds, evaluation, artifact, pc>>

\* The scores are accepted, then the five replays and the judgement of what
\* they have in common.
Unusable ==
  \/ Refused(world, scores) \/ Paired(scores) = {}
  \/ world.breach /\ world.mode = "p27_matched_2x"

Judge ==
  /\ pc = "fit" /\ Unfitted = {}
  /\ \/ Unusable /\ Fail
     \/ /\ ~Unusable
        /\ LET S == Paired(scores)
           IN  \E sure \in IF NeverBehind(world, scores, S) THEN {TRUE} ELSE BOOLEAN :
                 evaluation' = [status |-> Status(world, scores, S, sure),
                                discordant |-> Discordant(world, scores, S)]
        /\ pc' = "write"
        /\ UNCHANGED <<world, labels, folds, scores, artifact>>

\* ChampionEvaluation.write: a temporary file, renamed over the artifact; the
\* command ignores an error of either.
Write ==
  /\ pc = "write"
  /\ \/ artifact' = evaluation
     \/ UNCHANGED artifact
  /\ pc' = "done"
  /\ UNCHANGED <<world, labels, folds, scores, evaluation>>

Next == Inputs \/ Label \/ Split \/ FitFold \/ Judge \/ Write
Spec == Init /\ [][Next]_vars

------------------------------------------------------------------------------
TypeOK ==
  /\ labels \subseteq Sessions \X Tickers
  /\ \A fold \in folds : fold.train \cup Scored(fold) \subseteq DecisionDates(labels)
  /\ \A row \in scores : row.date \in Sessions /\ row.ticker \in Tickers
  /\ pc \in {"inputs", "label", "split", "fit", "write", "done"}

\* No label that trains a fold reads a price of a date the fold scores or of a
\* later one, wherever dates without a label fall (the gap is counted in
\* labelled dates, the look-ahead of a label in sessions).
PurgedLabels ==
  \A fold \in folds : \A d \in fold.train, w \in Scored(fold) : d + Horizon < w

\* In the windows that are compared, every decision taken inside a window and
\* executed in it is the candidate's own - a model's or, with the hurdle, the
\* incumbent's it falls back on - and a model's decision comes from a fold whose
\* labels had all ended by then.
PairsAreOutOfSample ==
  pc \in {"write", "done"} =>
    \A s \in Paired(scores) : \A d \in s .. s + Horizon - 2 :
      LET decision == Candidate(world, scores, d)
          behind   == {row \in Served(world, scores, d) : row.ticker = decision.want}
      IN  /\ decision.basis = "hold" =>
               world.mode = "executable_hurdle" /\ world.wanted[d] \notin DirectCandidates(world, d)
          /\ decision.basis = "model" =>
               \A row \in behind : \A fold \in folds :
                 row.fold = fold.id => \A x \in fold.train : x + Horizon < d

\* A candidate on record as promoted beat the incumbent in the tail, was not
\* ruined too often, did so over windows that were scored on each of their days, and held
\* something else in enough of them.
PromotionEarned ==
  artifact.status = "PROMOTE" =>
    LET S == {s \in Starts : \A d \in Window(s) : \E fold \in folds : d \in fold.test}
    IN  /\ S # {} /\ ~world.breach
        /\ TailScore(world, scores, "candidate", S) >= TailScore(world, scores, "incumbent", S)
        /\ 100 * Cardinality(Ruined(world, scores, "candidate", S)) <= RuinMax * Cardinality(S)
        /\ \E D \in SUBSET S :
             /\ Cardinality(D) >= MinDiscordant
             /\ \A s \in D : \E d \in Window(s) :
                  Trace(world, scores, "candidate", s)[d] # Trace(world, scores, "incumbent", s)[d]
==============================================================================
