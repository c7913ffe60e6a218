--------------------------- MODULE ResearchProofs ---------------------------
(***************************************************************************)
(* What research and decisions trade on, and what the research command      *)
(* concludes.                                                               *)
(* The champion command, for every panel, horizon, embargo, number of folds, *)
(* pattern of dates without a label, ranking a fold may learn and date a     *)
(* hurdle may activate: no fold trains on what it is scored on, the windows  *)
(* that are compared are the candidate's own decisions of dates some fold    *)
(* tests, and a promotion on record was earned on them.                      *)
(* The silver table and the universe, for every calendar, file, order of     *)
(* arrival, filter and window: the table is that of a full build, later rows *)
(* change no universe, and a backtest's bounded panel loses none.            *)
(***************************************************************************)
EXTENDS PointInTimeUniverse, AdaptiveSpecialists, FiniteSetTheorems, WellFoundedInduction, TLAPS

LEMMA GapCovers == Gap \in Nat /\ Gap > Horizon
  BY SplitAssumption DEF Gap, Larger

\* A rank counts dates of a finite set.
LEMMA RankType ==
  ASSUME NEW D \in SUBSET Int, IsFiniteSet(D), NEW d \in Int
  PROVE  IsFiniteSet({e \in D : e <= d}) /\ Rank(D, d) \in Nat
  <1>1. {e \in D : e <= d} \subseteq D
    OBVIOUS
  <1>2. IsFiniteSet({e \in D : e <= d})
    BY <1>1, FS_Subset
  <1> QED
    BY <1>2, FS_CardinalityType DEF Rank

\* Ranks grow no faster than the dates: D has at most one date a session.
LEMMA RankGrowth ==
  ASSUME NEW D \in SUBSET Int, IsFiniteSet(D), NEW d \in Int, NEW w \in Int
  PROVE  /\ w <= d => Rank(D, w) <= Rank(D, d)
         /\ d <= w => Rank(D, w) <= Rank(D, d) + (w - d)
  <1> DEFINE A == {e \in D : e <= d}
             B == {e \in D : d < e /\ e <= w}
  <1>a. IsFiniteSet(A) /\ Cardinality(A) \in Nat /\ Rank(D, d) = Cardinality(A)
    BY RankType DEF Rank
  <1>b. \A e \in D : e \in Int
    OBVIOUS
  <1>1. ASSUME w <= d PROVE Rank(D, w) <= Rank(D, d)
    <2>1. {e \in D : e <= w} \subseteq A
      <3>1. \A e \in D : e <= w => e <= d
        BY <1>1, <1>b
      <3> QED
        BY <3>1, Zenon
    <2> QED
      BY <2>1, <1>a, FS_Subset DEF Rank
  <1>2. ASSUME d <= w PROVE Rank(D, w) <= Rank(D, d) + (w - d)
    <2>1. {e \in D : e <= w} = A \cup B
      <3>1. \A e \in D : e <= w <=> (e <= d \/ (d < e /\ e <= w))
        BY <1>2, <1>b
      <3> QED
        BY <3>1, Zenon
    <2>2. A \cap B = {}
      <3>1. \A e \in D : ~(e <= d /\ d < e)
        BY <1>b
      <3> QED
        BY <3>1, Zenon
    <2>3. B \subseteq (d + 1) .. w
      <3>1. \A e \in D : d < e /\ e <= w => e \in (d + 1) .. w
        BY <1>b
      <3> QED
        BY <3>1, Zenon
    <2>4. IsFiniteSet((d + 1) .. w) /\ Cardinality((d + 1) .. w) = w - d
      <3>1. IsFiniteSet((d + 1) .. w)
            /\ Cardinality((d + 1) .. w) = IF d + 1 > w THEN 0 ELSE w - (d + 1) + 1
        BY FS_Interval
      <3> QED
        BY <3>1, <1>2
    <2>5. IsFiniteSet(B) /\ Cardinality(B) <= w - d /\ Cardinality(B) \in Nat
      BY <2>3, <2>4, FS_Subset, FS_CardinalityType
    <2>6. Cardinality(A \cup B) = Cardinality(A) + Cardinality(B) - Cardinality({})
      BY <1>a, <2>5, <2>2, FS_Union
    <2>7. Cardinality({}) = 0
      BY FS_EmptySet
    <2>8. Rank(D, w) = Cardinality(A \cup B)
      BY <2>1, Zenon DEF Rank
    <2> HIDE DEF A, B
    <2> QED
      BY <2>5, <2>6, <2>7, <2>8, <1>a
  <1> QED
    BY <1>1, <1>2

LEMMA TrainEndType ==
  ASSUME NEW D, IsFiniteSet(D), NEW k \in Nat
  PROVE  TrainEnd(D, k) \in Int
  <1>1. Cardinality(D) \in Nat
    BY FS_CardinalityType
  <1>2. Usable(D) \in Int
    BY <1>1, GapCovers, SplitAssumption DEF Usable
  <1>3. Usable(D) \div NFolds \in Int
    BY <1>2, SplitAssumption
  <1>4. TestSize(D) \in Int
    BY <1>3 DEF TestSize, Larger
  <1> QED
    BY <1>4, SplitAssumption DEF TrainEnd

\* Within one fold, a scored date lies more than Horizon sessions after every
\* training date.
LEMMA FoldIsPurged ==
  ASSUME NEW D \in SUBSET Int, IsFiniteSet(D), NEW k \in Nat,
         NEW d \in Fold(D, k).train, NEW w \in Scored(Fold(D, k))
  PROVE  d + Horizon < w
  <1> DEFINE T == TrainEnd(D, k)
  <1>1. T \in Int /\ Gap \in Nat /\ Gap > Horizon /\ Horizon \in Nat
    BY TrainEndType, GapCovers, SplitAssumption
  <1>2. d \in D /\ Rank(D, d) <= T
    BY DEF Fold, Slice
  <1>3. w \in D /\ T + Gap - 1 < Rank(D, w)
    <2>1. w \in Slice(D, TestStart(D, k) - 1, TestStart(D, k))
          \/ w \in Slice(D, TestStart(D, k), TestEnd(D, k))
      BY DEF Scored, Fold
    <2>2. w \in D
      BY <2>1 DEF Slice
    <2>3. Rank(D, w) \in Nat
      BY <2>2, RankType
    <2>4. TestStart(D, k) = T + Gap
      BY DEF TestStart
    <2>5. TestStart(D, k) - 1 < Rank(D, w)
      BY <2>1, <2>3, <2>4, <1>1 DEF Slice
    <2> HIDE DEF T
    <2>6. T + Gap - 1 = TestStart(D, k) - 1
      BY <2>4, <1>1
    <2> QED
      BY <2>2, <2>5, <2>6
  <1>4. d \in Int /\ w \in Int /\ Rank(D, d) \in Nat /\ Rank(D, w) \in Nat
    BY <1>2, <1>3, RankType
  <1>5. /\ w <= d => Rank(D, w) <= Rank(D, d)
        /\ d <= w => Rank(D, w) <= Rank(D, d) + (w - d)
    BY <1>4, RankGrowth
  <1>6. Rank(D, d) + Gap <= Rank(D, w)
    BY <1>1, <1>2, <1>3, <1>4
  <1>7. ~(w <= d)
    BY <1>1, <1>4, <1>5, <1>6
  <1> QED
    BY <1>1, <1>4, <1>5, <1>6, <1>7

------------------------------------------------------------------------------
\* The folds of a run, once there are any, are the split of its labelled dates.
SplitInv ==
  /\ DecisionDates(labels) \subseteq Sessions
  /\ pc \in {"inputs", "label", "split"} => folds = {}
  /\ folds = {} \/ folds = Folds(DecisionDates(labels))

LEMMA SplitInitially == Init => SplitInv
  BY DEF Init, SplitInv, DecisionDates

LEMMA SplitPreserved == SplitInv /\ [Next]_vars => SplitInv'
  <1> SUFFICES ASSUME SplitInv, [Next]_vars PROVE SplitInv'
    OBVIOUS
  <1>0. CASE Inputs
    BY <1>0 DEF Inputs, SplitInv, DecisionDates
  <1>1. CASE Label
    <2>1. CASE Fail
      BY <1>1, <2>1 DEF Label, Fail, SplitInv
    <2>2. CASE labels' = LabelRows(world) /\ pc' = "split" /\ UNCHANGED <<world, folds, scores, evaluation, artifact>>
      <3>1. DecisionDates(LabelRows(world)) \subseteq Sessions
        BY DEF DecisionDates, LabelRows
      <3>2. folds = {}
        BY <1>1 DEF Label, SplitInv
      <3> QED
        BY <2>2, <3>1, <3>2 DEF SplitInv, DecisionDates
    <2> QED
      BY <1>1, <2>1, <2>2 DEF Label
  <1>2. CASE Split
    BY <1>2 DEF Split, Fail, SplitInv, DecisionDates
  <1>3. CASE FitFold
    BY <1>3 DEF FitFold, SplitInv, DecisionDates
  <1>4. CASE Judge
    BY <1>4 DEF Judge, Fail, SplitInv, DecisionDates
  <1>5. CASE Write
    BY <1>5 DEF Write, SplitInv, DecisionDates
  <1>6. CASE UNCHANGED vars
    BY <1>6 DEF vars, SplitInv, DecisionDates
  <1> QED
    BY <1>0, <1>1, <1>2, <1>3, <1>4, <1>5, <1>6 DEF Next

LEMMA SplitPurges == SplitInv => PurgedLabels
  <1> SUFFICES ASSUME SplitInv, NEW fold \in folds, NEW d \in fold.train, NEW w \in Scored(fold)
               PROVE  d + Horizon < w
    BY DEF PurgedLabels
  <1> DEFINE D == DecisionDates(labels)
  <1>1. D \in SUBSET Int /\ IsFiniteSet(D)
    <2>1. IsFiniteSet(Sessions)
      <3>1. 1 \in Int /\ LastSession \in Int
        BY ResearchAssumption
      <3>2. IsFiniteSet(1 .. LastSession)
        BY <3>1, FS_Interval
      <3> QED
        BY <3>2 DEF Sessions
    <2> QED
      BY <2>1, FS_Subset, ResearchAssumption DEF SplitInv, Sessions
  <1>2. PICK k \in 0 .. NFolds - 1 : fold = Fold(D, k)
    BY DEF SplitInv, Folds
  <1>3. k \in Nat
    BY <1>2
  <1> QED
    BY <1>1, <1>2, <1>3, FoldIsPurged

------------------------------------------------------------------------------
(* Scores and folds *)

LEMMA LeastExists ==
  ASSUME NEW T \in SUBSET Nat, T # {}
  PROVE  \E x \in T : \A y \in T : x <= y
  <1>1. \E x \in T : \A y \in T : ~ (<<y, x>> \in OpToRel(<, Nat))
    BY NatLessThanWellFounded, WFMin
  <1>2. PICK x \in T : \A y \in T : ~ (<<y, x>> \in OpToRel(<, Nat))
    BY <1>1
  <1>3. \A y \in T : ~ (y < x)
    BY <1>2 DEF OpToRel
  <1> QED
    BY <1>3

\* What one fold adds: candidates of the dates it scores, under its number, and
\* judged on the dates of its test.
LEMMA FoldScoresAre ==
  ASSUME NEW w, NEW fold, NEW ranking, NEW active,
         NEW row \in FoldScores(w, fold, ranking, active)
  PROVE  /\ row.date \in Scored(fold) /\ row.ticker \in Candidates(w, row.date)
         /\ row.fold = fold.id /\ (row.evaluated => row.date \in fold.test)
  <1> DEFINE judged(key) == key[1] \in fold.test
             lit(key) == key[1] \in active
  <1>1. PICK key \in Scored(fold) \X Tickers :
          /\ key[2] \in Candidates(w, key[1])
          /\ row = [date |-> key[1], ticker |-> key[2], fold |-> fold.id, through |-> Max(fold.train),
                    evaluated |-> judged(key), score |-> ranking[key[2]], active |-> lit(key)]
    BY Zenon DEF FoldScores
  <1> HIDE DEF judged, lit
  <1>2. /\ row.date = key[1] /\ row.ticker = key[2] /\ row.fold = fold.id
        /\ row.evaluated = judged(key)
    BY <1>1
  <1>3. row.evaluated => row.date \in fold.test
    BY <1>2, Zenon DEF judged
  <1> QED
    BY <1>1, <1>2, <1>3

LEMMA TestIsScored ==
  ASSUME NEW w, NEW fold, NEW ranking, NEW active,
         NEW d \in fold.test, NEW t \in Tickers, t \in Candidates(w, d)
  PROVE  \E row \in FoldScores(w, fold, ranking, active) :
           row.date = d /\ row.evaluated
  <1> DEFINE judged(key) == key[1] \in fold.test
             lit(key) == key[1] \in active
             made(key) == [date |-> key[1], ticker |-> key[2], fold |-> fold.id,
                           through |-> Max(fold.train), evaluated |-> judged(key),
                           score |-> ranking[key[2]], active |-> lit(key)]
             key == <<d, t>>
  <1>1. key \in Scored(fold) \X Tickers /\ key[2] \in Candidates(w, key[1]) /\ key[1] = d
    BY DEF Scored
  <1>2. judged(key)
    BY <1>1
  <1> HIDE DEF key
  <1>3. made(key) \in FoldScores(w, fold, ranking, active)
    BY <1>1, Zenon DEF FoldScores
  <1> HIDE DEF judged, lit
  <1>4. made(key).date = d /\ made(key).evaluated = judged(key)
    BY <1>1
  <1>5. made(key).evaluated
    BY <1>2, <1>4, Zenon
  <1> QED
    BY <1>3, <1>4, <1>5

\* The rows so far: each is of a candidate, under the number of a fold, and a fold
\* with a row has judged rows on each day of its test.
ScoresInv ==
  /\ labels \in {{}, LabelRows(world)}
  /\ \A row \in scores :
       /\ row.date \in Sessions /\ row.ticker \in Candidates(world, row.date)
       /\ \E fold \in folds : row.fold = fold.id /\ (row.evaluated => row.date \in fold.test)
  /\ \A fold \in folds :
       (\E row \in scores : row.fold = fold.id) => fold.test \subseteq EvalDates(scores)

\* Folds have numbers of their own and score labelled dates.
LEMMA FoldsAre ==
  ASSUME SplitInv
  PROVE  /\ \A f, g \in folds : f.id = g.id => f = g
         /\ \A f \in folds : f.id \in Nat /\ Scored(f) \subseteq DecisionDates(labels)
  <1>1. \A f \in folds : \E k \in 0 .. NFolds - 1 : f = Fold(DecisionDates(labels), k)
    BY DEF SplitInv, Folds
  <1>2. \A D, k : Fold(D, k).id = k /\ Scored(Fold(D, k)) \subseteq D
    BY DEF Fold, Scored, Slice
  <1>3. \A f \in folds : f.id \in 0 .. NFolds - 1 /\ f = Fold(DecisionDates(labels), f.id)
    BY <1>1, <1>2
  <1>4. \A f \in folds : Scored(f) \subseteq DecisionDates(labels)
    BY <1>2, <1>3
  <1>5. \A k \in 0 .. NFolds - 1 : k \in Nat
    OBVIOUS
  <1> QED
    BY <1>3, <1>4, <1>5

LEMMA ScoresPreserved == SplitInv /\ ScoresInv /\ [Next]_vars => ScoresInv'
  <1> SUFFICES ASSUME SplitInv, ScoresInv, [Next]_vars PROVE ScoresInv'
    OBVIOUS
  <1>1. ASSUME UNCHANGED <<world, labels, folds, scores>> PROVE ScoresInv'
    BY <1>1 DEF ScoresInv, EvalDates, Evaluated
  <1>2. CASE Fail
    BY <1>1, <1>2 DEF Fail
  <1>3. CASE Label /\ ~ Fail
    <2>1. labels' = LabelRows(world) /\ UNCHANGED <<world, folds, scores>>
      BY <1>3 DEF Label
    <2> QED
      BY <2>1 DEF ScoresInv, EvalDates, Evaluated
  <1>4. CASE Split /\ ~ Fail
    <2>1. UNCHANGED <<world, labels, scores>>
      BY <1>4 DEF Split
    <2>2. scores = {}
      BY <1>4 DEF Split, SplitInv, ScoresInv
    <2> QED
      BY <2>1, <2>2 DEF ScoresInv
  <1>5. CASE FitFold
    <2> DEFINE fold == CHOOSE f \in Unfitted : \A g \in Unfitted : f.id <= g.id
    <2>1. PICK ranking \in Fitted, active \in Activations(world, fold) :
            scores' = scores \cup FoldScores(world, fold, ranking, active)
      BY <1>5, Zenon DEF FitFold
    <2>2. Unfitted # {} /\ UNCHANGED <<world, labels, folds>>
      BY <1>5 DEF FitFold
    <2>3. fold \in Unfitted
      <3> DEFINE T == {f.id : f \in Unfitted}
      <3>1. T \in SUBSET Nat /\ T # {}
        BY <2>2, FoldsAre DEF Unfitted
      <3>2. \E x \in T : \A y \in T : x <= y
        BY <3>1, LeastExists
      <3>3. \E f \in Unfitted : \A g \in Unfitted : f.id <= g.id
        BY <3>2
      <3> QED
        BY <3>3
    <2> HIDE DEF fold
    <2>4. fold \in folds /\ Scored(fold) \subseteq Sessions
      BY <2>3, FoldsAre DEF Unfitted, SplitInv
    <2> DEFINE new == FoldScores(world, fold, ranking, active)
    <2>5. \A row \in new :
            /\ row.date \in Scored(fold) /\ row.ticker \in Candidates(world, row.date)
            /\ row.fold = fold.id /\ (row.evaluated => row.date \in fold.test)
      BY FoldScoresAre
    <2>6. \A d \in fold.test : \E row \in new : row.date = d /\ row.evaluated
      <3> SUFFICES ASSUME NEW d \in fold.test PROVE \E row \in new : row.date = d /\ row.evaluated
        OBVIOUS
      <3>1. d \in DecisionDates(labels)
        BY <2>4, FoldsAre DEF Scored
      <3>2. \E x \in labels : d = x[1]
        BY <3>1 DEF DecisionDates
      <3>3. PICK x \in LabelRows(world) : d = x[1]
        BY <3>2 DEF ScoresInv
      <3>4. x[2] \in Tickers /\ x[2] \in Candidates(world, d)
        BY <3>3 DEF LabelRows
      <3> QED
        BY <3>4, TestIsScored
    <2> HIDE DEF new
    <2>7. scores' = scores \cup new
      BY <2>1 DEF new
    <2>8. ASSUME NEW row \in scores'
          PROVE  /\ row.date \in Sessions /\ row.ticker \in Candidates(world, row.date)
                 /\ \E f \in folds : row.fold = f.id /\ (row.evaluated => row.date \in f.test)
      <3>1. CASE row \in scores
        BY <3>1 DEF ScoresInv
      <3>2. CASE row \in new
        BY <2>4, <2>5, <3>2
      <3> QED
        BY <2>7, <3>1, <3>2
    <2>9. ASSUME NEW f \in folds, NEW row \in scores', row.fold = f.id, NEW d \in f.test
          PROVE  d \in EvalDates(scores')
      <3>1. CASE row \in scores
        <4>1. d \in EvalDates(scores)
          BY <2>9, <3>1 DEF ScoresInv
        <4> QED
          BY <2>7, <4>1 DEF EvalDates, Evaluated
      <3>2. CASE row \in new
        <4>1. f = fold
          BY <2>4, <2>5, <2>9, <3>2, FoldsAre
        <4>2. PICK r \in new : r.date = d /\ r.evaluated
          BY <2>6, <4>1, <2>9
        <4> QED
          BY <2>7, <4>2 DEF EvalDates, Evaluated
      <3> QED
        BY <2>7, <3>1, <3>2
    <2>10. \A f \in folds : (\E row \in scores' : row.fold = f.id) => f.test \subseteq EvalDates(scores')
      BY <2>9
    <2>11. EvalDates(scores') = EvalDates(scores)'
      BY DEF EvalDates, Evaluated
    <2> QED
      BY <2>2, <2>8, <2>10, <2>11 DEF ScoresInv
  <1>6. CASE Inputs \/ Write \/ (Judge /\ ~ Fail)
    BY <1>1, <1>6 DEF Inputs, Write, Judge
  <1>7. CASE UNCHANGED vars
    BY <1>1, <1>7 DEF vars
  <1> QED
    BY <1>2, <1>3, <1>4, <1>5, <1>6, <1>7 DEF Next

------------------------------------------------------------------------------
(* What is served, and what a window holds *)

\* On a day with judged rows something is served, by a fold that tests the day.
LEMMA ServedIs ==
  ASSUME SplitInv, ScoresInv, NEW d \in EvalDates(scores)
  PROVE  /\ Served(world, scores, d) # {}
         /\ \A row \in Served(world, scores, d) : \A fold \in folds :
              row.fold = fold.id => d \in fold.test
  <1>1. PICK row \in scores : row.evaluated /\ row.date = d
    BY DEF EvalDates, Evaluated
  <1>2. row.ticker \in Candidates(world, d)
    BY <1>1 DEF ScoresInv
  <1>3. Candidates(world, d) \subseteq world.quoted[d]
    BY DEF Candidates, DirectCandidates, FamilyCandidates
  <1>4. row \in Served(world, scores, d)
    BY <1>1, <1>2, <1>3 DEF Served, Evaluated
  <1>5. ASSUME NEW r \in Served(world, scores, d), NEW fold \in folds, r.fold = fold.id
        PROVE  d \in fold.test
    <2>1. r \in scores /\ r.evaluated /\ r.date = d
      BY DEF Served, Evaluated
    <2>2. PICK f \in folds : r.fold = f.id /\ (r.evaluated => r.date \in f.test)
      BY <2>1 DEF ScoresInv
    <2> QED
      BY <1>5, <2>1, <2>2, FoldsAre
  <1> QED
    BY <1>4, <1>5

LEMMA PairsFollow == SplitInv /\ ScoresInv => PairsAreOutOfSample
  <1> SUFFICES ASSUME SplitInv, ScoresInv, NEW s \in Paired(scores),
                      NEW d \in s .. s + Horizon - 2
               PROVE  LET decision == Candidate(world, scores, d)
                          behind   == {row \in Served(world, scores, d) : row.ticker = decision.want}
                      IN  /\ decision.basis = "hold" =>
                               /\ world.mode = "executable_hurdle"
                               /\ world.wanted[d] \notin DirectCandidates(world, d)
                          /\ decision.basis = "model" =>
                               \A row \in behind : \A fold \in folds :
                                 row.fold = fold.id => \A x \in fold.train : x + Horizon < d
    BY Zenon DEF PairsAreOutOfSample
  <1>1. d \in EvalDates(scores)
    <2>1. s \in Int /\ Horizon \in Nat /\ Window(s) \subseteq EvalDates(scores)
      BY ResearchAssumption, SplitAssumption DEF Paired, Starts
    <2>2. d \in Window(s)
      BY <2>1 DEF Window
    <2> QED
      BY <2>1, <2>2
  <1>2. Served(world, scores, d) # {}
    BY <1>1, ServedIs
  <1>3. Candidate(world, scores, d).basis = "hold" =>
          /\ world.mode = "executable_hurdle"
          /\ world.wanted[d] \notin DirectCandidates(world, d)
    BY <1>2 DEF Candidate, Choice
  <1>4. ASSUME NEW row \in Served(world, scores, d), NEW fold \in folds, row.fold = fold.id,
               NEW x \in fold.train
        PROVE  x + Horizon < d
    <2>1. d \in Scored(fold)
      BY <1>1, <1>4, ServedIs DEF Scored
    <2> QED
      BY <2>1, SplitPurges DEF PurgedLabels
  <1> QED
    BY <1>3, <1>4

\* The holding after a session of a window, given the one before it.
HeldAfter(w, rows, who, s, before, d) ==
  IF d = 1 THEN None
  ELSE Traded(w, IF d = s THEN None ELSE before, Decision(w, rows, who, d - 1), d)

\* The equation of the holdings of the first n sessions of the window of s.
Traces(held, w, rows, who, s, n) ==
  held = [d \in s .. s + n - 1 |-> HeldAfter(w, rows, who, s, held[d - 1], d)]

LEMMA TracesExist ==
  ASSUME NEW w, NEW rows, NEW who, NEW s \in Nat, NEW n \in Nat
  PROVE  \E held : Traces(held, w, rows, who, s, n)
  <1> DEFINE T == {m \in Nat : ~ \E held : Traces(held, w, rows, who, s, m)}
  <1> SUFFICES ASSUME T # {} PROVE FALSE
    OBVIOUS
  <1>1. PICK m \in T : \A k \in T : m <= k
    BY LeastExists
  <1>2. m # 0
    <2>1. Traces([d \in s .. s + 0 - 1 |-> None], w, rows, who, s, 0)
      <3>1. s .. s + 0 - 1 = {}
        OBVIOUS
      <3> QED
        BY <3>1 DEF Traces
    <2> QED
      BY <2>1
  <1>3. PICK held : Traces(held, w, rows, who, s, m - 1)
    <2>1. m - 1 \in Nat /\ ~ (m <= m - 1)
      BY <1>2
    <2> QED
      BY <1>1, <2>1
  <1> DEFINE last == s + m - 1
             r == [d \in s .. last |-> IF d = last THEN HeldAfter(w, rows, who, s, held[d - 1], d)
                                       ELSE held[d]]
  <1>4. ASSUME NEW d \in s .. last
        PROVE  r[d] = HeldAfter(w, rows, who, s, r[d - 1], d)
    <2>1. d \in Int /\ last \in Int
      OBVIOUS
    <2>2. d - 1 \in s .. last - 1 => r[d - 1] = held[d - 1]
      <3>1. d - 1 \in s .. last - 1 => d - 1 \in s .. last /\ d - 1 # last
        BY <2>1
      <3> QED
        BY <3>1
    <2>3. d # s => d - 1 \in s .. last - 1
      BY <2>1
    <2>4. r[d] = HeldAfter(w, rows, who, s, held[d - 1], d)
      <3>1. CASE d = last
        BY <3>1
      <3>2. CASE d # last
        <4>1. d \in s .. s + (m - 1) - 1
          BY <2>1, <3>2
        <4>2. held[d] = HeldAfter(w, rows, who, s, held[d - 1], d)
          BY <1>3, <4>1 DEF Traces
        <4> QED
          BY <3>2, <4>2
      <3> QED
        BY <3>1, <3>2
    <2> HIDE DEF r
    <2>5. d = s => \A x, y : HeldAfter(w, rows, who, s, x, d) = HeldAfter(w, rows, who, s, y, d)
      BY DEF HeldAfter
    <2> QED
      BY <2>2, <2>3, <2>4, <2>5
  <1>5. r = [d \in s .. last |-> r[d]]
    OBVIOUS
  <1> HIDE DEF r
  <1>6. Traces(r, w, rows, who, s, m)
    BY <1>4, <1>5 DEF Traces
  <1> QED
    BY <1>6

\* A trace is a function on its window, so different traces differ on a session.
LEMMA TraceIs ==
  ASSUME NEW w, NEW rows, NEW who, NEW s \in Nat
  PROVE  Trace(w, rows, who, s) = [d \in Window(s) |-> Trace(w, rows, who, s)[d]]
  <1> DEFINE held == CHOOSE held : Traces(held, w, rows, who, s, Horizon)
  <1>1. Traces(held, w, rows, who, s, Horizon)
    BY SplitAssumption, TracesExist
  <1>2. Trace(w, rows, who, s) = held
    BY DEF Trace, Traces, HeldAfter, Window
  <1> HIDE DEF held
  <1>3. held = [d \in Window(s) |-> held[d]]
    BY <1>1 DEF Traces, Window
  <1> QED
    BY <1>2, <1>3

LEMMA TracesDiffer ==
  ASSUME NEW w, NEW rows, NEW s \in Nat,
         Trace(w, rows, "candidate", s) # Trace(w, rows, "incumbent", s)
  PROVE  \E d \in Window(s) :
           Trace(w, rows, "candidate", s)[d] # Trace(w, rows, "incumbent", s)[d]
  <1>1. /\ Trace(w, rows, "candidate", s) = [d \in Window(s) |-> Trace(w, rows, "candidate", s)[d]]
        /\ Trace(w, rows, "incumbent", s) = [d \in Window(s) |-> Trace(w, rows, "incumbent", s)[d]]
    BY TraceIs
  <1> QED
    BY <1>1

------------------------------------------------------------------------------
(* Promotion *)

\* With every fold scored, the windows scored throughout are those whose days are
\* all tested by a fold.
Tested == {s \in Starts : \A d \in Window(s) : \E fold \in folds : d \in fold.test}

LEMMA PairedAreTested ==
  ASSUME SplitInv, ScoresInv, Unfitted = {}
  PROVE  Paired(scores) = Tested
  <1>1. ASSUME NEW d \in EvalDates(scores) PROVE \E fold \in folds : d \in fold.test
    BY DEF EvalDates, Evaluated, ScoresInv
  <1>2. ASSUME NEW fold \in folds, NEW d \in fold.test PROVE d \in EvalDates(scores)
    <2>1. \E row \in scores : row.fold = fold.id
      BY DEF Unfitted
    <2> QED
      BY <2>1 DEF ScoresInv
  <1> QED
    BY <1>1, <1>2 DEF Paired, Tested

\* What a promotion takes, of the scores and folds as they are.
Earned ==
  LET S == Tested
  IN  /\ S # {} /\ ~world.breach
      /\ TailScore(world, scores, "candidate", S) >= TailScore(world, scores, "incumbent", S)
      /\ 100 * Cardinality(Ruined(world, scores, "candidate", S)) <= RuinMax * Cardinality(S)
      /\ \E D \in SUBSET S :
           /\ Cardinality(D) >= MinDiscordant
           /\ \A s \in D : \E d \in Window(s) :
                Trace(world, scores, "candidate", s)[d] # Trace(world, scores, "incumbent", s)[d]

LEMMA PromoteIsEarned ==
  ASSUME SplitInv, ScoresInv, Unfitted = {}, Paired(scores) # {}, NEW sure \in BOOLEAN,
         Status(world, scores, Paired(scores), sure) = "PROMOTE"
  PROVE  Earned
  <1> DEFINE S == Paired(scores)
             D == {s \in S : Trace(world, scores, "candidate", s) # Trace(world, scores, "incumbent", s)}
  <1>1. S = Tested
    BY PairedAreTested
  <1>2. /\ Adopted(world, scores, S, sure)
        /\ ~ (Discordant(world, scores, S) < MinDiscordant)
    BY DEF Status
  <1>3. \A s \in S : s \in Nat
    BY ResearchAssumption, SplitAssumption DEF Paired, Starts
  <1>4. Cardinality(D) >= MinDiscordant
    <2>1. IsFiniteSet(Starts)
      <3>1. LastSession - Horizon + 1 \in Int /\ 1 \in Int
        BY ResearchAssumption, SplitAssumption
      <3>2. IsFiniteSet(1 .. LastSession - Horizon + 1)
        BY <3>1, FS_Interval
      <3> QED
        BY <3>2 DEF Starts
    <2>2. D \subseteq Starts
      BY DEF Paired
    <2>3. IsFiniteSet(D)
      BY <2>1, <2>2, FS_Subset
    <2>4. Cardinality(D) \in Nat
      BY <2>3, FS_CardinalityType
    <2>5. ~ (Cardinality(D) < MinDiscordant)
      BY <1>2 DEF Discordant
    <2> HIDE DEF D
    <2> QED
      BY <2>4, <2>5, ResearchAssumption
  <1>5. \A s \in D : \E d \in Window(s) :
          Trace(world, scores, "candidate", s)[d] # Trace(world, scores, "incumbent", s)[d]
    BY <1>3, TracesDiffer
  <1>6. D \in SUBSET S
    OBVIOUS
  <1> HIDE DEF D, S
  <1>7. /\ ~world.breach
        /\ 100 * Cardinality(Ruined(world, scores, "candidate", S)) <= RuinMax * Cardinality(S)
        /\ TailScore(world, scores, "candidate", S) >= TailScore(world, scores, "incumbent", S)
    BY <1>2 DEF Adopted
  <1>8. S # {}
    BY DEF S
  <1> QED
    BY <1>1, <1>4, <1>5, <1>6, <1>7, <1>8, Zenon DEF Earned

\* A verdict to promote, in memory or on disk, comes after the last fold, and what
\* it was judged on is still there.
VerdictInv ==
  /\ pc \notin {"write", "done"} => evaluation.status # "PROMOTE" /\ artifact.status # "PROMOTE"
  /\ evaluation.status = "PROMOTE" => Earned
  /\ artifact.status = "PROMOTE" => Earned

LEMMA VerdictKept ==
  ASSUME VerdictInv, UNCHANGED <<world, folds, scores>>, artifact' \in {artifact, evaluation},
         evaluation' = evaluation \/ evaluation'.status # "PROMOTE",
         pc' \notin {"write", "done"} => pc \notin {"write", "done"}
  PROVE  VerdictInv'
  <1>1. Earned => Earned'
    BY DEF Earned, Tested
  <1>2. pc' \notin {"write", "done"} =>
          evaluation'.status # "PROMOTE" /\ artifact'.status # "PROMOTE"
    BY DEF VerdictInv
  <1> QED
    BY <1>1, <1>2 DEF VerdictInv

LEMMA VerdictPreserved == SplitInv /\ ScoresInv /\ VerdictInv /\ [Next]_vars => VerdictInv'
  <1> SUFFICES ASSUME SplitInv, ScoresInv, VerdictInv, [Next]_vars PROVE VerdictInv'
    OBVIOUS
  <1>1. CASE Fail
    <2>1. evaluation'.status = "RESEARCH_ONLY"
      BY <1>1 DEF Fail, Verdict
    <2> QED
      BY <1>1, <2>1, VerdictKept DEF Fail
  <1>2. ASSUME pc \notin {"write", "done"}, pc' \notin {"write", "done"},
               UNCHANGED <<evaluation, artifact>>
        PROVE  VerdictInv'
    BY <1>2 DEF VerdictInv
  <1>3. CASE (Label \/ Split \/ FitFold) /\ ~ Fail
    BY <1>2, <1>3 DEF Label, Split, FitFold
  <1>4. CASE Inputs
    BY <1>4, VerdictKept DEF Inputs
  <1>5. CASE Judge /\ ~ Fail
    <2>1. /\ Unfitted = {} /\ Paired(scores) # {} /\ pc' = "write" /\ pc = "fit"
          /\ UNCHANGED <<world, labels, folds, scores, artifact>>
      BY <1>5 DEF Judge, Unusable
    <2>2. PICK sure \in BOOLEAN :
            evaluation' = [status |-> Status(world, scores, Paired(scores), sure),
                           discordant |-> Discordant(world, scores, Paired(scores))]
      BY <1>5, Zenon DEF Judge
    <2>3. evaluation'.status = "PROMOTE" => Earned
      BY <2>1, <2>2, PromoteIsEarned
    <2>4. artifact'.status # "PROMOTE"
      BY <2>1 DEF VerdictInv
    <2>5. Earned => Earned'
      BY <2>1 DEF Earned, Tested
    <2> QED
      BY <2>1, <2>3, <2>4, <2>5 DEF VerdictInv
  <1>6. CASE Write
    BY <1>6, VerdictKept DEF Write
  <1>7. CASE UNCHANGED vars
    BY <1>7, VerdictKept DEF vars
  <1> QED
    BY <1>1, <1>3, <1>4, <1>5, <1>6, <1>7 DEF Next

------------------------------------------------------------------------------
(* The theorems, with the adaptive mode alongside *)

ResearchInv == SplitInv /\ ScoresInv /\ VerdictInv

LEMMA ResearchHolds == AdaptiveSpec => []ResearchInv
  <1>1. AdaptiveInit => ResearchInv
    <2> SUFFICES ASSUME Init PROVE ScoresInv /\ VerdictInv
      BY SplitInitially DEF AdaptiveInit, ResearchInv
    <2>1. ScoresInv
      BY DEF Init, ScoresInv
    <2>2. VerdictInv
      BY DEF Init, VerdictInv, Verdict
    <2> QED
      BY <2>1, <2>2
  <1>2. ResearchInv /\ [AdaptiveNext]_adaptiveVars => ResearchInv'
    <2> SUFFICES ASSUME ResearchInv, [AdaptiveNext]_adaptiveVars PROVE ResearchInv'
      OBVIOUS
    <2>1. CASE [Next]_vars
      BY <2>1, SplitPreserved, ScoresPreserved, VerdictPreserved DEF ResearchInv
    <2>2. CASE CloseWindow /\ ~ UNCHANGED vars
      <3>1. /\ evaluation'.status = "RESEARCH_ONLY" /\ pc' = "write" /\ pc = "label"
            /\ UNCHANGED <<world, labels, folds, scores, artifact>>
        BY <2>2 DEF CloseWindow
      <3>2. VerdictInv'
        BY <3>1, VerdictKept DEF ResearchInv
      <3>3. SplitInv'
        BY <3>1 DEF ResearchInv, SplitInv, DecisionDates
      <3>4. ScoresInv'
        BY <3>1 DEF ResearchInv, ScoresInv, EvalDates, Evaluated
      <3> QED
        BY <3>2, <3>3, <3>4 DEF ResearchInv
    <2> QED
      BY <2>1, <2>2 DEF AdaptiveNext, Survey, Play, adaptiveVars
  <1> QED
    BY <1>1, <1>2, PTL DEF AdaptiveSpec

\* No label that trains a fold reaches a date the fold scores: the gap counts
\* labelled dates and a label counts sessions, and there are never more of the
\* former between two dates than of the latter.
THEOREM LabelsArePurged == AdaptiveSpec => []PurgedLabels
  <1>1. ResearchInv => PurgedLabels
    BY SplitPurges DEF ResearchInv
  <1> QED
    BY <1>1, ResearchHolds, PTL

\* Every decision of a compared window is the candidate's own, and a model's comes
\* from a fold whose labels had ended: a day counts only if a fold tested it, and
\* what is served on a day is of the fold that tested it.
THEOREM ComparedOutOfSample == AdaptiveSpec => []PairsAreOutOfSample
  <1>1. ResearchInv => PairsAreOutOfSample
    BY PairsFollow DEF ResearchInv
  <1> QED
    BY <1>1, ResearchHolds, PTL

\* A promotion on record was earned over the windows that folds test on each of
\* their days: the scores the verdict was reached on are the ones still there.
THEOREM PromotionsAreEarned == AdaptiveSpec => []PromotionEarned
  <1>1. ResearchInv => PromotionEarned
    BY Zenon DEF ResearchInv, VerdictInv, Earned, Tested, PromotionEarned
  <1> QED
    BY <1>1, ResearchHolds, PTL

------------------------------------------------------------------------------
(* The silver table *)

\* A table holds the bronze rows of its sessions, marked over all of them.
TableInv ==
  /\ DOMAIN bronze \subseteq Dates /\ \A d \in DOMAIN bronze : bronze[d] \in Files(d)
  /\ bronze = [d \in DOMAIN bronze |-> bronze[d]]
  /\ silver # NoTable =>
       LET rows == [d \in silver.dates |-> bronze[d]]
       IN  /\ silver.dates \subseteq DOMAIN bronze
           /\ silver = Table(rows, MarkTradability(rows)) /\ ~ IsFatal(rows)

LEMMA CombinedIs ==
  ASSUME TableInv, NEW mode, NEW unread
  PROVE  /\ DOMAIN Combined(mode, unread) \subseteq DOMAIN bronze
         /\ Combined(mode, unread) = [d \in DOMAIN Combined(mode, unread) |-> bronze[d]]
<1> DEFINE old   == Existing(mode)
           fresh == {d \in DOMAIN bronze \ DOMAIN old : d \notin unread /\ ClassifySession(bronze[d])}
<1>1. Combined(mode, unread) = [d \in DOMAIN old \cup fresh |-> IF d \in fresh THEN bronze[d] ELSE old[d]]
  BY DEF Combined
<1>2. DOMAIN old \subseteq DOMAIN bronze /\ \A d \in DOMAIN old : old[d] = bronze[d]
  <2>1. CASE mode = "incremental" /\ silver # NoTable
    <3>1. old = silver.rows BY <2>1 DEF Existing
    <3>2. silver.rows = [d \in silver.dates |-> bronze[d]] BY <2>1 DEF TableInv, Table
    <3>3. QED BY <3>1, <3>2, <2>1 DEF TableInv
  <2>2. CASE ~ (mode = "incremental" /\ silver # NoTable)
    <3>1. old = [d \in {} |-> <<>>] BY <2>2 DEF Existing, Empty
    <3>2. QED BY <3>1
  <2>3. QED BY <2>1, <2>2
<1> HIDE DEF old
<1>3. DOMAIN Combined(mode, unread) = DOMAIN old \cup fresh BY <1>1
<1>4. \A d \in DOMAIN old \cup fresh : (IF d \in fresh THEN bronze[d] ELSE old[d]) = bronze[d]
  BY <1>2
<1>5. Combined(mode, unread) = [d \in DOMAIN old \cup fresh |-> bronze[d]]
  BY <1>1, <1>4
<1>6. QED BY <1>2, <1>3, <1>5

LEMMA TableInitially == SilverInit => TableInv
<1> SUFFICES ASSUME SilverInit PROVE TableInv OBVIOUS
<1>1. bronze = [d \in {} |-> <<>>] /\ silver = NoTable BY DEF SilverInit, Empty
<1>2. QED BY <1>1 DEF TableInv

LEMMA TableKept == TableInv /\ [UniverseNext]_universeVars => TableInv'
<1> SUFFICES ASSUME TableInv, [UniverseNext]_universeVars PROVE TableInv' OBVIOUS
<1>1. ASSUME NEW d \in Dates, NEW day \in Files(d), Publish(d, day) PROVE TableInv'
  <2>1. /\ d \notin DOMAIN bronze /\ silver' = silver
        /\ bronze' = [x \in DOMAIN bronze \cup {d} |-> IF x = d THEN day ELSE bronze[x]]
    BY <1>1 DEF Publish
  <2>2. DOMAIN bronze' = DOMAIN bronze \cup {d} /\ bronze'[d] = day
        /\ \A x \in DOMAIN bronze : bronze'[x] = bronze[x]
    BY <2>1
  <2>3. /\ DOMAIN bronze' \subseteq Dates /\ \A x \in DOMAIN bronze' : bronze'[x] \in Files(x)
        /\ bronze' = [x \in DOMAIN bronze' |-> bronze'[x]]
    BY <2>1, <2>2 DEF TableInv
  <2>4. ASSUME silver # NoTable
        PROVE  /\ silver.dates \subseteq DOMAIN bronze
               /\ [x \in silver.dates |-> bronze'[x]] = [x \in silver.dates |-> bronze[x]]
    <3>1. silver.dates \subseteq DOMAIN bronze BY <2>4 DEF TableInv
    <3>2. QED BY <3>1, <2>2
  <2>5. QED BY <2>1, <2>2, <2>3, <2>4 DEF TableInv, NoTable
<1>2. ASSUME NEW mode, NEW unread, Build(mode, unread) PROVE TableInv'
  <2> DEFINE rows == Combined(mode, unread)
  <2>0. bronze' = bronze BY <1>2 DEF Build
  <2>1. CASE silver' = silver BY <2>0, <2>1 DEF TableInv, NoTable
  <2>2. CASE silver' = Built(mode, unread) /\ ~ IsFatal(rows)
    <3>1. silver' = Table(rows, MarkTradability(rows)) BY <2>2 DEF Built
    <3>2. DOMAIN rows \subseteq DOMAIN bronze /\ rows = [d \in DOMAIN rows |-> bronze[d]]
      BY CombinedIs
    <3> HIDE DEF rows
    <3>3. silver'.dates = DOMAIN rows BY <3>1 DEF Table
    <3>4. QED BY <2>0, <2>2, <3>1, <3>2, <3>3 DEF TableInv
  <2>3. QED BY <1>2, <2>1, <2>2 DEF Build
<1>3. ASSUME UNCHANGED <<bronze, silver>> PROVE TableInv' BY <1>3 DEF TableInv, NoTable
<1>4. QED BY <1>1, <1>2, <1>3 DEF UniverseNext, SilverNext, Decide, universeVars

\* However it came about, incrementally, over late and unreadable files, or in full:
\* the silver table is what SilverBuilder.build writes over all its sessions at once.
THEOREM TableIsFullBuild == UniverseSpec => []IncrementalIsFull
<1>1. TableInv => IncrementalIsFull BY DEF TableInv, IncrementalIsFull
<1>2. UniverseInit => TableInv BY TableInitially DEF UniverseInit
<1>3. QED BY <1>1, <1>2, TableKept, PTL DEF UniverseSpec

------------------------------------------------------------------------------
(* The universe *)

\* The sessions whose value counts for a fund on a day.
Counted(panel, t, d) == Latest({x \in Qualifying(panel, t) : x <= d}, AdvWindow)

\* A snapshot looks at the rows of the day, at the attributes under the names of
\* that day, at the listing date, and at the sessions counted.
LEMMA SnapshotsAgree ==
  ASSUME NEW P, NEW Q, NEW M, NEW N, NEW d, NEW f,
         Listed(P, d) = Listed(Q, d), P.rows[d] = Q.rows[d],
         \A t \in Listed(Q, d) :
           /\ <<d, t>> \in P.tradable <=> <<d, t>> \in Q.tradable
           /\ Aged(M[t], d) <=> Aged(N[t], d)
           /\ AttrAtRow(M[t], Q.rows[d][t]).issuer = AttrAtRow(N[t], Q.rows[d][t]).issuer
           /\ AttrAtRow(M[t], Q.rows[d][t]).leverage = AttrAtRow(N[t], Q.rows[d][t]).leverage
           /\ AttrAtRow(M[t], Q.rows[d][t]).confidence = AttrAtRow(N[t], Q.rows[d][t]).confidence
           /\ Counted(P, t, d) = Counted(Q, t, d)
           /\ \A x \in Counted(Q, t, d) : P.rows[x] = Q.rows[x]
  PROVE  Snapshot(P, M, d, f) = Snapshot(Q, N, d, f)
<1>1. ASSUME NEW t \in Listed(Q, d)
      PROVE  Liquid(P, t, d, RequiredAdv(f)) <=> Liquid(Q, t, d, RequiredAdv(f))
  <2>1. Counted(P, t, d) = Counted(Q, t, d)
        /\ \A x \in Counted(Q, t, d) : P.rows[x] = Q.rows[x]
    OBVIOUS
  <2>2. [x \in Counted(P, t, d) |-> P.rows[x][t].value] = [x \in Counted(Q, t, d) |-> Q.rows[x][t].value]
    BY <2>1
  <2>3. QED BY ONLY <2>1, <2>2, Zenon DEF Liquid, Counted
<1>2. ASSUME NEW t \in Listed(Q, d), NEW a, NEW b,
             a.issuer = b.issuer, a.leverage = b.leverage, a.confidence = b.confidence
      PROVE  /\ Sponsored(a, t, f) <=> Sponsored(b, t, f)
             /\ Eligible(a, f) <=> Eligible(b, f)
  BY <1>2 DEF Sponsored, Eligible
<1>3. ASSUME NEW t \in Listed(Q, d)
      PROVE  /\ Sponsored(AttrAtRow(M[t], P.rows[d][t]), t, f) <=> Sponsored(AttrAtRow(N[t], Q.rows[d][t]), t, f)
             /\ Eligible(AttrAtRow(M[t], P.rows[d][t]), f) <=> Eligible(AttrAtRow(N[t], Q.rows[d][t]), f)
  BY <1>2, <1>3
<1>4. QED BY <1>1, <1>3, Zenon DEF Snapshot

\* A panel of funds the model knows, on sessions of the calendar.
IsPanel(panel) == panel.dates \subseteq Dates /\ \A d \in panel.dates : DOMAIN panel.rows[d] \subseteq Funds

\* The master's attributes give way to those of the name of the day.
LEMMA NameOfTheDay ==
  ASSUME NEW panel, NEW t, NEW row
  PROVE  LET attr == AttrAtRow(Attributes(panel, t), row)
         IN  /\ attr.issuer = ResolveIssuer(row.name) /\ attr.leverage = ResolveLeverage(row.name)
             /\ attr.confidence = ConfidenceOf(row.name)
<1> DEFINE base == Attributes(panel, t)
<1>1. PICK name, first, left :
        base = [firstSeen |-> first, name |-> name, leverage |-> ResolveLeverage(name),
                confidence |-> ConfidenceOf(name), issuer |-> ResolveIssuer(name), leftCensored |-> left]
  BY DEF Attributes
<1> HIDE DEF base
<1> DEFINE attr == AttrAtRow(base, row)
<1>2. /\ attr.issuer = ResolveIssuer(row.name) /\ attr.leverage = ResolveLeverage(row.name)
      /\ attr.confidence = ConfidenceOf(row.name)
  <2>1. CASE row.name = name
    <3>1. attr = base BY <1>1, <2>1 DEF AttrAtRow
    <3>2. QED BY <1>1, <2>1, <3>1
  <2>2. CASE row.name # name
    <3>1. attr = [base EXCEPT !.name = row.name, !.leverage = ResolveLeverage(row.name),
                              !.confidence = ConfidenceOf(row.name), !.issuer = ResolveIssuer(row.name)]
      BY <1>1, <2>2 DEF AttrAtRow
    <3> HIDE DEF attr
    <3>2. QED BY <1>1, <3>1
  <2>3. QED BY <2>1, <2>2
<1>3. QED BY <1>2 DEF base

LEMMA LeastIs ==
  ASSUME NEW S \in SUBSET Nat, NEW x \in S, \A y \in S : x <= y
  PROVE  Least(S) = x
<1>1. \A z \in S : (\A y \in S : z <= y) => z = x OBVIOUS
<1>2. QED BY <1>1 DEF Least

\* What a panel says of a fund that is listed on d is already in the panel up to d.
LEMMA PastIsEnough ==
  ASSUME NEW panel, IsPanel(panel), NEW d \in panel.dates, NEW t \in Listed(panel, d)
  PROVE  LET past == UpTo(panel, d)
         IN  /\ Listed(past, d) = Listed(panel, d) /\ t \in KnownTickers(past) /\ t \in KnownTickers(panel)
             /\ past.rows[d] = panel.rows[d]
             /\ <<d, t>> \in past.tradable <=> <<d, t>> \in panel.tradable
             /\ Least(RowsOf(past, t)) = Least(RowsOf(panel, t)) /\ Least(past.dates) = Least(panel.dates)
             /\ Counted(past, t, d) = Counted(panel, t, d)
             /\ \A x \in Counted(panel, t, d) : past.rows[x] = panel.rows[x]
<1> DEFINE past == UpTo(panel, d)
<1>0. panel.dates \subseteq Nat /\ Dates \subseteq Nat /\ d \in Nat /\ d \in 1 .. d
      /\ \A x \in panel.dates : x \in 1 .. d <=> x <= d
  BY SilverAssumption DEF IsPanel, Dates
<1>1. past = [dates |-> panel.dates \cap (1 .. d), rows |-> [x \in panel.dates \cap (1 .. d) |-> panel.rows[x]],
              tradable |-> {key \in panel.tradable : key[1] \in 1 .. d}]
  BY DEF UpTo, Restrict2
<1> HIDE DEF past
<1>2. /\ past.dates = {x \in panel.dates : x <= d} /\ d \in past.dates
      /\ \A x \in past.dates : past.rows[x] = panel.rows[x]
      /\ \A x \in past.dates : \A u : <<x, u>> \in past.tradable <=> <<x, u>> \in panel.tradable
  BY <1>0, <1>1
<1>3. Listed(past, d) = Listed(panel, d) BY <1>2 DEF Listed
<1>4. RowsOf(past, t) = {x \in RowsOf(panel, t) : x <= d} /\ d \in RowsOf(past, t)
      /\ RowsOf(panel, t) \subseteq panel.dates
  BY <1>2, <1>3 DEF RowsOf, Listed
<1>5. t \in Funds BY DEF Listed, IsPanel
<1>6. ASSUME NEW S \in SUBSET panel.dates, d \in S PROVE Least({x \in S : x <= d}) = Least(S)
  <2>1. PICK x \in S : \A y \in S : x <= y BY <1>0, <1>6, LeastExists
  <2>2. x <= d /\ S \subseteq Nat BY <1>0, <1>6, <2>1
  <2>3. x \in {y \in S : y <= d} BY <2>1, <2>2
  <2>4. QED BY <2>1, <2>2, <2>3, LeastIs
<1>7. Least(RowsOf(past, t)) = Least(RowsOf(panel, t)) BY <1>4, <1>6
<1>8. Least(past.dates) = Least(panel.dates) BY <1>2, <1>6
<1>9. {x \in Qualifying(past, t) : x <= d} = {x \in Qualifying(panel, t) : x <= d}
  BY <1>2 DEF Qualifying
<1>10. Counted(past, t, d) = Counted(panel, t, d) BY <1>9 DEF Counted
<1>11. Counted(panel, t, d) \subseteq past.dates BY <1>2 DEF Counted, Latest, Qualifying
<1>12. QED
  BY <1>2, <1>3, <1>4, <1>5, <1>7, <1>8, <1>10, <1>11 DEF KnownTickers, past

LEMMA SnapshotOfThePast ==
  ASSUME NEW panel, IsPanel(panel), NEW d \in panel.dates, NEW f
  PROVE  Snapshot(panel, MasterOf(panel), d, f) = Snapshot(UpTo(panel, d), MasterOf(UpTo(panel, d)), d, f)
<1> DEFINE past == UpTo(panel, d)
           M == MasterOf(past)
           N == MasterOf(panel)
<1>1. Listed(past, d) = Listed(panel, d) /\ past.rows[d] = panel.rows[d]
  <2>1. d \in 1 .. d BY SilverAssumption DEF IsPanel, Dates
  <2>2. QED BY <2>1 DEF UpTo, Restrict2, Listed
<1>2. ASSUME NEW t \in Listed(panel, d)
      PROVE  /\ <<d, t>> \in past.tradable <=> <<d, t>> \in panel.tradable
             /\ Aged(M[t], d) <=> Aged(N[t], d)
             /\ AttrAtRow(M[t], panel.rows[d][t]).issuer = AttrAtRow(N[t], panel.rows[d][t]).issuer
             /\ AttrAtRow(M[t], panel.rows[d][t]).leverage = AttrAtRow(N[t], panel.rows[d][t]).leverage
             /\ AttrAtRow(M[t], panel.rows[d][t]).confidence = AttrAtRow(N[t], panel.rows[d][t]).confidence
             /\ Counted(past, t, d) = Counted(panel, t, d)
             /\ \A x \in Counted(panel, t, d) : past.rows[x] = panel.rows[x]
  <2> HIDE DEF past
  <2>1. /\ t \in KnownTickers(past) /\ t \in KnownTickers(panel)
        /\ <<d, t>> \in past.tradable <=> <<d, t>> \in panel.tradable
        /\ Least(RowsOf(past, t)) = Least(RowsOf(panel, t)) /\ Least(past.dates) = Least(panel.dates)
        /\ Counted(past, t, d) = Counted(panel, t, d)
        /\ \A x \in Counted(panel, t, d) : past.rows[x] = panel.rows[x]
    BY PastIsEnough DEF past
  <2>2. M[t] = Attributes(past, t) /\ N[t] = Attributes(panel, t) BY <2>1 DEF MasterOf
  <2> HIDE DEF M, N
  <2>3. M[t].firstSeen = N[t].firstSeen /\ M[t].leftCensored = N[t].leftCensored
    BY <2>1, <2>2 DEF Attributes
  <2>4. Aged(M[t], d) <=> Aged(N[t], d) BY <2>3 DEF Aged
  <2>5. QED BY <2>1, <2>2, <2>4, NameOfTheDay
<1> HIDE DEF past, M, N
<1>3. Snapshot(past, M, d, f) = Snapshot(panel, N, d, f) BY <1>1, <1>2, SnapshotsAgree
<1>4. QED BY <1>3 DEF past, M, N

\* What was decided is the universe of the panel of then.
SeenInv ==
  \A d \in DOMAIN seen : \A f \in Filters :
    seen[d].tickers[f] = Snapshot(seen[d].panel, MasterOf(seen[d].panel), d, f)

LEMMA SeenKept == SeenInv /\ [UniverseNext]_universeVars => SeenInv'
<1> SUFFICES ASSUME SeenInv, [UniverseNext]_universeVars PROVE SeenInv' OBVIOUS
<1>1. CASE Decide
  <2> DEFINE d == Greatest(silver.dates)
             entry == [panel |-> silver, tickers |-> [f \in Filters |-> Snapshot(silver, MasterOf(silver), d, f)]]
  <2>1. d \notin DOMAIN seen /\ seen' = [x \in DOMAIN seen \cup {d} |-> IF x = d THEN entry ELSE seen[x]]
    BY <1>1, Zenon DEF Decide
  <2>2. entry.panel = silver /\ \A f \in Filters : entry.tickers[f] = Snapshot(silver, MasterOf(silver), d, f)
    OBVIOUS
  <2> HIDE DEF d, entry
  <2>3. DOMAIN seen' = DOMAIN seen \cup {d} /\ seen'[d] = entry /\ \A x \in DOMAIN seen : seen'[x] = seen[x]
    BY <2>1
  <2>4. QED BY <2>2, <2>3 DEF SeenInv
<1>2. CASE UNCHANGED seen BY <1>2 DEF SeenInv
<1>3. QED BY <1>1, <1>2 DEF UniverseNext, universeVars

LEMMA TableIsPanel == TableInv /\ silver # NoTable => IsPanel(silver)
<1> SUFFICES ASSUME TableInv, silver # NoTable PROVE IsPanel(silver) OBVIOUS
<1>1. /\ silver.dates \subseteq DOMAIN bronze /\ DOMAIN bronze \subseteq Dates
      /\ silver.rows = [d \in silver.dates |-> bronze[d]]
  BY DEF TableInv, Table
<1>2. \A d \in silver.dates : silver.rows[d] \in Files(d) BY <1>1 DEF TableInv
<1>3. QED BY <1>1, <1>2, SilverAssumption DEF IsPanel

LEMMA UniverseHolds == UniverseSpec => [](TableInv /\ SeenInv)
<1>1. UniverseInit => TableInv /\ SeenInv
  BY TableInitially DEF UniverseInit, SeenInv, Empty
<1>2. QED BY <1>1, TableKept, SeenKept, PTL DEF UniverseSpec

\* PointInTimeUniverse.get: computed again on a panel of any later day that agrees up
\* to d, the universe of d is the one decided on d, whatever a fund was renamed to,
\* listed or delisted after it.
THEOREM LaterRowsStayInvisible == UniverseSpec => []LaterRowsInvisible
<1>1. ASSUME TableInv, SeenInv PROVE LaterRowsInvisible
  <2> SUFFICES ASSUME NEW d \in DOMAIN seen, d \in silver.dates, UpTo(silver, d) = seen[d].panel, NEW f \in Filters
               PROVE  Snapshot(silver, MasterOf(silver), d, f) = seen[d].tickers[f]
    BY DEF LaterRowsInvisible
  <2>1. silver # NoTable BY DEF NoTable
  <2>2. IsPanel(silver) BY <1>1, <2>1, TableIsPanel
  <2>3. QED BY <1>1, <2>2, SnapshotOfThePast DEF SeenInv
<1>2. QED BY <1>1, UniverseHolds, PTL

------------------------------------------------------------------------------
(* The bounded panel of a backtest *)

LEMMA GreatestCovers ==
  ASSUME NEW S \in SUBSET Dates, NEW d \in S
  PROVE  Greatest(S) \in S /\ d <= Greatest(S)
<1>0. LastDate \in Nat /\ \A x \in S : x \in Nat /\ LastDate - x \in Nat
  BY SilverAssumption DEF Dates
<1>1. PICK n \in {LastDate - x : x \in S} : \A m \in {LastDate - x : x \in S} : n <= m
  <2> DEFINE T == {LastDate - x : x \in S}
  <2>1. T \in SUBSET Nat /\ LastDate - d \in T BY <1>0
  <2> HIDE DEF T
  <2>2. \E n \in T : \A m \in T : n <= m BY <2>1, LeastExists
  <2>3. QED BY <2>2 DEF T
<1>2. PICK x \in S : n = LastDate - x BY <1>1
<1>3. \A y \in S : y <= x
  <2> SUFFICES ASSUME NEW y \in S PROVE y <= x OBVIOUS
  <2>1. LastDate - x <= LastDate - y BY <1>1, <1>2
  <2>2. QED BY <1>0, <2>1
<1>4. QED BY <1>3 DEF Greatest

\* The members that are latest up to d are among the latest up to start, or later.
LEMMA LatestReach ==
  ASSUME NEW S \in SUBSET Dates, NEW start \in Nat, NEW d \in Nat, start <= d,
         NEW x \in Latest({y \in S : y <= d}, AdvWindow), x <= start
  PROVE  x \in Latest({y \in S : y <= start}, AdvWindow)
<1> DEFINE after == {y \in {z \in S : z <= d} : x < y}
           near  == {y \in {z \in S : z <= start} : x < y}
<1>0. S \subseteq Nat /\ AdvWindow \in Nat /\ LastDate \in Nat
  BY SilverAssumption, UniverseAssumption DEF Dates
<1>1. x \in S /\ Cardinality(after) < AdvWindow BY DEF Latest
<1>2. near \subseteq after
  <2> SUFFICES ASSUME NEW y \in S, y <= start, x < y PROVE y <= d OBVIOUS
  <2>1. y \in Nat BY <1>0
  <2>2. QED BY <2>1
<1>3. IsFiniteSet(after)
  <2>1. IsFiniteSet(1 .. LastDate) BY <1>0, FS_Interval
  <2>2. after \subseteq 1 .. LastDate BY DEF Dates
  <2>3. QED BY <2>1, <2>2, FS_Subset
<1>4. Cardinality(near) <= Cardinality(after) /\ Cardinality(after) \in Nat /\ Cardinality(near) \in Nat
  BY <1>2, <1>3, FS_Subset, FS_CardinalityType
<1>5. Cardinality(near) < AdvWindow BY <1>0, <1>1, <1>4
<1>6. QED BY <1>1, <1>5 DEF Latest

\* What counts for a fund on a day of the range lies in a panel cut at `from`,
\* when the cut keeps what counts for it at the start of the range.
LEMMA CutKeepsCounted ==
  ASSUME NEW panel, IsPanel(panel), NEW start \in panel.dates, NEW end \in panel.dates,
         NEW d \in panel.dates, start <= d, d <= end, NEW t, NEW from \in Nat, from <= start,
         \A x \in Counted(panel, t, start) : from <= x
  PROVE  LET cut == Restrict2(panel, from .. end)
         IN  /\ Counted(cut, t, d) = Counted(panel, t, d)
             /\ \A x \in Counted(panel, t, d) : cut.rows[x] = panel.rows[x]
<1> DEFINE cut   == Restrict2(panel, from .. end)
           S     == Qualifying(panel, t)
           A     == {x \in S : x <= d}
           C     == {x \in Qualifying(cut, t) : x <= d}
<1>0. panel.dates \subseteq Nat /\ S \subseteq panel.dates /\ S \subseteq Dates
  BY SilverAssumption DEF IsPanel, Dates, Qualifying
<1>1. /\ cut.dates = {x \in panel.dates : from <= x /\ x <= end}
      /\ \A x \in cut.dates : cut.rows[x] = panel.rows[x]
      /\ \A x \in cut.dates : \A u : <<x, u>> \in cut.tradable <=> <<x, u>> \in panel.tradable
  BY <1>0 DEF Restrict2
<1> HIDE DEF cut
<1>2. C = {x \in A : from <= x} BY <1>0, <1>1 DEF Qualifying
<1>3. ASSUME NEW x \in Latest(A, AdvWindow) PROVE from <= x
  <2>1. x \in S /\ x \in Nat /\ start \in Nat /\ d \in Nat BY <1>0 DEF Latest
  <2>2. CASE x <= start
    <3>1. x \in Counted(panel, t, start) BY <1>0, <2>1, <2>2, <1>3, LatestReach DEF Counted
    <3>2. QED BY <3>1
  <2>3. QED BY <2>1, <2>2
<1> HIDE DEF A, C, S
<1>4. A \subseteq Nat BY <1>0 DEF A
<1>5. \A x \in C : {y \in C : x < y} = {y \in A : x < y}
  <2> SUFFICES ASSUME NEW x \in C, NEW y \in A, x < y PROVE from <= y
    BY <1>2
  <2>1. from <= x /\ x \in Nat /\ y \in Nat BY <1>2, <1>4
  <2>2. QED BY <2>1
<1>6. Latest(C, AdvWindow) = Latest(A, AdvWindow) BY <1>2, <1>3, <1>5 DEF Latest
<1>7. Latest(A, AdvWindow) \subseteq cut.dates
  BY <1>0, <1>1, <1>3 DEF Latest, A
<1>8. Counted(cut, t, d) = Latest(C, AdvWindow) /\ Counted(panel, t, d) = Latest(A, AdvWindow)
  BY DEF Counted, A, C, S
<1>9. QED BY <1>1, <1>6, <1>7, <1>8 DEF cut

\* The panel that bound_backtest_panel leaves is the whole one, or keeps what
\* counts for every fund that is listed inside the range.
LEMMA BoundedKeeps ==
  ASSUME NEW panel, IsPanel(panel), NEW start \in panel.dates, NEW end \in panel.dates,
         NEW d \in panel.dates, start <= d, d <= end, NEW t \in Listed(panel, d)
  PROVE  \/ Bounded(panel, start, end) = panel
         \/ \E from \in Nat : /\ from <= start
                              /\ \A x \in Counted(panel, t, start) : from <= x
                              /\ Bounded(panel, start, end) = Restrict2(panel, from .. end)
<1> DEFINE live == {u \in KnownTickers(panel) :
                      Greatest(RowsOf(panel, u)) >= start /\ Least(RowsOf(panel, u)) <= end}
           back == UNION {Counted(panel, u, start) : u \in live}
           from == IF back = {} THEN start ELSE Least(back)
<1>0. panel.dates \subseteq Nat /\ panel.dates \subseteq Dates /\ Dates \subseteq Nat
  BY SilverAssumption DEF IsPanel, Dates
<1>1. d \in RowsOf(panel, t) /\ t \in Funds /\ RowsOf(panel, t) \subseteq panel.dates
  BY DEF RowsOf, Listed, IsPanel
<1>2. t \in live
  <2>1. Greatest(RowsOf(panel, t)) \in RowsOf(panel, t) /\ d <= Greatest(RowsOf(panel, t))
    BY <1>0, <1>1, GreatestCovers
  <2>2. PICK x \in RowsOf(panel, t) : \A y \in RowsOf(panel, t) : x <= y BY <1>0, <1>1, LeastExists
  <2>3. Least(RowsOf(panel, t)) = x BY <1>0, <1>1, <2>2, LeastIs
  <2>4. x <= d BY <1>1, <2>2
  <2>5. QED BY <1>0, <1>1, <2>1, <2>2, <2>3, <2>4 DEF KnownTickers
<1>3. back \subseteq {x \in panel.dates : x <= start} BY DEF Counted, Latest, Qualifying
<1>4. Counted(panel, t, start) \subseteq back BY <1>2
<1>5. Bounded(panel, start, end) = panel \/ Bounded(panel, start, end) = Restrict2(panel, from .. end)
  BY Zenon DEF Bounded, Counted
<1> HIDE DEF back, live
<1>6. from \in Nat /\ from <= start /\ \A x \in back : from <= x
  <2>1. CASE back = {} BY <1>0, <2>1
  <2>2. CASE back # {}
    <3>1. PICK x \in back : \A y \in back : x <= y BY <1>0, <1>3, <2>2, LeastExists
    <3>2. Least(back) = x BY <1>0, <1>3, <3>1, LeastIs
    <3>3. QED BY <1>0, <1>3, <2>2, <3>1, <3>2
  <2>3. QED BY <2>1, <2>2
<1> HIDE DEF from
<1>7. QED BY <1>4, <1>5, <1>6

LEMMA BoundedSnapshot ==
  ASSUME NEW panel, IsPanel(panel), NEW start \in panel.dates, NEW end \in panel.dates,
         NEW d \in panel.dates, start <= d, d <= end, NEW f, NEW M
  PROVE  Snapshot(Bounded(panel, start, end), M, d, f) = Snapshot(panel, M, d, f)
<1> DEFINE cut == Bounded(panel, start, end)
<1>0. start \in Nat /\ end \in Nat /\ d \in Nat BY SilverAssumption DEF IsPanel, Dates
<1>1. CASE Listed(panel, d) = {}
  <2>1. ASSUME NEW S PROVE Listed(Restrict2(panel, S), d) = {}
    BY <1>1 DEF Listed, Restrict2
  <2>2. Listed(cut, d) = {} BY <1>1, <2>1, Zenon DEF Bounded
  <2>3. QED BY <1>1, <2>2 DEF Snapshot
<1>2. CASE cut = panel BY <1>2
<1>3. CASE Listed(panel, d) # {} /\ cut # panel
  <2>1. ASSUME NEW t \in Listed(panel, d)
        PROVE  /\ Listed(cut, d) = Listed(panel, d) /\ cut.rows[d] = panel.rows[d]
               /\ <<d, t>> \in cut.tradable <=> <<d, t>> \in panel.tradable
               /\ Counted(cut, t, d) = Counted(panel, t, d)
               /\ \A x \in Counted(panel, t, d) : cut.rows[x] = panel.rows[x]
    <3>0. \/ cut = panel
          \/ \E from \in Nat : /\ from <= start
                               /\ \A x \in Counted(panel, t, start) : from <= x
                               /\ cut = Restrict2(panel, from .. end)
      BY BoundedKeeps, Zenon
    <3> HIDE DEF cut
    <3>1. PICK from \in Nat : /\ from <= start
                              /\ \A x \in Counted(panel, t, start) : from <= x
                              /\ cut = Restrict2(panel, from .. end)
      BY <3>0, <1>3
    <3>2. d \in from .. end BY <1>0, <3>1
    <3>3. /\ Listed(cut, d) = Listed(panel, d) /\ cut.rows[d] = panel.rows[d]
          /\ <<d, t>> \in cut.tradable <=> <<d, t>> \in panel.tradable
      BY <3>1, <3>2 DEF Restrict2, Listed
    <3>4. /\ Counted(cut, t, d) = Counted(panel, t, d)
          /\ \A x \in Counted(panel, t, d) : cut.rows[x] = panel.rows[x]
      BY <3>1, CutKeepsCounted
    <3>5. QED BY <3>3, <3>4
  <2> HIDE DEF cut
  <2>2. PICK t \in Listed(panel, d) : TRUE BY <1>3
  <2>3. Listed(cut, d) = Listed(panel, d) /\ cut.rows[d] = panel.rows[d] BY <2>1, <2>2
  <2>4. Snapshot(cut, M, d, f) = Snapshot(panel, M, d, f) BY <2>1, <2>3, SnapshotsAgree
  <2>5. QED BY <2>4 DEF cut
<1>4. QED BY <1>1, <1>2, <1>3

\* bound_backtest_panel drops no row that the universe of a day of the range counts,
\* for any range, look-back and pattern of tradable sessions.
THEOREM BoundedPanelAgrees == UniverseSpec => []BoundedAgrees
<1>1. ASSUME TableInv PROVE BoundedAgrees
  <2> SUFFICES ASSUME silver # NoTable, NEW start \in silver.dates, NEW end \in silver.dates,
                      NEW d \in silver.dates \cap (start .. end)
               PROVE  [f \in Filters |-> Snapshot(Bounded(silver, start, end), MasterOf(silver), d, f)]
                        = [f \in Filters |-> Snapshot(silver, MasterOf(silver), d, f)]
    BY DEF BoundedAgrees, BacktestSnapshots
  <2>1. IsPanel(silver) BY <1>1, TableIsPanel
  <2>2. start <= d /\ d <= end
    BY <2>1, SilverAssumption DEF IsPanel, Dates
  <2>3. \A f \in Filters :
          Snapshot(Bounded(silver, start, end), MasterOf(silver), d, f) = Snapshot(silver, MasterOf(silver), d, f)
    BY <2>1, <2>2, BoundedSnapshot
  <2>4. QED BY <2>3
<1>2. QED BY <1>1, UniverseHolds, PTL

TypedInv ==
  /\ \A d \in DOMAIN seen : \A f \in Filters : seen[d].tickers[f] \subseteq Funds
  /\ result \in {"none", "unchanged", "fatal", "written"}

LEMMA TypesKept == TableInv /\ TypedInv /\ [UniverseNext]_universeVars => TypedInv'
<1> SUFFICES ASSUME TableInv, TypedInv, [UniverseNext]_universeVars PROVE TypedInv' OBVIOUS
<1>1. CASE Decide
  <2> DEFINE d == Greatest(silver.dates)
             entry == [panel |-> silver, tickers |-> [f \in Filters |-> Snapshot(silver, MasterOf(silver), d, f)]]
  <2>1. /\ silver # NoTable /\ d \notin DOMAIN seen /\ result' = result
        /\ seen' = [x \in DOMAIN seen \cup {d} |-> IF x = d THEN entry ELSE seen[x]]
    BY <1>1, Zenon DEF Decide
  <2>2. \A f \in Filters : entry.tickers[f] \subseteq Funds
    <3>1. IsPanel(silver) BY <2>1, TableIsPanel
    <3>2. \A f \in Filters : Snapshot(silver, MasterOf(silver), d, f) \subseteq Listed(silver, d)
      BY DEF Snapshot
    <3>3. Listed(silver, d) \subseteq Funds BY <3>1 DEF Listed, IsPanel
    <3>4. QED BY <3>2, <3>3
  <2> HIDE DEF d, entry
  <2>3. DOMAIN seen' = DOMAIN seen \cup {d} /\ seen'[d] = entry /\ \A x \in DOMAIN seen : seen'[x] = seen[x]
    BY <2>1
  <2>4. QED BY <2>1, <2>2, <2>3 DEF TypedInv
<1>2. ASSUME NEW mode, NEW unread, Build(mode, unread), UNCHANGED seen PROVE TypedInv'
  <2>1. result' \in {"unchanged", "fatal", "written"} BY <1>2 DEF Build
  <2>2. QED BY <1>2, <2>1 DEF TypedInv
<1>3. CASE UNCHANGED <<seen, result>> BY <1>3 DEF TypedInv
<1>4. QED BY <1>1, <1>2, <1>3 DEF UniverseNext, SilverNext, Publish, universeVars

\* The store, the table and what was decided keep their types: every session of the
\* table has its file, and only rows of the table are tradable.
THEOREM UniverseTyped == UniverseSpec => []UniverseTypeOK
<1>1. ASSUME TableInv, TypedInv PROVE UniverseTypeOK
  <2>1. silver.dates \subseteq DOMAIN bronze BY <1>1 DEF TableInv, NoTable
  <2>2. ASSUME silver # NoTable PROVE silver.tradable \subseteq Keys(silver.rows)
    <3> DEFINE rows == [d \in silver.dates |-> bronze[d]]
    <3>1. silver = Table(rows, MarkTradability(rows)) BY <1>1, <2>2 DEF TableInv
    <3> HIDE DEF rows
    <3>2. silver.rows = rows /\ silver.tradable = MarkTradability(rows) BY <3>1 DEF Table
    <3>3. MarkTradability(rows) \subseteq Keys(rows) BY DEF MarkTradability, Priced
    <3>4. QED BY <3>2, <3>3
  <2>3. QED BY <1>1, <2>1, <2>2 DEF TableInv, TypedInv, UniverseTypeOK
<1>2. UniverseInit => TypedInv BY DEF UniverseInit, SilverInit, TypedInv, Empty
<1>3. QED BY <1>1, <1>2, TypesKept, UniverseHolds, PTL DEF UniverseSpec

------------------------------------------------------------------------------
(* The adaptive mode: total preorders *)

Preorder(R, S) ==
  /\ \A x, y \in S : <<x, y>> \in R \/ <<y, x>> \in R
  /\ \A x, y, z \in S : <<x, y>> \in R /\ <<y, z>> \in R => <<x, z>> \in R

\* Those members of S that beat x.
Beating(S, R, x) == {y \in S : <<x, y>> \notin R}

\* A total preorder of a finite set has a greatest member: one that the fewest beat.
LEMMA TopExists ==
  ASSUME NEW S, IsFiniteSet(S), S # {}, NEW R, Preorder(R, S)
  PROVE  \E x \in S : \A y \in S : <<x, y>> \in R
<1> DEFINE sizes == {Cardinality(Beating(S, R, x)) : x \in S}
<1>0. \A x \in S : Beating(S, R, x) \subseteq S BY DEF Beating
<1>1. \A x \in S : IsFiniteSet(Beating(S, R, x)) /\ Cardinality(Beating(S, R, x)) \in Nat
  BY <1>0, FS_Subset, FS_CardinalityType
<1>2. sizes \in SUBSET Nat /\ sizes # {} BY <1>1
<1>3. PICK n \in sizes : \A k \in sizes : n <= k
  <2> HIDE DEF sizes
  <2>1. QED BY <1>2, LeastExists
<1>4. PICK x \in S : n = Cardinality(Beating(S, R, x)) BY <1>3
<1>5. ASSUME NEW y \in Beating(S, R, x) PROVE FALSE
  <2>1. y \in S /\ Beating(S, R, y) \subseteq Beating(S, R, x) /\ y \notin Beating(S, R, y)
    BY DEF Beating, Preorder
  <2>2. IsFiniteSet(Beating(S, R, x) \ {y}) /\ Cardinality(Beating(S, R, x) \ {y}) = n - 1
    BY <1>1, <1>4, FS_RemoveElement
  <2>3. Beating(S, R, y) \subseteq Beating(S, R, x) \ {y} BY <2>1
  <2>4. Cardinality(Beating(S, R, y)) <= n - 1
    BY <2>2, <2>3, FS_Subset
  <2>5. Cardinality(Beating(S, R, y)) \in sizes BY <2>1
  <2>6. n \in Nat /\ Cardinality(Beating(S, R, y)) \in Nat BY <1>1, <1>4, <2>1
  <2>7. n <= Cardinality(Beating(S, R, y)) BY <1>3, <2>5
  <2>8. QED BY <2>4, <2>6, <2>7
<1>6. QED BY <1>5 DEF Beating

\* First by R, among equals by T.
Lex(R, T, S) == {p \in S \X S : p \in R /\ (<<p[2], p[1]>> \in R => p \in T)}

LEMMA LexIs ==
  ASSUME NEW S, NEW R, NEW T, Preorder(R, S), Preorder(T, S)
  PROVE  Preorder(Lex(R, T, S), S)
<1>1. \A x, y \in S : <<x, y>> \in Lex(R, T, S) <=>
                        <<x, y>> \in R /\ (<<y, x>> \in R => <<x, y>> \in T)
  BY DEF Lex
<1>2. QED BY <1>1 DEF Preorder

\* Fractions of natural numbers, and of integers, compare by their cross products.
LEMMA CrossProducts ==
  ASSUME NEW a \in Int, NEW b \in Int, NEW c \in Int, NEW l \in Nat \ {0}, NEW m \in Nat \ {0},
         NEW n \in Nat \ {0}, a * m >= b * l, b * n >= c * m
  PROVE  a * n >= c * l
OBVIOUS

\* The members of S by the fraction f over l, the greatest first.
Falling(S, f, l) == {p \in S \X S : f[p[1]] * l[p[2]] >= f[p[2]] * l[p[1]]}

LEMMA FallingIs ==
  ASSUME NEW S, NEW f, NEW l, \A x \in S : f[x] \in Int /\ l[x] \in Nat \ {0}
  PROVE  Preorder(Falling(S, f, l), S)
<1>1. \A x, y \in S : <<x, y>> \in Falling(S, f, l) <=> f[x] * l[y] >= f[y] * l[x]
  BY DEF Falling
<1>2. ASSUME NEW x \in S, NEW y \in S
      PROVE  f[x] * l[y] >= f[y] * l[x] \/ f[y] * l[x] >= f[x] * l[y]
  OBVIOUS
<1>3. ASSUME NEW x \in S, NEW y \in S, NEW z \in S,
             f[x] * l[y] >= f[y] * l[x], f[y] * l[z] >= f[z] * l[y]
      PROVE  f[x] * l[z] >= f[z] * l[x]
  BY <1>3, CrossProducts
<1>4. QED BY <1>1, <1>2, <1>3 DEF Preorder

------------------------------------------------------------------------------
(* The adaptive mode: what a specialist has as evidence *)

\* What the scenarios of a specialist are: continuations that have ended by now,
\* none begun before the one before it has ended.
Taken(taken, paths) ==
  taken = [e \in Sessions |->
             /\ e \in DOMAIN paths
             /\ \A x \in e - Horizon + 1 .. e - 1 : x \in DOMAIN paths => ~taken[x]]

\* Whether e is taken, given what was taken before.
Takes(taken, paths, e) ==
  /\ e \in DOMAIN paths
  /\ \A x \in e - Horizon + 1 .. e - 1 : x \in DOMAIN paths => ~taken[x]

LEMMA TakenExists ==
  ASSUME NEW paths, DOMAIN paths \subseteq Sessions
  PROVE  \E taken : Taken(taken, paths)
<1> DEFINE Reaches(n) == \E t : t = [e \in 1 .. n |-> Takes(t, paths, e)]
           bad == {n \in Nat : ~ Reaches(n)}
<1>0. LastSession \in Nat /\ Horizon \in Nat BY ResearchAssumption, SplitAssumption
<1>1. bad = {}
  <2> SUFFICES ASSUME bad # {} PROVE FALSE OBVIOUS
  <2>1. PICK n \in bad : \A k \in bad : n <= k
    <3>1. bad \in SUBSET Nat OBVIOUS
    <3> HIDE DEF bad
    <3>2. QED BY <3>1, LeastExists
  <2>2. n # 0
    <3>1. 1 .. 0 = {} OBVIOUS
    <3>2. [e \in 1 .. 0 |-> TRUE] = [e \in 1 .. 0 |-> Takes([f \in 1 .. 0 |-> TRUE], paths, e)] BY <3>1
    <3>3. Reaches(0) BY <3>1, <3>2
    <3>4. QED BY <2>1, <3>3
  <2>3. Reaches(n - 1) /\ n \in Nat
    <3> HIDE DEF UpTo
    <3>1. n \in Nat /\ n - 1 \in Nat /\ n - 1 \notin bad BY <2>1, <2>2
    <3>2. QED BY <3>1
  <2>4. PICK t : t = [e \in 1 .. n - 1 |-> Takes(t, paths, e)] BY <2>3
  <2> DEFINE r == [e \in 1 .. n |-> Takes(t, paths, e)]
  <2>5. ASSUME NEW e \in 1 .. n PROVE Takes(r, paths, e) <=> Takes(t, paths, e)
    <3>1. ASSUME NEW x \in e - Horizon + 1 .. e - 1, x \in DOMAIN paths PROVE r[x] = t[x]
      <4>1. x \in 1 .. n - 1 BY <1>0, <2>3, <3>1 DEF Sessions
      <4>2. x \in 1 .. n BY <2>3, <4>1
      <4>3. r[x] = Takes(t, paths, x) BY <4>2
      <4>4. t[x] = Takes(t, paths, x) BY <2>4, <4>1
      <4>5. QED BY <4>3, <4>4
    <3> HIDE DEF r
    <3>2. QED BY <3>1 DEF Takes
  <2>6. r = [e \in 1 .. n |-> Takes(r, paths, e)]
    <3>1. \A e \in 1 .. n : Takes(t, paths, e) = Takes(r, paths, e)
      <4>1. \A u, e : Takes(u, paths, e) \in BOOLEAN BY DEF Takes
      <4>2. QED BY <2>5, <4>1
    <3>2. QED BY <3>1
  <2>7. QED BY <2>1, <2>6
<1>2. Reaches(LastSession)
  <2> HIDE DEF UpTo
  <2>1. QED BY <1>0, <1>1
<1>3. QED BY <1>2 DEF Taken, Takes, Sessions

LEMMA DisjointIs ==
  ASSUME NEW paths, DOMAIN paths \subseteq Sessions, NEW now \in Nat
  PROVE  /\ Disjoint(paths, now) \subseteq {e \in 1 .. now : e \in DOMAIN paths}
         /\ IsFiniteSet(Disjoint(paths, now)) /\ Cardinality(Disjoint(paths, now)) \in Nat
         /\ \A x, y \in Disjoint(paths, now) : x < y => x <= y - Horizon
<1> DEFINE taken == CHOOSE taken : Taken(taken, paths)
<1>0. LastSession \in Nat /\ Horizon \in Nat BY ResearchAssumption, SplitAssumption
<1>1. Taken(taken, paths) BY TakenExists
<1>2. Disjoint(paths, now) = {e \in DOMAIN paths : e <= now /\ taken[e]} BY DEF Disjoint, Taken
<1> HIDE DEF taken
<1>3. Disjoint(paths, now) \subseteq {e \in 1 .. now : e \in DOMAIN paths}
  BY <1>0, <1>2 DEF Sessions
<1>4. IsFiniteSet(1 .. now) /\ Disjoint(paths, now) \subseteq 1 .. now BY <1>3, FS_Interval
<1>5. ASSUME NEW x \in Disjoint(paths, now), NEW y \in Disjoint(paths, now), x < y
      PROVE  x <= y - Horizon
  <2>1. x \in Nat /\ y \in Nat /\ x \in DOMAIN paths /\ y \in Sessions /\ taken[x] /\ taken[y]
    BY <1>2 , <1>4
  <2>2. \A z \in y - Horizon + 1 .. y - 1 : z \in DOMAIN paths => ~taken[z]
    BY <1>1, <2>1 DEF Taken
  <2>3. x \notin y - Horizon + 1 .. y - 1 BY <2>1, <2>2
  <2>4. QED BY <1>0, <1>5, <2>1, <2>3
<1>6. QED BY <1>3, <1>4, <1>5, FS_Subset, FS_CardinalityType

\* Rows numbered from one.
LEMMA RowsAre ==
  ASSUME NEW n \in Nat, NEW f, f = [k \in 1 .. n |-> f[k]]
  PROVE  Len(f) = n /\ DOMAIN f = 1 .. n /\ IsFiniteSet(DOMAIN f)
<1>1. f \in [1 .. n -> {f[k] : k \in 1 .. n}] BY Zenon
<1> DEFINE T == {f[k] : k \in 1 .. n}
<1> HIDE DEF T
<1>2. f \in Seq(T) BY <1>1 DEF T
<1>3. DOMAIN f = 1 .. n BY <1>1
<1>4. Len(f) = n BY <1>2, <1>3
<1>5. QED BY <1>3, <1>4, FS_Interval

------------------------------------------------------------------------------
(* The adaptive mode: the actions the controller chooses among *)

LEMMA SpecialistsAre ==
  /\ Specialists = {"long_broad", "long_theme", "inverse", "defensive"}
  /\ IsFiniteSet(Specialists) /\ Specialists # {} /\ IsFiniteSet({}) /\ "CASH" \notin Specialists
  /\ "ROUTER" \notin Specialists
<1>1. DOMAIN Order = 1 .. 4 BY DEF Order
<1>2. Order[1] = "long_broad" /\ Order[2] = "long_theme" /\ Order[3] = "inverse" /\ Order[4] = "defensive"
  BY DEF Order
<1>3. \A i \in 1 .. 4 : i = 1 \/ i = 2 \/ i = 3 \/ i = 4 OBVIOUS
<1>4. Specialists = {"long_broad", "long_theme", "inverse", "defensive"}
  BY <1>1, <1>2, <1>3 DEF Specialists
<1>5. IsFiniteSet({"long_broad", "long_theme", "inverse", "defensive"})
  <2>1. IsFiniteSet({}) BY FS_EmptySet
  <2>2. IsFiniteSet({} \cup {"long_broad"}) BY <2>1, FS_AddElement
  <2>3. IsFiniteSet(({} \cup {"long_broad"}) \cup {"long_theme"}) BY <2>2, FS_AddElement
  <2>4. IsFiniteSet((({} \cup {"long_broad"}) \cup {"long_theme"}) \cup {"inverse"}) BY <2>3, FS_AddElement
  <2>5. IsFiniteSet(((({} \cup {"long_broad"}) \cup {"long_theme"}) \cup {"inverse"}) \cup {"defensive"})
    BY <2>4, FS_AddElement
  <2>6. ((({} \cup {"long_broad"}) \cup {"long_theme"}) \cup {"inverse"}) \cup {"defensive"}
          = {"long_broad", "long_theme", "inverse", "defensive"}
    OBVIOUS
  <2>7. QED BY <2>5, <2>6
<1>6. QED BY <1>4, <1>5, FS_EmptySet

\* The greatest of finitely many numbers.
LEMMA MaxIs ==
  ASSUME NEW S \in SUBSET Int, IsFiniteSet(S), S # {}
  PROVE  Max(S) \in S /\ \A y \in S : y <= Max(S)
<1> DEFINE R == {p \in S \X S : p[1] >= p[2]}
<1>1. \A x, y \in S : <<x, y>> \in R <=> x >= y OBVIOUS
<1> HIDE DEF R
<1>2. Preorder(R, S) BY <1>1 DEF Preorder
<1>3. PICK x \in S : \A y \in S : <<x, y>> \in R BY <1>2, TopExists
<1>4. \E z \in S : \A y \in S : z >= y BY <1>1, <1>3
<1>5. Max(S) \in S /\ \A y \in S : Max(S) >= y BY <1>4 DEF Max
<1>6. QED BY <1>5

\* What a specialist proposes.
LEMMA ProposalIs ==
  ASSUME NEW w \in Worlds, NEW d \in Sessions, NEW name \in Specialists
  PROVE  Proposals(w, d)[name] \in Tickers \cup {None}
<1> DEFINE valid == {t \in DirectCandidates(w, d) : Bucket[t] = name}
           R == {p \in valid \X valid : Momentum[p[2]] <= Momentum[p[1]]}
<1>1. valid \subseteq Tickers BY PanelAssumption DEF DirectCandidates
<1>2. \A t \in valid : Momentum[t] \in Int BY <1>1, AdaptiveAssumption
<1>3. IsFiniteSet(valid) BY <1>1, AdaptiveAssumption, FS_Subset
<1>4. Proposals(w, d)[name] =
        IF valid = {} THEN None
        ELSE CHOOSE t \in valid : \A u \in valid : Momentum[u] <= Momentum[t]
  BY DEF Proposals
<1> HIDE DEF valid
<1>5. \A x, y \in valid : <<x, y>> \in R <=> Momentum[y] <= Momentum[x] OBVIOUS
<1> HIDE DEF R
<1>6. Preorder(R, valid)
  <2>1. \A x, y \in valid : Momentum[y] <= Momentum[x] \/ Momentum[x] <= Momentum[y] BY <1>2
  <2>2. \A x, y, z \in valid : Momentum[y] <= Momentum[x] /\ Momentum[z] <= Momentum[y]
                                 => Momentum[z] <= Momentum[x]
    BY <1>2
  <2>3. QED BY <1>5, <2>1, <2>2 DEF Preorder
<1>7. ASSUME valid # {} PROVE \E t \in valid : \A u \in valid : Momentum[u] <= Momentum[t]
  BY <1>3, <1>5, <1>6, <1>7, TopExists
<1>8. QED BY <1>1, <1>4, <1>7

\* A power of two is the number of subsets of a set.
LEMMA PowerIsPositive ==
  ASSUME NEW n \in Nat
  PROVE  2 ^ n \in Nat \ {0}
<1>1. IsFiniteSet(1 .. n) /\ Cardinality(1 .. n) = n BY FS_Interval
<1>2. IsFiniteSet(SUBSET (1 .. n)) /\ Cardinality(SUBSET (1 .. n)) = 2 ^ n BY <1>1, FS_SUBSET
<1>3. Cardinality(SUBSET (1 .. n)) \in Nat BY <1>2, FS_CardinalityType
<1>4. Cardinality(SUBSET (1 .. n)) # 0
  <2>1. {} \in SUBSET (1 .. n) OBVIOUS
  <2>2. QED BY <1>2, <2>1, FS_EmptySet
<1>5. QED BY <1>2, <1>3, <1>4

Routers == [Specialists -> 0 - MaxBehind .. 0]

LEMMA ProbabilityIs ==
  ASSUME NEW router \in Routers, NEW name \in Specialists
  PROVE  Probability(router, name) \in Nat \ {0}
<1>1. MaxBehind + router[name] \in Nat BY AdaptiveAssumption DEF Routers
<1> DEFINE n == MaxBehind + router[name]
<1>2. n \in Nat BY <1>1
<1> HIDE DEF n
<1>3. 2 ^ n \in Nat \ {0} BY <1>2, PowerIsPositive
<1>4. QED BY <1>3 DEF Probability, n

\* The probabilities stay within their range, and the best of them at its end.
LEMMA UpdatedIs ==
  ASSUME NEW router \in Routers, NEW rewards \in [Specialists -> Int]
  PROVE  Updated(router, rewards) \in Routers
<1> DEFINE term == [name \in Specialists |-> router[name] + Clipped(rewards[name])]
           S == {term[name] : name \in Specialists}
           peak == Max(S)
<1>1. \A name \in Specialists : term[name] \in Int
  BY AdaptiveAssumption DEF Routers, Clipped
<1> HIDE DEF term
<1>2. S \in SUBSET Int /\ S # {} BY <1>1, SpecialistsAre
<1>3. IsFiniteSet(S)
  <2> DEFINE f == [name \in Specialists |-> term[name]]
  <2>1. f \in Surjection(Specialists, S) BY DEF Surjection
  <2> HIDE DEF S, f
  <2>2. QED BY <2>1, SpecialistsAre, FS_Surjection
<1>4. peak \in Int /\ \A name \in Specialists : term[name] <= peak
  <2>1. Max(S) \in S /\ \A y \in S : y <= Max(S)
    <3> HIDE DEF S
    <3>1. QED BY <1>2, <1>3, MaxIs
  <2>2. QED BY <1>2, <2>1
<1>5. Updated(router, rewards) = [name \in Specialists |-> Larger(0 - MaxBehind, term[name] - peak)]
  BY DEF Updated, term
<1> HIDE DEF peak, S
<1>6. \A name \in Specialists : Larger(0 - MaxBehind, term[name] - peak) \in 0 - MaxBehind .. 0
  BY <1>1, <1>4, AdaptiveAssumption DEF Larger
<1>7. QED BY <1>5, <1>6 DEF Routers

\* An action of the controller, as far as choosing among them goes.
Named == Specialists \cup {"CASH", "ROUTER"}

IsAction(a) ==
  /\ a.action \in Named
  /\ Len(a.rows) \in Nat /\ IsFiniteSet(DOMAIN a.rows)
  /\ a.gross[1] \in Int /\ a.gross[2] \in Nat \ {0}

LEMMA PlaceIs ==
  ASSUME NEW name \in Named
  PROVE  Place(name) \in Nat
<1>1. DOMAIN Alphabet = 1 .. 6 BY DEF Alphabet
<1>2. /\ Alphabet[1] = "CASH" /\ Alphabet[2] = "ROUTER" /\ Alphabet[3] = "defensive"
      /\ Alphabet[4] = "inverse" /\ Alphabet[5] = "long_broad" /\ Alphabet[6] = "long_theme"
  BY DEF Alphabet
<1>3. name \in {"long_broad", "long_theme", "inverse", "defensive", "CASH", "ROUTER"}
  BY SpecialistsAre DEF Named
<1>4. 1 \in 1 .. 6 /\ 2 \in 1 .. 6 /\ 3 \in 1 .. 6 /\ 4 \in 1 .. 6 /\ 5 \in 1 .. 6 /\ 6 \in 1 .. 6
  OBVIOUS
<1>5. \E i \in DOMAIN Alphabet : Alphabet[i] = name
  <2>1. CASE name = "long_broad" BY <1>1, <1>2, <1>4, <2>1
  <2>2. CASE name = "long_theme" BY <1>1, <1>2, <1>4, <2>2
  <2>3. CASE name = "inverse" BY <1>1, <1>2, <1>4, <2>3
  <2>4. CASE name = "defensive" BY <1>1, <1>2, <1>4, <2>4
  <2>5. CASE name = "CASH" BY <1>1, <1>2, <1>4, <2>5
  <2>6. CASE name = "ROUTER" BY <1>1, <1>2, <1>4, <2>6
  <2>7. QED BY <1>3, <2>1, <2>2, <2>3, <2>4, <2>5, <2>6
<1>6. Place(name) \in DOMAIN Alphabet BY <1>5 DEF Place
<1>7. QED BY <1>1, <1>6

LEMMA CountsAre ==
  ASSUME NEW a, IsAction(a), NEW x
  PROVE  Below(a.rows, x) \in Nat /\ Exceeded(a.rows) \in Nat
<1> DEFINE rows == a.rows
           low  == {k \in DOMAIN rows : rows[k][1] < x * rows[k][2]}
           all  == (DOMAIN rows) \X Thresholds
           high == {p \in all : rows[p[1]][1] > p[2] * rows[p[1]][2]}
<1>1. IsFiniteSet(DOMAIN rows) BY DEF IsAction
<1>2. IsFiniteSet(all) BY <1>1, AdaptiveAssumption, FS_Product
<1>3. low \subseteq DOMAIN rows /\ high \subseteq all OBVIOUS
<1>4. Below(a.rows, x) = Cardinality(low) /\ Exceeded(a.rows) = Cardinality(high)
  BY DEF Below, Exceeded
<1> HIDE DEF low, high, all, rows
<1>5. IsFiniteSet(low) /\ IsFiniteSet(high) BY <1>1, <1>2, <1>3, FS_Subset
<1>6. QED BY <1>4, <1>5, FS_CardinalityType

LEMMA Negated ==
  ASSUME NEW a \in Int, NEW b \in Int, NEW l \in Int, NEW m \in Int,
         (0 - a) * m >= (0 - b) * l
  PROVE  a * m <= b * l
OBVIOUS

\* One of finitely many actions is at least as good as each of them.
LEMMA BestExists ==
  ASSUME NEW S, IsFiniteSet(S), S # {}, \A a \in S : IsAction(a) /\ Len(a.rows) # 0
  PROVE  \E a \in S : \A other \in S : Better(a, other)
<1> DEFINE len    == [a \in S |-> Len(a.rows)]
           exceed == [a \in S |-> Exceeded(a.rows)]
           below  == [a \in S |-> 0 - Below(a.rows, RuinFloor)]
           gross  == [a \in S |-> 0 - a.gross[1]]
           mass   == [a \in S |-> a.gross[2]]
           place  == [a \in S |-> 0 - Place(a.action)]
           one    == [a \in S |-> 1]
           R1 == Falling(S, exceed, len)
           R2 == Falling(S, below, len)
           R3 == Falling(S, gross, mass)
           R4 == Falling(S, place, one)
           R34 == Lex(R3, R4, S)
           R24 == Lex(R2, R34, S)
           R14 == Lex(R1, R24, S)
<1>1. \A a \in S : /\ Exceeded(a.rows) \in Nat /\ Below(a.rows, RuinFloor) \in Nat
                   /\ Place(a.action) \in Nat /\ Len(a.rows) \in Nat \ {0}
                   /\ a.gross[1] \in Int /\ a.gross[2] \in Nat \ {0}
  BY CountsAre, PlaceIs DEF IsAction
<1>2. Preorder(R1, S)
  <2>1. \A a \in S : exceed[a] \in Int /\ len[a] \in Nat \ {0} BY <1>1
  <2> HIDE DEF exceed, len
  <2>2. QED BY <2>1, FallingIs
<1>3. Preorder(R2, S)
  <2>1. \A a \in S : below[a] \in Int /\ len[a] \in Nat \ {0} BY <1>1
  <2> HIDE DEF below, len
  <2>2. QED BY <2>1, FallingIs
<1>4. Preorder(R3, S)
  <2>1. \A a \in S : gross[a] \in Int /\ mass[a] \in Nat \ {0} BY <1>1
  <2> HIDE DEF gross, mass
  <2>2. QED BY <2>1, FallingIs
<1>5. Preorder(R4, S)
  <2>1. \A a \in S : place[a] \in Int /\ one[a] \in Nat \ {0} BY <1>1
  <2> HIDE DEF place, one
  <2>2. QED BY <2>1, FallingIs
<1>6. \A x, y \in S :
        /\ <<x, y>> \in R1 <=> Exceeded(x.rows) * Len(y.rows) >= Exceeded(y.rows) * Len(x.rows)
        /\ <<x, y>> \in R2 <=> (0 - Below(x.rows, RuinFloor)) * Len(y.rows)
                                 >= (0 - Below(y.rows, RuinFloor)) * Len(x.rows)
        /\ <<x, y>> \in R3 <=> (0 - x.gross[1]) * y.gross[2] >= (0 - y.gross[1]) * x.gross[2]
        /\ <<x, y>> \in R4 <=> (0 - Place(x.action)) * 1 >= (0 - Place(y.action)) * 1
  <2> TAKE x, y \in S
  <2>1. <<x, y>> \in R1 <=> exceed[x] * len[y] >= exceed[y] * len[x]
    <3> HIDE DEF exceed, len
    <3>1. QED BY DEF Falling
  <2>2. <<x, y>> \in R2 <=> below[x] * len[y] >= below[y] * len[x]
    <3> HIDE DEF below, len
    <3>1. QED BY DEF Falling
  <2>3. <<x, y>> \in R3 <=> gross[x] * mass[y] >= gross[y] * mass[x]
    <3> HIDE DEF gross, mass
    <3>1. QED BY DEF Falling
  <2>4. <<x, y>> \in R4 <=> place[x] * one[y] >= place[y] * one[x]
    <3> HIDE DEF place, one
    <3>1. QED BY DEF Falling
  <2> HIDE DEF R1, R2, R3, R4
  <2>5. QED BY <2>1, <2>2, <2>3, <2>4
<1> HIDE DEF R1, R2, R3, R4, len, exceed, below, gross, mass, place, one
<1>7. Preorder(R34, S) BY <1>4, <1>5, LexIs
<1>8. \A x, y \in S : <<x, y>> \in R34 <=> <<x, y>> \in R3 /\ (<<y, x>> \in R3 => <<x, y>> \in R4)
  BY DEF Lex
<1> HIDE DEF R34
<1>9. Preorder(R24, S) BY <1>3, <1>7, LexIs
<1>10. \A x, y \in S : <<x, y>> \in R24 <=> <<x, y>> \in R2 /\ (<<y, x>> \in R2 => <<x, y>> \in R34)
  BY DEF Lex
<1> HIDE DEF R24
<1>11. Preorder(R14, S) BY <1>2, <1>9, LexIs
<1>12. \A x, y \in S : <<x, y>> \in R14 <=> <<x, y>> \in R1 /\ (<<y, x>> \in R1 => <<x, y>> \in R24)
  BY DEF Lex
<1> HIDE DEF R14
<1>13. PICK x \in S : \A y \in S : <<x, y>> \in R14 BY <1>11, TopExists
<1>14. ASSUME NEW y \in S PROVE Better(x, y)
  <2> DEFINE u == Exceeded(x.rows) * Len(y.rows)
             v == Exceeded(y.rows) * Len(x.rows)
             p == Below(x.rows, RuinFloor) * Len(y.rows)
             q == Below(y.rows, RuinFloor) * Len(x.rows)
             g == x.gross[1] * y.gross[2]
             h == y.gross[1] * x.gross[2]
             i == Place(x.action)
             j == Place(y.action)
  <2>0. u \in Int /\ v \in Int /\ p \in Int /\ q \in Int /\ g \in Int /\ h \in Int /\ i \in Int /\ j \in Int
    <3>1. \A a, b \in Int : a * b \in Int OBVIOUS
    <3>2. /\ Exceeded(x.rows) \in Int /\ Exceeded(y.rows) \in Int
          /\ Below(x.rows, RuinFloor) \in Int /\ Below(y.rows, RuinFloor) \in Int
          /\ Len(x.rows) \in Int /\ Len(y.rows) \in Int
          /\ x.gross[1] \in Int /\ x.gross[2] \in Int /\ y.gross[1] \in Int /\ y.gross[2] \in Int
      BY <1>1
    <3>3. i \in Int /\ j \in Int BY <1>1
    <3>4. QED BY <3>1, <3>2, <3>3
  <2>1. (<<x, y>> \in R1 <=> u >= v) /\ (<<y, x>> \in R1 <=> v >= u) BY <1>6
  <2>2. /\ <<x, y>> \in R2 => p <= q
        /\ p >= q => <<y, x>> \in R2
    <3> DEFINE b == Below(x.rows, RuinFloor)
               c == Below(y.rows, RuinFloor)
               l == Len(x.rows)
               m == Len(y.rows)
    <3>1. /\ <<x, y>> \in R2 <=> (0 - b) * m >= (0 - c) * l
          /\ <<y, x>> \in R2 <=> (0 - c) * l >= (0 - b) * m
      BY <1>6
    <3>2. b \in Int /\ c \in Int /\ l \in Int /\ m \in Int BY <1>1
    <3>3. p = b * m /\ q = c * l OBVIOUS
    <3> HIDE DEF b, c, l, m, p, q
    <3>4. QED BY <3>1, <3>2, <3>3
  <2>3. /\ <<x, y>> \in R3 => g <= h
        /\ g >= h => <<y, x>> \in R3
    <3> DEFINE b == x.gross[1]
               c == y.gross[1]
               l == x.gross[2]
               m == y.gross[2]
    <3>1. /\ <<x, y>> \in R3 <=> (0 - b) * m >= (0 - c) * l
          /\ <<y, x>> \in R3 <=> (0 - c) * l >= (0 - b) * m
      BY <1>6
    <3>2. b \in Int /\ c \in Int /\ l \in Int /\ m \in Int BY <1>1
    <3>3. g = b * m /\ h = c * l OBVIOUS
    <3> HIDE DEF b, c, l, m, g, h
    <3>4. QED BY <3>1, <3>2, <3>3
  <2>4. <<x, y>> \in R4 => i <= j
    <3>1. <<x, y>> \in R4 <=> (0 - i) * 1 >= (0 - j) * 1 BY <1>6
    <3> HIDE DEF i, j
    <3>2. QED BY <3>1, <2>0
  <2>5. Better(x, y) <=> \/ u > v
                         \/ u = v /\ p < q
                         \/ u = v /\ p = q /\ g < h
                         \/ u = v /\ p = q /\ g = h /\ i <= j
    BY Zenon DEF Better
  <2> HIDE DEF u, v, p, q, g, h, i, j
  <2>6. /\ <<x, y>> \in R1 /\ (<<y, x>> \in R1 => <<x, y>> \in R24)
        /\ <<x, y>> \in R24 => <<x, y>> \in R2 /\ (<<y, x>> \in R2 => <<x, y>> \in R34)
        /\ <<x, y>> \in R34 => <<x, y>> \in R3 /\ (<<y, x>> \in R3 => <<x, y>> \in R4)
    BY <1>8, <1>10, <1>12, <1>13
  <2>7. QED BY <2>0, <2>1, <2>2, <2>3, <2>4, <2>5, <2>6
<1>15. QED BY <1>14

LEMMA OwnIs ==
  ASSUME NEW name \in Specialists, NEW paths, DOMAIN paths \subseteq Sessions, NEW now \in Nat,
         NEW proposed \in Tickers \cup {None}, NEW wealth
  PROVE  LET a == OwnAction(name, paths, now, proposed, wealth)
         IN  IsAction(a) /\ a.action = name /\ Len(a.rows) = Cardinality(Disjoint(paths, now))
<1> DEFINE a == OwnAction(name, paths, now, proposed, wealth)
           ends == Disjoint(paths, now)
           n == Cardinality(ends)
           row(k) == <<wealth + paths[CHOOSE e \in ends : Rank(ends, e) = k], 1>>
           rows == [k \in 1 .. n |-> row(k)]
           gross == <<IF proposed = None THEN 0
                      ELSE Larger(Multiple[proposed], 0 - Multiple[proposed]), 1>>
<1>1. n \in Nat BY DisjointIs
<1>2. a = [action |-> name, rows |-> rows, gross |-> gross] BY DEF OwnAction
<1>3. Len(rows) = n /\ IsFiniteSet(DOMAIN rows)
  <2> HIDE DEF row, n
  <2>1. rows = [k \in 1 .. n |-> rows[k]] OBVIOUS
  <2> HIDE DEF rows
  <2>2. QED BY <1>1, <2>1, RowsAre
<1>4. gross[1] \in Int /\ gross[2] = 1 BY AdaptiveAssumption DEF Larger
<1> HIDE DEF rows, gross
<1>5. a.action = name /\ a.rows = rows /\ a.gross = gross BY <1>2
<1> HIDE DEF a
<1>6. IsAction(a)
  <2>1. name \in Named BY DEF Named
  <2> HIDE DEF n
  <2>2. QED BY <1>1, <1>3, <1>4, <1>5, <2>1 DEF IsAction
<1>7. Len(a.rows) = n BY <1>3, <1>5
<1>8. QED BY <1>5, <1>6, <1>7 DEF a

LEMMA CashIs ==
  ASSUME NEW wealth
  PROVE  LET a == CashAction(wealth)
         IN  IsAction(a) /\ a.action = "CASH" /\ Len(a.rows) = MinScenarios
             /\ (wealth = 0 => Below(a.rows, RuinFloor) = 0)
<1> DEFINE a == CashAction(wealth)
           rows == [k \in 1 .. MinScenarios |-> <<wealth, 1>>]
<1>1. MinScenarios \in Nat BY AdaptiveAssumption
<1>2. a = [action |-> "CASH", rows |-> rows, gross |-> <<0, 1>>] BY DEF CashAction
<1>3. Len(rows) = MinScenarios /\ DOMAIN rows = 1 .. MinScenarios /\ IsFiniteSet(DOMAIN rows)
  <2>1. rows = [k \in 1 .. MinScenarios |-> rows[k]] OBVIOUS
  <2> HIDE DEF rows
  <2>2. QED BY <1>1, <2>1, RowsAre
<1>4. ASSUME wealth = 0 PROVE Below(rows, RuinFloor) = 0
  <2>1. \A k \in DOMAIN rows : ~ (rows[k][1] < RuinFloor * rows[k][2])
    <3> TAKE k \in DOMAIN rows
    <3>1. rows[k][1] = 0 /\ rows[k][2] = 1 BY <1>4
    <3>2. ~ (0 < RuinFloor * 1) BY AdaptiveAssumption
    <3> HIDE DEF rows
    <3>3. QED BY <3>1, <3>2
  <2>2. {k \in DOMAIN rows : rows[k][1] < RuinFloor * rows[k][2]} = {} BY <2>1
  <2> HIDE DEF rows
  <2>3. QED BY <2>2, FS_EmptySet DEF Below
<1> HIDE DEF rows
<1>5. a.action = "CASH" /\ a.rows = rows /\ a.gross = <<0, 1>> BY <1>2
<1> HIDE DEF a
<1>6. IsAction(a)
  <2>1. "CASH" \in Named BY DEF Named
  <2>2. QED BY <1>1, <1>3, <1>5, <2>1 DEF IsAction
<1>7. QED BY <1>3, <1>4, <1>5, <1>6 DEF a

LEMMA OverAllIs ==
  ASSUME NEW f, \A name \in Specialists : f[name] \in Int
  PROVE  /\ OverAll(f) \in Int
         /\ (\A name \in Specialists : f[name] > 0) => OverAll(f) > 0
<1>1. /\ "long_broad" \in Specialists /\ "long_theme" \in Specialists
      /\ "inverse" \in Specialists /\ "defensive" \in Specialists
  BY SpecialistsAre
<1>2. QED BY <1>1 DEF OverAll

\* The router has as many scenarios as some specialist.
LEMMA RouterIs ==
  ASSUME NEW router \in Routers, NEW own, \A name \in Specialists : IsAction(own[name])
  PROVE  LET a == RouterAction(router, own)
         IN  IsAction(a) /\ a.action = "ROUTER"
             /\ \E name \in Specialists : Len(a.rows) = Len(own[name].rows)
<1> DEFINE a == RouterAction(router, own)
           lens == {Len(own[name].rows) : name \in Specialists}
           longest == Max(lens)
           Mass(k) == [name \in Specialists |->
                         IF k <= Len(own[name].rows) THEN Probability(router, name) ELSE 0]
           Row(k)  == [name \in Specialists |->
                         IF k <= Len(own[name].rows) THEN Mass(k)[name] * own[name].rows[k][1] ELSE 0]
           rows == [k \in 1 .. longest |-> <<OverAll(Row(k)), OverAll(Mass(k))>>]
           held == [name \in Specialists |-> Probability(router, name) * own[name].gross[1]]
           mass == [name \in Specialists |-> Probability(router, name)]
           gross == <<OverAll(held), OverAll(mass)>>
<1>1. longest \in lens
  <2>1. lens \in SUBSET Int /\ lens # {} BY SpecialistsAre DEF IsAction
  <2>2. IsFiniteSet(lens)
    <3> DEFINE f == [name \in Specialists |-> Len(own[name].rows)]
    <3>1. f \in Surjection(Specialists, lens) BY DEF Surjection
    <3> HIDE DEF lens, f
    <3>2. QED BY <3>1, SpecialistsAre, FS_Surjection
  <2> HIDE DEF lens
  <2>3. QED BY <2>1, <2>2, MaxIs
<1>2. PICK name \in Specialists : longest = Len(own[name].rows) BY <1>1
<1>3. longest \in Nat BY <1>2 DEF IsAction
<1>4. a = [action |-> "ROUTER", rows |-> rows, gross |-> gross] BY Zenon DEF RouterAction
<1>5. Len(rows) = longest /\ IsFiniteSet(DOMAIN rows)
  <2>1. rows = [k \in 1 .. longest |-> rows[k]] OBVIOUS
  <2> HIDE DEF rows, longest
  <2>2. QED BY <1>3, <2>1, RowsAre
<1>6. gross[1] \in Int /\ gross[2] \in Nat \ {0}
  <2>1. \A s \in Specialists : Probability(router, s) \in Nat \ {0} BY ProbabilityIs
  <2>2. \A s \in Specialists : own[s].gross[1] \in Int BY DEF IsAction
  <2>3. \A s \in Specialists : held[s] \in Int BY <2>1, <2>2
  <2>4. \A s \in Specialists : mass[s] \in Int /\ mass[s] > 0 BY <2>1
  <2> HIDE DEF held, mass
  <2>5. OverAll(held) \in Int BY <2>3, OverAllIs
  <2>6. OverAll(mass) \in Int /\ OverAll(mass) > 0 BY <2>4, OverAllIs
  <2>7. QED BY <2>5, <2>6
<1> HIDE DEF rows, gross, longest
<1>7. a.action = "ROUTER" /\ a.rows = rows /\ a.gross = gross BY <1>4
<1> HIDE DEF a
<1>8. IsAction(a)
  <2>1. "ROUTER" \in Named BY DEF Named
  <2>2. QED BY <1>3, <1>5, <1>6, <1>7, <2>1 DEF IsAction
<1>9. Len(a.rows) = Len(own[name].rows) BY <1>2, <1>5, <1>7
<1>10. QED BY <1>7, <1>8, <1>9 DEF a

\* What the controller is given: continuations by session, and proposals.
IsPlan(plan, now) ==
  \A name \in Specialists :
    /\ DOMAIN plan.paths[name] \subseteq Sessions
    /\ plan.proposed[now][name] \in Tickers \cup {None}

LEMMA ActionsAre ==
  ASSUME NEW plan, NEW router \in Routers, NEW now \in Nat, IsPlan(plan, now), NEW wealth
  PROVE  /\ IsFiniteSet(Actions(plan, router, now, wealth))
         /\ CashAction(wealth) \in Actions(plan, router, now, wealth)
         /\ \A a \in Actions(plan, router, now, wealth) :
              /\ IsAction(a)
              /\ a.action # "CASH" =>
                   \E name \in Specialists : Len(a.rows) = Cardinality(Disjoint(plan.paths[name], now))
<1> DEFINE own == [name \in Specialists |->
                     OwnAction(name, plan.paths[name], now, plan.proposed[now][name], wealth)]
           each == {own[name] : name \in Specialists}
           S == Actions(plan, router, now, wealth)
<1>1. S = {RouterAction(router, own), CashAction(wealth)} \cup each BY DEF Actions
<1>2. \A name \in Specialists :
        /\ IsAction(own[name])
        /\ Len(own[name].rows) = Cardinality(Disjoint(plan.paths[name], now))
  <2> TAKE name \in Specialists
  <2>1. DOMAIN plan.paths[name] \subseteq Sessions /\ plan.proposed[now][name] \in Tickers \cup {None}
    BY DEF IsPlan
  <2>2. own[name] = OwnAction(name, plan.paths[name], now, plan.proposed[now][name], wealth) OBVIOUS
  <2> HIDE DEF own
  <2>3. QED BY <2>1, <2>2, OwnIs
<1>3. IsFiniteSet(each)
  <2>1. own \in Surjection(Specialists, each) BY DEF Surjection
  <2> HIDE DEF each, own
  <2>2. QED BY <2>1, SpecialistsAre, FS_Surjection
<1> HIDE DEF own
<1>4. /\ IsAction(RouterAction(router, own))
      /\ \E name \in Specialists : Len(RouterAction(router, own).rows) = Len(own[name].rows)
  BY <1>2, RouterIs
<1>5. IsAction(CashAction(wealth)) /\ CashAction(wealth).action = "CASH" BY CashIs
<1>6. IsFiniteSet(S)
  <2> HIDE DEF each, S
  <2>1. IsFiniteSet(each \cup {RouterAction(router, own)}) BY <1>3, FS_AddElement
  <2>2. IsFiniteSet((each \cup {RouterAction(router, own)}) \cup {CashAction(wealth)})
    BY <2>1, FS_AddElement
  <2>3. S = (each \cup {RouterAction(router, own)}) \cup {CashAction(wealth)} BY <1>1
  <2>4. QED BY <2>2, <2>3
<1>7. ASSUME NEW a \in S
      PROVE  /\ IsAction(a)
             /\ a.action # "CASH" =>
                  \E name \in Specialists : Len(a.rows) = Cardinality(Disjoint(plan.paths[name], now))
  <2>1. CASE a = RouterAction(router, own) BY <1>2, <1>4, <2>1
  <2>2. CASE a = CashAction(wealth) BY <1>5, <2>2
  <2>3. CASE a \in each BY <1>2, <2>3
  <2> HIDE DEF S
  <2>4. QED BY <1>1, <2>1, <2>2, <2>3
<1> HIDE DEF S
<1>8. CashAction(wealth) \in S BY <1>1
<1>9. QED BY <1>6, <1>7, <1>8 DEF S

\* A ledger that is worth nothing more than its cash leaves it only for a
\* specialist with scenarios enough.
LEMMA ChoiceIs ==
  ASSUME NEW plan, NEW router \in Routers, NEW now \in Nat, IsPlan(plan, now), NEW wealth, wealth = 0,
         Chosen(Actions(plan, router, now, wealth), wealth) # "CASH"
  PROVE  \E name \in Specialists : Cardinality(Disjoint(plan.paths[name], now)) >= MinScenarios
<1> DEFINE S == Actions(plan, router, now, wealth)
           fit == {a \in S : Admissible(a, wealth)}
           best == CHOOSE a \in fit : \A other \in fit : Better(a, other)
<1>0. MinScenarios \in Nat \ {0} BY AdaptiveAssumption
<1>1. /\ IsFiniteSet(S) /\ CashAction(wealth) \in S
      /\ \A a \in S : /\ IsAction(a)
                      /\ a.action # "CASH" =>
                           \E name \in Specialists :
                             Len(a.rows) = Cardinality(Disjoint(plan.paths[name], now))
  BY ActionsAre
<1>2. Chosen(S, wealth) = IF fit # {} THEN best.action
                          ELSE IF Secured(wealth) # {} THEN "CASH" ELSE "ROUTER"
  BY DEF Chosen
<1>3. Chosen(S, wealth) # "CASH" OBVIOUS
<1> HIDE DEF S
<1>4. \A a \in fit : a \in S /\ Len(a.rows) >= MinScenarios /\ Len(a.rows) # 0
  BY <1>0, <1>1 DEF Admissible, IsAction
<1>5. fit # {}
  <2>1. SUFFICES ASSUME Secured(wealth) = {} PROVE CashAction(wealth) \in fit BY <1>2, <1>3
  <2>2. Len(CashAction(wealth).rows) = MinScenarios /\ Below(CashAction(wealth).rows, RuinFloor) = 0
    BY CashIs
  <2>3. Admissible(CashAction(wealth), wealth) BY <1>0, <2>1, <2>2 DEF Admissible
  <2>4. QED BY <1>1, <2>3
<1>6. best \in fit
  <2>1. IsFiniteSet(fit)
    <3>1. fit \subseteq S OBVIOUS
    <3> HIDE DEF fit
    <3>2. QED BY <1>1, <3>1, FS_Subset
  <2>2. \A a \in fit : IsAction(a) /\ Len(a.rows) # 0 BY <1>1, <1>4
  <2> HIDE DEF fit
  <2>3. \E a \in fit : \A other \in fit : Better(a, other) BY <1>5, <2>1, <2>2, BestExists
  <2>4. QED BY <2>3
<1> HIDE DEF best, fit
<1>7. best.action # "CASH" BY <1>2, <1>3, <1>5
<1>8. QED BY <1>1, <1>4, <1>6, <1>7

------------------------------------------------------------------------------
(* The adaptive mode: the windows *)

Ledgers == [held : Tickers \cup {None}, return : Int]

Windows ==
  [start : Nat \ {0}, day : Nat \ {0}, router : Routers, real : Ledgers,
   shadow : [Specialists -> Ledgers], traded : BOOLEAN]

\* Proposals and continuations are those of the panel.
PlanInv ==
  adaptive.plan # None =>
    /\ adaptive.plan.proposed = [d \in Sessions |-> Proposals(world, d)]
    /\ adaptive.plan.paths =
         [name \in Specialists |-> [e \in PathEnds(world, name) |-> PathGain(world, name, e)]]

\* A ledger that is no longer the one it began as had the evidence to leave it.
LedgerInv ==
  /\ adaptive = [plan |-> adaptive.plan, window |-> adaptive.window,
                 discordant |-> adaptive.discordant]
  /\ adaptive.window \in Windows
  /\ adaptive.window.day <= adaptive.window.start + Horizon
  /\ adaptive.window.real = Cash \/ Evidence(world, adaptive.window.day)

AdaptiveInv == world \in Worlds /\ PlanInv /\ LedgerInv

LEMMA PathsAre ==
  ASSUME NEW w, NEW name
  PROVE  PathEnds(w, name) \subseteq Sessions
BY ResearchAssumption, SplitAssumption DEF PathEnds, Sessions

LEMMA EvidenceStays ==
  ASSUME NEW w, NEW d \in Nat, Evidence(w, d)
  PROVE  Evidence(w, d + 1)
<1> DEFINE ends(n) == {e \in 1 .. n : \E name \in Specialists : e \in PathEnds(w, name)}
<1>1. PICK E \in SUBSET ends(d) :
        Cardinality(E) >= MinScenarios /\ \A x, y \in E : x < y => x <= y - Horizon
  BY Zenon DEF Evidence
<1>2. 1 .. d \subseteq 1 .. d + 1 OBVIOUS
<1>3. E \in SUBSET ends(d + 1) BY <1>1, <1>2
<1>4. QED BY <1>1, <1>3 DEF Evidence

\* The scenarios of a specialist are evidence.
LEMMA ScenariosAreEvidence ==
  ASSUME NEW w, NEW name \in Specialists, NEW paths, DOMAIN paths = PathEnds(w, name), NEW now \in Nat,
         Cardinality(Disjoint(paths, now)) >= MinScenarios
  PROVE  Evidence(w, now)
<1>1. DOMAIN paths \subseteq Sessions BY PathsAre
<1>2. /\ Disjoint(paths, now) \subseteq {e \in 1 .. now : e \in DOMAIN paths}
      /\ \A x, y \in Disjoint(paths, now) : x < y => x <= y - Horizon
  BY <1>1, DisjointIs
<1> DEFINE E == Disjoint(paths, now)
           ends == {e \in 1 .. now : \E s \in Specialists : e \in PathEnds(w, s)}
<1>3. E \in SUBSET ends BY <1>2
<1>4. Cardinality(E) >= MinScenarios /\ \A x, y \in E : x < y => x <= y - Horizon BY <1>2
<1> HIDE DEF E
<1>5. \E T \in SUBSET ends : Cardinality(T) >= MinScenarios /\ \A x, y \in T : x < y => x <= y - Horizon
  BY <1>3, <1>4
<1>6. QED BY Zenon, <1>5 DEF Evidence

LEMMA PlanIs ==
  ASSUME PlanInv, adaptive.plan # None, world \in Worlds, NEW now \in Sessions
  PROVE  /\ IsPlan(adaptive.plan, now)
         /\ \A name \in Specialists : DOMAIN adaptive.plan.paths[name] = PathEnds(world, name)
<1>1. \A name \in Specialists : DOMAIN adaptive.plan.paths[name] = PathEnds(world, name)
  BY DEF PlanInv
<1>2. \A name \in Specialists : adaptive.plan.proposed[now][name] \in Tickers \cup {None}
  <2>1. adaptive.plan.proposed[now] = Proposals(world, now) BY DEF PlanInv
  <2>2. QED BY <2>1, ProposalIs
<1>3. QED BY <1>1, <1>2, PathsAre DEF IsPlan

\* What a ledger becomes on a session.
LEMMA TransitionIs ==
  ASSUME NEW w \in Worlds, NEW ledger \in Ledgers, NEW want, NEW d \in Sessions
  PROVE  /\ Transition(w, ledger, want, d) \in Ledgers
         /\ (ledger.held = None /\ want = None) => Transition(w, ledger, want, d).held = None
         /\ (ledger = Cash /\ Transition(w, ledger, want, d).held = None)
              => Transition(w, ledger, want, d) = Cash
<1> DEFINE held == Traded(w, ledger.held, [basis |-> "target", want |-> want], d)
           earned == IF held = None THEN 0 ELSE Moved(w, held, d)
<1>1. /\ held \in Tickers \cup {None}
      /\ ledger.held = None /\ want = None => held = None
  <2>1. w.quoted[d] \subseteq Tickers BY PanelAssumption
  <2>2. ledger.held \in Tickers \cup {None} BY DEF Ledgers
  <2>3. held = ledger.held \/ held = None \/ (held = want /\ want \in w.quoted[d])
    BY DEF Traded
  <2>4. ledger.held = None /\ want = None => held = None BY DEF Traded
  <2> HIDE DEF held
  <2>5. QED BY <2>1, <2>2, <2>3, <2>4
<1>2. Transition(w, ledger, want, d) = [held |-> held, return |-> ledger.return + earned]
  BY DEF Transition
<1> HIDE DEF held
<1>3. earned \in Int
  <2>1. CASE held = None BY <2>1
  <2>2. CASE held # None
    <3>1. held \in Tickers BY <1>1, <2>2
    <3>2. w.move[d][held] \in Int BY <3>1, PanelAssumption
    <3>3. QED BY <2>2, <3>2 DEF Moved
  <2>3. QED BY <2>1, <2>2
<1>4. ledger.return + earned \in Int BY <1>3 DEF Ledgers
<1>5. ledger = Cash /\ held = None => ledger.return + earned = 0 BY DEF Cash
<1>6. ASSUME ledger = Cash, held = None PROVE Transition(w, ledger, want, d) = Cash
  BY <1>2, <1>5, <1>6 DEF Cash
<1> HIDE DEF earned
<1>7. QED BY <1>1, <1>2, <1>4, <1>6 DEF Ledgers

LEMMA OpenedIs ==
  ASSUME NEW start \in Nat \ {0}
  PROVE  /\ Opened(start) \in Windows /\ Opened(start).start = start /\ Opened(start).day = start
         /\ Opened(start).real = Cash
<1>1. Uniform \in Routers BY AdaptiveAssumption DEF Uniform, Routers
<1>2. Cash \in Ledgers BY DEF Cash, Ledgers
<1>3. [name \in Specialists |-> Cash] \in [Specialists -> Ledgers] BY <1>2
<1> DEFINE shadow == [name \in Specialists |-> Cash]
<1> HIDE DEF shadow
<1>4. Opened(start) = [start |-> start, day |-> start, router |-> Uniform, real |-> Cash,
                       shadow |-> shadow, traded |-> FALSE]
  BY Zenon DEF Opened, shadow
<1>5. shadow \in [Specialists -> Ledgers] BY <1>3 DEF shadow
<1>6. FALSE \in BOOLEAN OBVIOUS
<1>7. QED BY <1>1, <1>2, <1>4, <1>5, <1>6 DEF Windows

\* Cash is left only on evidence.
Leaves(win) ==
  win.real.held = None /\ adaptive'.window.start = win.start /\ adaptive'.window.real.held # None
    => Evidence(world, win.day)

LEMMA PlayKeeps ==
  ASSUME AdaptiveInv, Play
  PROVE  AdaptiveInv' /\ Leaves(adaptive.window)
<1> DEFINE win      == adaptive.window
           d        == win.day
           wealth   == Worth(world, win.real, d - 1)
           choice   == Chosen(Actions(adaptive.plan, win.router, d, wealth), wealth)
           selected == IF choice = "ROUTER" THEN RouterChoice(win.router) ELSE choice
           before   == ProposedBefore(adaptive.plan.proposed, d)
           want     == IF selected = "CASH" THEN None ELSE before[selected]
           real     == Transition(world, win.real, want, d)
           shadow   == [name \in Specialists |->
                          Transition(world, win.shadow[name], before[name], d)]
           rewards  == [name \in Specialists |->
                          shadow[name].return - win.shadow[name].return]
           router   == Updated(win.router, rewards)
           traded   == win.traded \/ real.held # None
           next     == [win EXCEPT !.day = d + 1, !.real = real, !.shadow = shadow,
                                   !.router = router, !.traded = traded]
<1>1. /\ adaptive.plan # None /\ win.start \in Starts /\ d < win.start + Horizon
      /\ adaptive' = [adaptive EXCEPT !.window = next] /\ UNCHANGED vars
  BY Zenon DEF Play
<1>2. world' = world BY <1>1, Zenon DEF vars
<1>3. /\ world \in Worlds /\ PlanInv /\ win \in Windows
      /\ adaptive = [plan |-> adaptive.plan, window |-> win, discordant |-> adaptive.discordant]
      /\ win.real = Cash \/ Evidence(world, d)
  BY Zenon DEF AdaptiveInv, LedgerInv
<1>4. /\ win.start \in Nat \ {0} /\ d \in Nat \ {0} /\ win.router \in Routers
      /\ win.real \in Ledgers /\ win.shadow \in [Specialists -> Ledgers] /\ win.traded \in BOOLEAN
      /\ win = [start |-> win.start, day |-> d, router |-> win.router, real |-> win.real,
                shadow |-> win.shadow, traded |-> win.traded]
  BY <1>3 DEF Windows
<1>5. d \in Sessions
  <2>1. LastSession \in Nat /\ Horizon \in Nat BY ResearchAssumption, SplitAssumption
  <2>2. win.start \in 1 .. LastSession - Horizon + 1 /\ d < win.start + Horizon /\ d \in Nat \ {0}
    BY <1>1, <1>4 DEF Starts
  <2> HIDE DEF win, d
  <2>3. QED BY <2>1, <2>2 DEF Sessions
<1> HIDE DEF win
<1>6. /\ real \in Ledgers
      /\ win.real.held = None /\ want = None => real.held = None
      /\ win.real = Cash /\ real.held = None => real = Cash
  <2> HIDE DEF want, d
  <2>1. QED BY <1>3, <1>4, <1>5, TransitionIs
<1>7. shadow \in [Specialists -> Ledgers]
  <2>1. ASSUME NEW name \in Specialists
        PROVE  Transition(world, win.shadow[name], before[name], d) \in Ledgers
    <3>1. win.shadow[name] \in Ledgers BY <1>4
    <3> HIDE DEF before, d
    <3>2. QED BY <1>3, <1>5, <3>1, TransitionIs
  <2>2. QED BY <2>1, Zenon
<1>8. router \in Routers
  <2> HIDE DEF shadow
  <2>1. rewards \in [Specialists -> Int] BY <1>4, <1>7 DEF Ledgers
  <2> HIDE DEF rewards
  <2>2. QED BY <1>4, <2>1, UpdatedIs
<1>9. win.real.held = None /\ real.held # None => Evidence(world, d)
  <2> SUFFICES ASSUME win.real.held = None, real.held # None, win.real = Cash
               PROVE  Evidence(world, d)
    BY <1>3, Zenon
  <2>1. choice # "CASH"
    <3>1. want # None BY <1>6
    <3>2. choice = "CASH" => selected = "CASH"
      <4> HIDE DEF choice
      <4>1. QED OBVIOUS
    <3> HIDE DEF selected, choice, before
    <3>3. QED BY <3>1, <3>2
  <2>2. wealth = 0 BY DEF Worth, Cash
  <2> HIDE DEF wealth
  <2>3. PICK name \in Specialists : Cardinality(Disjoint(adaptive.plan.paths[name], d)) >= MinScenarios
    <3>1. d \in Nat /\ IsPlan(adaptive.plan, d) BY <1>1, <1>3, <1>4, <1>5, PlanIs
    <3> HIDE DEF d
    <3>2. QED BY <1>4, <2>1, <2>2, <3>1, ChoiceIs
  <2>4. DOMAIN adaptive.plan.paths[name] = PathEnds(world, name) BY <1>1, <1>3, <1>5, PlanIs
  <2>5. QED BY <1>4, <2>3, <2>4, ScenariosAreEvidence
<1> HIDE DEF real, shadow, router
<1>10. traded \in BOOLEAN BY <1>4, Zenon
<1> HIDE DEF traded
<1>11. next = [start |-> win.start, day |-> d + 1, router |-> router, real |-> real,
               shadow |-> shadow, traded |-> traded]
  <2> DEFINE start == win.start
             old   == win.router
             ledger == win.real
             ledgers == win.shadow
             was == win.traded
             w1 == [win EXCEPT !.day = d + 1]
             w2 == [w1 EXCEPT !.real = real]
             w3 == [w2 EXCEPT !.shadow = shadow]
             w4 == [w3 EXCEPT !.router = router]
             w5 == [w4 EXCEPT !.traded = traded]
  <2>1. win = [start |-> start, day |-> d, router |-> old, real |-> ledger,
               shadow |-> ledgers, traded |-> was]
    BY <1>4, Zenon
  <2> HIDE DEF start, old, ledger, ledgers, was, d
  <2>2. next = w5 OBVIOUS
  <2> HIDE DEF next
  <2>3. w1 = [start |-> start, day |-> d + 1, router |-> old, real |-> ledger,
              shadow |-> ledgers, traded |-> was]
    BY <2>1
  <2> HIDE DEF w1
  <2>4. w2 = [start |-> start, day |-> d + 1, router |-> old, real |-> real,
              shadow |-> ledgers, traded |-> was]
    BY <2>3
  <2> HIDE DEF w2
  <2>5. w3 = [start |-> start, day |-> d + 1, router |-> old, real |-> real,
              shadow |-> shadow, traded |-> was]
    BY <2>4
  <2> HIDE DEF w3
  <2>6. w4 = [start |-> start, day |-> d + 1, router |-> router, real |-> real,
              shadow |-> shadow, traded |-> was]
    BY <2>5
  <2> HIDE DEF w4
  <2>7. w5 = [start |-> start, day |-> d + 1, router |-> router, real |-> real,
              shadow |-> shadow, traded |-> traded]
    BY <2>6
  <2> HIDE DEF w5
  <2>8. QED BY <2>2, <2>7 DEF start
<1>12. next \in Windows
  <2>1. d + 1 \in Nat \ {0} BY <1>4
  <2>2. QED BY <1>4, <1>6, <1>7, <1>8, <1>10, <1>11, <2>1 DEF Windows
<1>13. next.start = win.start /\ next.day = d + 1 /\ next.real = real BY <1>11
<1> HIDE DEF next
<1>14. adaptive' = [plan |-> adaptive.plan, window |-> next, discordant |-> adaptive.discordant]
  BY <1>1, <1>3
<1>15. /\ adaptive'.plan = adaptive.plan /\ adaptive'.window = next
       /\ adaptive'.discordant = adaptive.discordant
  BY <1>14
<1>16. next.day <= next.start + Horizon
  BY <1>1, <1>4, <1>13, SplitAssumption
<1>17. next.real = Cash \/ Evidence(world, next.day)
  <2>1. CASE Evidence(world, d) BY <1>4, <1>13, <2>1, EvidenceStays
  <2>2. CASE win.real = Cash
    <3>1. win.real.held = None BY <2>2 DEF Cash
    <3>2. QED BY <1>6, <1>9, <1>13, <2>1, <2>2, <3>1
  <2>3. QED BY <1>3, <2>1, <2>2
<1>18. PlanInv' BY <1>2, <1>3, <1>15 DEF PlanInv
<1>19. LedgerInv' BY <1>2, <1>12, <1>14, <1>15, <1>16, <1>17 DEF LedgerInv
<1>20. Leaves(win) BY <1>9, <1>13, <1>15 DEF Leaves
<1>21. QED BY <1>2, <1>3, <1>18, <1>19, <1>20 DEF AdaptiveInv, win

LEMMA SurveyKeeps ==
  ASSUME AdaptiveInv, Survey
  PROVE  AdaptiveInv' /\ Leaves(adaptive.window)
<1> DEFINE proposed == [d \in Sessions |-> Proposals(world, d)]
           paths == [name \in Specialists |-> [e \in PathEnds(world, name) |-> PathGain(world, name, e)]]
           plan == [proposed |-> proposed, paths |-> paths]
<1>1. adaptive' = [adaptive EXCEPT !.plan = plan] /\ UNCHANGED vars BY Zenon DEF Survey
<1>2. world' = world BY <1>1, Zenon DEF vars
<1>3. plan.proposed = proposed /\ plan.paths = paths OBVIOUS
<1>4. /\ world \in Worlds /\ LedgerInv
      /\ adaptive = [plan |-> adaptive.plan, window |-> adaptive.window,
                     discordant |-> adaptive.discordant]
  BY Zenon DEF AdaptiveInv, LedgerInv
<1> HIDE DEF plan
<1>5. adaptive' = [plan |-> plan, window |-> adaptive.window, discordant |-> adaptive.discordant]
  BY <1>1, <1>4
<1>6. /\ adaptive'.plan = plan /\ adaptive'.window = adaptive.window
      /\ adaptive'.discordant = adaptive.discordant
  BY <1>5
<1>7. PlanInv' BY Zenon, <1>2, <1>3, <1>6 DEF PlanInv
<1>8. LedgerInv' BY <1>2, <1>4, <1>5, <1>6 DEF LedgerInv
<1>9. Leaves(adaptive.window) BY <1>6 DEF Leaves
<1>10. QED BY <1>2, <1>4, <1>7, <1>8, <1>9 DEF AdaptiveInv

LEMMA CloseKeeps ==
  ASSUME AdaptiveInv, CloseWindow
  PROVE  AdaptiveInv' /\ Leaves(adaptive.window)
<1> DEFINE win  == adaptive.window
           next == Opened(win.start + 1)
           then == IF next.start \in Starts THEN next ELSE win
           more == adaptive.discordant + (IF win.traded THEN 1 ELSE 0)
<1>1. /\ adaptive' = [plan |-> adaptive.plan, window |-> then, discordant |-> more]
      /\ world' = world
  BY Zenon DEF CloseWindow, vars
<1>2. world \in Worlds /\ PlanInv /\ LedgerInv BY Zenon DEF AdaptiveInv
<1>3. win \in Windows BY <1>2, Zenon DEF LedgerInv
<1>4. win.start \in Nat \ {0} BY <1>3 DEF Windows
<1> DEFINE start == win.start + 1
<1>5. start \in Nat \ {0} BY <1>4
<1>6. next \in Windows /\ next.start = start /\ next.day = start /\ next.real = Cash
  <2> HIDE DEF start
  <2>1. Opened(start) \in Windows /\ Opened(start).start = start /\ Opened(start).day = start
        /\ Opened(start).real = Cash
    BY <1>5, OpenedIs
  <2>2. next = Opened(start) BY DEF start
  <2> HIDE DEF next
  <2>3. QED BY <2>1, <2>2
<1> HIDE DEF next, more
<1>7. /\ then \in Windows /\ then.day <= then.start + Horizon
      /\ then.real = Cash \/ Evidence(world, then.day)
  <2>1. next.day <= next.start + Horizon BY <1>5, <1>6, SplitAssumption
  <2>2. win.day <= win.start + Horizon /\ (win.real = Cash \/ Evidence(world, win.day))
    BY <1>2, Zenon DEF LedgerInv
  <2> HIDE DEF win
  <2>3. QED BY <1>3, <1>6, <2>1, <2>2
<1>8. /\ adaptive'.plan = adaptive.plan /\ adaptive'.window = then /\ adaptive'.discordant = more
  BY <1>1
<1>9. then = win \/ then.start # win.start
  BY <1>4, <1>6
<1>10. Leaves(win)
  <2> HIDE DEF then, win
  <2>1. QED BY <1>8, <1>9 DEF Leaves
<1> HIDE DEF then
<1>11. PlanInv' BY <1>1, <1>2, <1>8 DEF PlanInv
<1>12. LedgerInv' BY <1>1, <1>7, <1>8 DEF LedgerInv
<1>13. QED BY <1>1, <1>2, <1>10, <1>11, <1>12 DEF AdaptiveInv

LEMMA WorldStays == [Next]_vars => world' = world
BY DEF Next, Inputs, Label, Split, FitFold, Judge, Write, Fail, vars

LEMMA OthersKeep ==
  ASSUME AdaptiveInv, world' = world, adaptive' = adaptive
  PROVE  AdaptiveInv' /\ Leaves(adaptive.window)
BY DEF AdaptiveInv, PlanInv, LedgerInv, Leaves

\* No step leaves cash without evidence, and what the next steps rely on stays.
LEMMA AdaptiveKept ==
  AdaptiveInv /\ [AdaptiveNext]_adaptiveVars => AdaptiveInv' /\ Leaves(adaptive.window)
<1> SUFFICES ASSUME AdaptiveInv, [AdaptiveNext]_adaptiveVars
             PROVE  AdaptiveInv' /\ Leaves(adaptive.window)
  OBVIOUS
<1>1. CASE Survey BY <1>1, SurveyKeeps
<1>2. CASE Play BY <1>2, PlayKeeps
<1>3. CASE CloseWindow BY <1>3, CloseKeeps
<1>4. CASE Next /\ adaptive' = adaptive BY <1>4, WorldStays, OthersKeep
<1>5. CASE UNCHANGED adaptiveVars
  <2>1. world' = world /\ adaptive' = adaptive BY <1>5, Zenon DEF adaptiveVars, vars
  <2>2. QED BY <2>1, OthersKeep
<1>6. QED BY <1>1, <1>2, <1>3, <1>4, <1>5, Zenon DEF AdaptiveNext

LEMMA AdaptiveInitially == AdaptiveInit => AdaptiveInv
<1> SUFFICES ASSUME AdaptiveInit PROVE AdaptiveInv OBVIOUS
<1>1. world \in Worlds /\ adaptive = [plan |-> None, window |-> Opened(1), discordant |-> 0]
  BY Zenon DEF AdaptiveInit, Init, Idle
<1>2. Opened(1) \in Windows /\ Opened(1).start = 1 /\ Opened(1).day = 1 /\ Opened(1).real = Cash
  BY OpenedIs
<1>3. adaptive.plan = None /\ adaptive.window = Opened(1) /\ adaptive.discordant = 0 BY <1>1
<1>4. PlanInv BY <1>3 DEF PlanInv
<1>5. Opened(1).day <= Opened(1).start + Horizon BY <1>2, SplitAssumption
<1>6. LedgerInv BY <1>1, <1>2, <1>3, <1>5 DEF LedgerInv
<1>7. QED BY <1>1, <1>4, <1>6 DEF AdaptiveInv

\* The controller buys with the real ledger only when some specialist has as
\* many scenarios as it asks for, counted from continuations that have ended and do
\* not overlap: cash is then the best action there is.
THEOREM EvidenceIsCounted == AdaptiveSpec => EvidenceCountedOnce
<1>1. AdaptiveInv /\ [AdaptiveNext]_adaptiveVars =>
        [LET win == adaptive.window
         IN  win.real.held = None /\ adaptive'.window.start = win.start
               /\ adaptive'.window.real.held # None => Evidence(world, win.day)]_adaptiveVars
  BY AdaptiveKept DEF Leaves
<1>2. QED BY <1>1, AdaptiveInitially, AdaptiveKept, PTL DEF AdaptiveSpec, EvidenceCountedOnce
=============================================================================
