-------------------------- MODULE PurgedWalkForward --------------------------
(***************************************************************************)
(* PurgedDateWalkForward.split: which decision dates train a fold and which *)
(* it scores, with a gap between them that keeps the training labels, which *)
(* look Horizon sessions ahead, away from the scored dates.                 *)
(*                                                                          *)
(* Dates are session numbers.  ordered[i:j] of the code is Slice(D, i, j):  *)
(* the dates of D that have more than i and at most j dates up to them.     *)
(***************************************************************************)
EXTENDS Integers, FiniteSets

CONSTANTS
  Horizon,    \* label_horizon: the sessions a label looks ahead
  Embargo,    \* embargo
  MinGap,     \* the floor of the gap (72 in the code)
  NFolds,     \* n_folds
  MinTrain    \* min_train_sessions

ASSUME SplitAssumption ==
  /\ Horizon \in Nat \ {0} /\ Embargo \in Nat /\ MinGap \in Nat
  /\ MinGap > Horizon
  /\ NFolds \in Nat \ {0} /\ MinTrain \in Nat \ {0}

Rank(D, d) == Cardinality({e \in D : e <= d})
Slice(D, from, to) == {d \in D : from < Rank(D, d) /\ Rank(D, d) <= to}

Larger(i, j) == IF i < j THEN j ELSE i

\* Mutant: the gap leaves out what a label looks ahead.
EmbargoOnly == Embargo

Gap == Larger(Horizon + Embargo, MinGap)

Usable(D) == Cardinality(D) - MinTrain - Gap
TestSize(D) == Larger(1, Usable(D) \div NFolds)
TrainEnd(D, k) == MinTrain + k * TestSize(D)
TestStart(D, k) == TrainEnd(D, k) + Gap
TestEnd(D, k) == IF k < NFolds - 1 THEN TestStart(D, k) + TestSize(D) ELSE Cardinality(D)

Fold(D, k) ==
  [id     |-> k,
   train  |-> Slice(D, 0, TrainEnd(D, k)),
   test   |-> Slice(D, TestStart(D, k), TestEnd(D, k)),
   warmup |-> Slice(D, TestStart(D, k) - 1, TestStart(D, k))]

Folds(D) ==
  {Fold(D, k) : k \in {j \in 0 .. NFolds - 1 : TestStart(D, j) < Cardinality(D)}}

\* The dates a fold's model scores; those it is judged on are fold.test.
Scored(fold) == fold.warmup \cup fold.test
==============================================================================
