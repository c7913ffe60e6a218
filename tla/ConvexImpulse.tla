---------------------------- MODULE ConvexImpulse ----------------------------
(***************************************************************************)
(* The convex strategy: of the +2x products outside the broad indices it    *)
(* takes the strongest surge or, without any, the strongest continuation,   *)
(* and stays with what it holds for MinHold closes, and then until another  *)
(* one leads by MinGap.                                                     *)
(*                                                                          *)
(* A row is what the day shows of one product: double (+2x, named, not      *)
(* synthetic, not of a broad index), fills (the capacity filter keeps it),  *)
(* surges and climbs (the two setups), mom10 and mom60 (their strengths)    *)
(* and crashed (its drawdown is past the limit).                            *)
(***************************************************************************)
EXTENDS Integers

CONSTANTS None, MinGap, MinHold

\* filter_convex_plus2_rows and the capacity filter.
Doubles(rows) == {t \in DOMAIN rows : rows[t].double}
Affordable(rows) == {t \in Doubles(rows) : rows[t].fills}

\* classify_setup: a surge comes first.
Setup(row) == IF row.surges THEN "impulse" ELSE IF row.climbs THEN "continuation" ELSE "none"
Strength(row) == IF Setup(row) = "impulse" THEN row.mom10 ELSE row.mom60

InSetup(rows, S, setup) == {t \in S : Setup(rows[t]) = setup}

\* sorted(...)[0]; CHOOSE stands for the first in the order of tickers.
Strongest(rows, S) == CHOOSE t \in S : \A u \in S : Strength(rows[t]) >= Strength(rows[u])

\* pick_convex_ticker over gated rows.  A surge is measured against what is
\* held by the strength of either one's own setup.
PickTicker(rows, gated, held, age) ==
  LET surging == InSetup(rows, gated, "impulse")
      fresh   == Strongest(rows, IF surging # {} THEN surging ELSE gated)
      locked  == age < MinHold
      close   == Strength(rows[fresh]) - Strength(rows[held]) < MinGap
  IN  IF held \in gated /\ (locked \/ close) THEN held ELSE fresh

\* score: the product it wants, None for cash, and whether it got as far as
\* the trackers.  A holding that is not shown is not seen to crash.
ConvexScore(rows, tracked, held) ==
  LET gated   == {t \in Affordable(rows) : Setup(rows[t]) # "none"}
      crashed == held \in DOMAIN rows /\ rows[held].crashed
  IN  IF Affordable(rows) = {} THEN [seen |-> FALSE, wants |-> None]
      ELSE IF crashed \/ gated = {} THEN [seen |-> TRUE, wants |-> None]
      ELSE [seen |-> TRUE, wants |-> PickTicker(rows, gated, held, tracked)]
==============================================================================
