---------------------------- MODULE MCStickyHold ----------------------------
(* The instance TLC checks: two +2x tickers, which are funds of one index or  *)
(* of two: a family collapse leaves the one that traded more, and a residual  *)
(* goes to the other family.                                                  *)
EXTENDS StickyHold

MCFamilies == {[t \in Tickers |-> 1], [t \in Tickers |-> t]}
=============================================================================
