--------------------------- MODULE MCWindowReplay ---------------------------
(* The instance TLC checks: two products, a look-back session and six of the  *)
(* backtest, at most MaxIncidents of the things that make the replays differ. *)
EXTENDS WindowReplay, TLC

CONSTANTS a, b, MaxIncidents

MCProducts == {a, b}
MCAsked   == <<5, 3, 2, 4, 9, 6>>

\* A session without rows, one whose scores raise, one on which the equity falls, a
\* product that is halted or not eligible on a session; and for the convex model
\* one whose volume is too thin or which shows no setup.
Incidents ==
  ({"norows", "fails", "falls"} \X Sessions \X {a})
    \cup ({"halted", "ineligible", "thin", "quiet"} \X Sessions \X Products)
Happenings == {S \in {{}} \cup {{x, y} : x \in Incidents, y \in Incidents} :
                 Cardinality(S) <= MaxIncidents}

\* The best product surges every other day, the other one climbs, on every
\* third day too slowly to keep its lead.  One day calls one of them by a name
\* that is not taken for a +2x product.
ShownOf(best, S) ==
  [d \in Sessions |-> [t \in MCProducts |->
     [double |-> d # 5 \/ t = a, fills |-> <<"thin", d, t>> \notin S,
      surges |-> t = best[d] /\ d % 2 = 0 /\ <<"quiet", d, t>> \notin S,
      climbs |-> <<"quiet", d, t>> \notin S,
      mom10 |-> 2, mom60 |-> IF t = best[d] THEN 4 ELSE IF d % 3 = 0 THEN 0 ELSE 3,
      crashed |-> <<"falls", d, a>> \in S]]]

\* The best for a model that allocates is another one without regime, permission
\* and volumes, every fourth day also with what the cache keeps of them.
Other(t) == IF t = a THEN b ELSE a
Aided(kind, best) ==
  [x \in Aids |-> [d \in Sessions |->
     IF kind = "policy" /\ (x = "none" \/ (x = "cache" /\ d % 4 = 0)) THEN Other(best[d]) ELSE best[d]]]

WorldOf(kind, best, S) ==
  LET rows     == {d \in Sessions : <<"norows", d, a>> \notin S}
      tradable == [d \in Sessions |-> IF d \in rows THEN {t \in MCProducts : <<"halted", d, t>> \notin S} ELSE {}]
  IN  [kind |-> kind, best |-> Aided(kind, best), rows |-> rows, tradable |-> tradable,
       eligible |-> [d \in Sessions |-> {t \in tradable[d] : <<"ineligible", d, t>> \notin S}],
       failing |-> {d \in Sessions : <<"fails", d, a>> \in S},
       falls |-> {d \in Sessions : <<"falls", d, a>> \in S},
       shown |-> IF kind = "convex" THEN ShownOf(best, S) ELSE <<>>]

Bests == {[d \in Sessions |-> IF d % 2 = 0 THEN a ELSE b],
          [d \in Sessions |-> IF d < 4 THEN a ELSE b],
          [d \in Sessions |-> IF d \in {1, 4} THEN b ELSE a]}
MCWorlds == {WorldOf(kind, best, S) : kind \in {"sticky", "fillable", "policy", "convex"}, best \in Bests, S \in Happenings}
==============================================================================
