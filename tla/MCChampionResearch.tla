------------------------- MODULE MCChampionResearch -------------------------
(* The instance TLC checks: a +1x and two +2x products over twelve sessions,  *)
(* MaxHoles times without a quote or without a candidate.                     *)
EXTENDS AdaptiveSpecialists, TLC

CONSTANTS a, b, c, MaxHoles

MCTickers  == {a, b, c}
MCMultiple == (a :> 1) @@ (b :> 2) @@ (c :> 2)
MCRankings == {(a :> 1) @@ (b :> 2) @@ (c :> 3), (a :> 3) @@ (b :> 2) @@ (c :> 1)}
MCYear     == [s \in 1 .. LastSession |-> IF s < LastSession - 4 THEN 1 ELSE 2]
MCThresholds == {0, 1}

\* A day's hole: nobody is eligible, or one of the +2x products is not quoted.
Holes == Sessions \X {"nobody", "b", "c"}
HoleSets == {{}} \cup {{h} : h \in Holes} \cup
              (IF MaxHoles > 1 THEN {{h, <<d, "nobody">>} : h \in Holes, d \in {2, 5, 8, 11}} ELSE {})
Quoted(holes) == [d \in Sessions |-> {a} \cup {t \in {b} : <<d, "b">> \notin holes}
                                         \cup {t \in {c} : <<d, "c">> \notin holes}]
EligibleOf(holes) == [d \in Sessions |-> IF <<d, "nobody">> \in holes THEN {} ELSE MCTickers]

\* Prices: b gains on odd sessions and c on even ones, or b falls throughout.
Moves == {[d \in Sessions |-> (a :> 0) @@ (b :> (d % 2)) @@ (c :> 1 - (d % 2))],
          [d \in Sessions |-> (a :> 0) @@ (b :> (0 - 1)) @@ (c :> (d % 2))]}
\* b and c take turns by months, or b falls until it turns.
AdaptiveMoves == Moves \cup
  {[d \in Sessions |-> (a :> 0) @@ (b :> IF d < 7 THEN 1 ELSE 0 - 1) @@ (c :> IF d < 5 THEN 0 - 1 ELSE 1)],
   [d \in Sessions |-> (a :> 0) @@ (b :> IF d % 4 = 0 THEN 0 - 2 ELSE 1) @@ (c :> 1)]}
Wanted == {[d \in Sessions |-> b], [d \in Sessions |-> IF d % 3 = 0 THEN a ELSE c]}

SoundWorlds ==
  {[asked |-> mode, mode |-> mode, quoted |-> Quoted(holes), eligible |-> EligibleOf(holes),
    move |-> move, wanted |-> wanted, breach |-> breach] :
     mode \in {"p27_matched_2x", "executable_hurdle"}, holes \in HoleSets,
     move \in Moves, wanted \in Wanted, breach \in {FALSE}}
  \cup
  {[asked |-> mode, mode |-> mode, quoted |-> Quoted({}), eligible |-> EligibleOf({}),
    move |-> move, wanted |-> wanted, breach |-> TRUE] :
     mode \in {"p27_matched_2x", "executable_hurdle"}, move \in Moves, wanted \in Wanted}
  \cup
  {[asked |-> "adaptive_specialists", mode |-> "adaptive_specialists", quoted |-> Quoted(holes), eligible |-> EligibleOf(holes),
    move |-> move, wanted |-> [d \in Sessions |-> None], breach |-> FALSE] :
     holes \in {{}} \cup {{h} : h \in Holes}, move \in AdaptiveMoves}

\* Besides these, a command line that asks for another mode than the configuration's.
MCWorlds ==
  SoundWorlds \cup {[w EXCEPT !.asked = "executable_hurdle"] :
                       w \in {x \in SoundWorlds : x.mode = "p27_matched_2x" /\ x.breach}}
MCRuinAt == 0 - 1
MCRuinFloor == 0 - 2
MCLossAt == 0
MCRecent == {2}

\* Of the three one is broad, one of a theme and one of no bucket.
MCBucket == (a :> None) @@ (b :> "long_broad") @@ (c :> "long_theme")
MCMomentum == (a :> 1) @@ (b :> 2) @@ (c :> 3)
==============================================================================
