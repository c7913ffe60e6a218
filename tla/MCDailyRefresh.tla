---------------------------- MODULE MCDailyRefresh ----------------------------
(* The instance TLC checks: one vehicle that has a row in every session, or    *)
(* none in the second one, the first that the pipeline has to catch up with.    *)
EXTENDS DailyRefresh

MCListings == {[s \in Sessions |-> Vehicles],
               [s \in Sessions |-> IF s = 2 THEN {} ELSE Vehicles]}
=============================================================================
