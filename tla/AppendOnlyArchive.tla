-------------------------- MODULE AppendOnlyArchive --------------------------
(***************************************************************************)
(* What the leaderboard archive promises its readers: under each base date  *)
(* an original that never changes once it is there, and a growing set of    *)
(* named revisions that differ from it.  Nothing is removed or rewritten.   *)
(***************************************************************************)
CONSTANTS Dates, Bodies, Names, NoBody

VARIABLES original, revisions

\* `<baseDt>/`: the record every reader uses.
KeepOriginal(d, body) ==
  /\ original[d] = NoBody
  /\ original' = [original EXCEPT ![d] = body]
  /\ UNCHANGED revisions

\* `<baseDt>/revisions/<name>/`.
KeepRevision(d, name, body) ==
  /\ original[d] \notin {NoBody, body}
  /\ name \notin {r.name : r \in revisions[d]}
  /\ revisions' = [revisions EXCEPT ![d] = @ \union {[name |-> name, body |-> body]}]
  /\ UNCHANGED original

Init ==
  /\ original = [d \in Dates |-> NoBody]
  /\ revisions = [d \in Dates |-> {}]

Next == \E d \in Dates, body \in Bodies :
          KeepOriginal(d, body) \/ \E name \in Names : KeepRevision(d, name, body)

Spec == Init /\ [][Next]_<<original, revisions>>

=============================================================================
