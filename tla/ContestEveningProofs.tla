------------------------- MODULE ContestEveningProofs -------------------------
(***************************************************************************)
(* Proofs about ContestEvening for any number of sessions, any vote of the  *)
(* segment, any contest dates and thresholds and any number of crashes, and  *)
(* about ContestSimulation for any panel, crowd, ranking and length of the  *)
(* contest.                                                                 *)
(***************************************************************************)
EXTENDS ContestEvening, ContestSimulation, FiniteSetTheorems, WellFoundedInduction, TLAPS

(***************************************************************************)
(* Types                                                                    *)
(***************************************************************************)

Ledgers == [asOf : 0 .. LastSession, source : {"none", "USER", "LEADERBOARD", "LEDGER"},
            anchor : 0 .. LastSession, legs : Seq([session : Sessions, side : Sides])]
Actions == Dated \union {"none"}
Tasks == [pc : {"idle", "daily", "build", "card", "metric", "segment", "ledger", "plan"},
          user : BOOLEAN, row : [session : 0 .. LastSession, action : Actions, good : BOOLEAN],
          card : [action : Actions, gate : Verdicts], plan : [action : Plans, standing : Standings],
          next : Ledgers]

Typed ==
  /\ day \in 0 .. LastSession /\ phase \in {"trading", "evening"}
  /\ falls \subseteq Vote /\ executed \in [Sessions -> Sides]
  /\ board \in {"absent", "unlisted", "listed"}
  /\ quotes \in {Absent} \union SUBSET Tickers
  /\ daily \in [Sessions -> Cards] /\ rows \in Seq(Row)
  /\ seg \in [Sessions -> Plans] /\ standing \in Standings /\ ledger \in Ledgers
  /\ task \in Tasks
  /\ task.pc # "idle" => day > 0 /\ phase = "evening"
  /\ task.pc \in {"card", "metric"} => task.row \in Row
  /\ crashes \in 0 .. MaxCrashes

(***************************************************************************)
(* The invariant                                                            *)
(***************************************************************************)

\* A ledger that counts each session since its anchor once, up to today at most.
Honest(l) ==
  /\ l.asOf = l.anchor + Len(l.legs) /\ l.asOf <= day
  /\ \A i \in DOMAIN l.legs :
       l.legs[i].session = l.anchor + i /\ l.legs[i].side = executed[l.legs[i].session]

\* The operator holds what the card of the evening before asks for.
Followed ==
  day > 1 /\ ExecutedSide(seg[day - 1]) # "none" => executed[day] = ExecutedSide(seg[day - 1])

\* What a card may say of our standing, given the ledger l.
Grounded(said, l) ==
  /\ said \in {"equity", "required"} => l.asOf = day
  /\ said = "required" => board # "absent"

EstimateInv ==
  /\ Honest(ledger) /\ Followed /\ Grounded(standing, ledger)
  /\ task.pc = "ledger" =>
       /\ Honest(task.next) /\ ledger.asOf <= task.next.asOf
       /\ Grounded(task.plan.standing, task.next)
  /\ task.pc = "plan" => Grounded(task.plan.standing, ledger)

Distinct(rs) == \A i, j \in DOMAIN rs : rs[i].session = rs[j].session => i = j
Covered(rs) == \A i \in DOMAIN rs : rs[i].action = "RECORD" => daily[rs[i].session].action = "RECORD"

RowsInv ==
  /\ Distinct(rows) /\ Covered(rows)
  /\ task.pc \in {"build", "card"} => daily[day].action \in {"none", "NO_DATA"}
  /\ task.pc \in {"card", "metric"} => task.row.session = day /\ task.card.action = task.row.action
  /\ task.pc = "metric" => daily[day] = task.card

(***************************************************************************)
(* The metrics file without a session's rows.  Others is a recursive        *)
(* function; its lemmas argue from the least length at which they would     *)
(* fail (WFMin), which needs no induction scheme.                           *)
(***************************************************************************)

LEMMA LeastExists ==
  ASSUME NEW T \in SUBSET Nat, T # {}
  PROVE  \E x \in T : \A y \in T : x <= y
<1>1. IsWellFoundedOn(OpToRel(<, Nat), Nat)
  BY NatLessThanWellFounded
<1>2. \E x \in T : \A y \in T : ~ (<<y, x>> \in OpToRel(<, Nat))
  BY <1>1, WFMin
<1>3. PICK x \in T : \A y \in T : ~ (<<y, x>> \in OpToRel(<, Nat))
  BY <1>2
<1>4. \A y \in T : ~ (y < x)
  BY <1>3 DEF OpToRel
<1>5. QED BY <1>4

\* The equation of what is kept of the first n rows.
Keeps(f, rs, s, n) ==
  f = [m \in 0 .. n |->
         IF m = 0 THEN <<>>
         ELSE IF rs[m].session = s THEN f[m - 1] ELSE Append(f[m - 1], rs[m])]

LEMMA KeepsExist ==
  ASSUME NEW rs, NEW s, NEW n \in Nat
  PROVE  \E f : Keeps(f, rs, s, n)
<1> DEFINE T == {m \in Nat : ~ \E f : Keeps(f, rs, s, m)}
<1> SUFFICES ASSUME T # {} PROVE FALSE OBVIOUS
<1>1. PICK m \in T : \A k \in T : m <= k BY LeastExists
<1>2. m # 0
  <2>1. Keeps([i \in 0 .. 0 |-> <<>>], rs, s, 0) BY DEF Keeps
  <2>2. QED BY <2>1
<1>3. PICK f : Keeps(f, rs, s, m - 1)
  <2>1. m - 1 \in Nat /\ ~ (m <= m - 1) BY <1>2
  <2>2. QED BY <1>1, <2>1
<1> DEFINE newest == IF rs[m].session = s THEN f[m - 1] ELSE Append(f[m - 1], rs[m])
           r == [i \in 0 .. m |-> IF i = m THEN newest ELSE f[i]]
<1>4. ASSUME NEW i \in 0 .. m
      PROVE  r[i] = IF i = 0 THEN <<>>
                    ELSE IF rs[i].session = s THEN r[i - 1] ELSE Append(r[i - 1], rs[i])
  <2>1. CASE i = m
    <3>1. r[i] = newest /\ r[i - 1] = f[m - 1]
      <4> HIDE DEF newest
      <4>1. QED BY <1>2, <2>1
    <3> HIDE DEF r
    <3>2. QED BY <1>2, <2>1, <3>1
  <2>2. CASE i # m
    <3>1. i \in 0 .. m - 1 BY <2>2
    <3>2. f[i] = IF i = 0 THEN <<>>
                 ELSE IF rs[i].session = s THEN f[i - 1] ELSE Append(f[i - 1], rs[i])
      BY <1>3, <3>1 DEF Keeps
    <3>3. r[i] = f[i] /\ (i # 0 => r[i - 1] = f[i - 1])
      <4> HIDE DEF newest
      <4>1. QED BY <2>2, <3>1
    <3> HIDE DEF r
    <3>4. QED BY <3>2, <3>3
  <2>3. QED BY <2>1, <2>2
<1>5. r = [i \in 0 .. m |-> r[i]] OBVIOUS
<1> HIDE DEF r
<1>6. Keeps(r, rs, s, m) BY <1>4, <1>5 DEF Keeps
<1>7. QED BY <1>6

\* Of the rows up to n, those kept are of other sessions; if the rows are
\* distinct, so are they, and at most one is missing.
Filtered(kept, rs, s, n) ==
  /\ kept \in Seq(Row)
  /\ \A i \in DOMAIN kept : \E k \in 1 .. n : kept[i] = rs[k] /\ rs[k].session # s
  /\ Distinct(rs) =>
       /\ Distinct(kept)
       /\ Len(kept) = n \/ (Len(kept) = n - 1 /\ \E k \in 1 .. n : rs[k].session = s)

LEMMA FilteredStep ==
  ASSUME NEW rs \in Seq(Row), NEW s, NEW n \in 1 .. Len(rs), NEW kept,
         Filtered(kept, rs, s, n - 1)
  PROVE  /\ rs[n].session = s => Filtered(kept, rs, s, n)
         /\ rs[n].session # s => Filtered(Append(kept, rs[n]), rs, s, n)
<1>1. /\ kept \in Seq(Row) /\ n \in Nat /\ n \in DOMAIN rs /\ rs[n] \in Row
      /\ \A i \in DOMAIN kept : \E k \in 1 .. n - 1 : kept[i] = rs[k] /\ rs[k].session # s
  BY DEF Filtered
<1>2. \A k \in 1 .. n - 1 : k \in 1 .. n /\ k \in DOMAIN rs /\ k # n
  BY <1>1
<1>3. ASSUME rs[n].session = s PROVE Filtered(kept, rs, s, n)
  <2>1. ASSUME Distinct(rs)
        PROVE  Len(kept) = n - 1 /\ \E k \in 1 .. n : rs[k].session = s
    <3>1. \A k \in 1 .. n - 1 : rs[k].session # s
      BY <1>1, <1>2, <1>3, <2>1 DEF Distinct
    <3>2. n \in 1 .. n BY <1>1
    <3>3. QED BY <1>3, <2>1, <3>1, <3>2 DEF Filtered
  <2>2. QED BY <1>1, <1>2, <2>1 DEF Filtered
<1>4. ASSUME rs[n].session # s PROVE Filtered(Append(kept, rs[n]), rs, s, n)
  <2> DEFINE more == Append(kept, rs[n])
  <2>1. /\ more \in Seq(Row) /\ Len(more) = Len(kept) + 1 /\ DOMAIN more = 1 .. Len(kept) + 1
        /\ more[Len(kept) + 1] = rs[n] /\ \A i \in 1 .. Len(kept) : more[i] = kept[i]
        /\ DOMAIN kept = 1 .. Len(kept) /\ Len(kept) \in Nat
    BY <1>1
  <2> HIDE DEF more
  <2>2. \A i \in DOMAIN more : i \in DOMAIN kept \/ i = Len(kept) + 1
    BY <2>1
  <2>3. \A i \in DOMAIN more : \E k \in 1 .. n : more[i] = rs[k] /\ rs[k].session # s
    <3>1. ASSUME NEW i \in DOMAIN kept
          PROVE  \E k \in 1 .. n : more[i] = rs[k] /\ rs[k].session # s
      <4>1. more[i] = kept[i] BY <2>1
      <4>2. QED BY <1>1, <1>2, <4>1
    <3>2. n \in 1 .. n BY <1>1
    <3>3. QED BY <1>4, <2>1, <2>2, <3>1, <3>2
  <2>4. ASSUME Distinct(rs), NEW i \in DOMAIN more, NEW j \in DOMAIN more,
               more[i].session = more[j].session
        PROVE  i = j
    <3>1. ASSUME NEW x \in DOMAIN kept PROVE kept[x].session # rs[n].session
      <4>1. PICK k \in 1 .. n - 1 : kept[x] = rs[k] BY <1>1
      <4>2. k \in DOMAIN rs /\ k # n BY <1>2
      <4>3. QED BY <1>1, <2>4, <4>1, <4>2 DEF Distinct
    <3>2. \A x, y \in DOMAIN kept : kept[x].session = kept[y].session => x = y
      BY <2>4 DEF Filtered, Distinct
    <3>3. QED BY <2>1, <2>2, <2>4, <3>1, <3>2
  <2>5. ASSUME Distinct(rs)
        PROVE  Len(more) = n \/ (Len(more) = n - 1 /\ \E k \in 1 .. n : rs[k].session = s)
    <3>1. Len(kept) = n - 1 \/ (Len(kept) = n - 2 /\ \E k \in 1 .. n - 1 : rs[k].session = s)
      BY <1>1, <2>5 DEF Filtered
    <3>2. CASE Len(kept) = n - 1 BY <1>1, <2>1, <3>2
    <3>3. CASE Len(kept) = n - 2 /\ \E k \in 1 .. n - 1 : rs[k].session = s
      BY <1>1, <1>2, <2>1, <3>3
    <3>4. QED BY <3>1, <3>2, <3>3
  <2>6. Distinct(rs) => Distinct(more) BY <2>4 DEF Distinct
  <2>7. QED BY <2>1, <2>3, <2>5, <2>6 DEF Filtered, more
<1>5. QED BY <1>3, <1>4

LEMMA OthersFiltered ==
  ASSUME NEW rs \in Seq(Row), NEW s
  PROVE  Filtered(Others(rs, s), rs, s, Len(rs))
<1> DEFINE f == CHOOSE f : Keeps(f, rs, s, Len(rs))
<1>1. Len(rs) \in Nat OBVIOUS
<1>2. Keeps(f, rs, s, Len(rs)) BY <1>1, KeepsExist
<1>3. Others(rs, s) = f[Len(rs)] BY DEF Others, Keeps
<1> HIDE DEF f
<1> DEFINE T == {n \in 0 .. Len(rs) : ~ Filtered(f[n], rs, s, n)}
<1>4. T = {}
  <2> SUFFICES ASSUME T # {} PROVE FALSE OBVIOUS
  <2>1. PICK n \in T : \A k \in T : n <= k
    <3>1. T \subseteq Nat OBVIOUS
    <3>2. QED BY <3>1, LeastExists
  <2>2. n # 0
    <3>1. f[0] = <<>> BY <1>1, <1>2 DEF Keeps
    <3>2. Filtered(<<>>, rs, s, 0) BY DEF Filtered, Distinct
    <3>3. QED BY <3>1, <3>2
  <2>3. n \in 1 .. Len(rs) /\ n - 1 \in 0 .. Len(rs) BY <1>1, <2>2
  <2>4. ~ (n <= n - 1) BY <2>3
  <2>5. Filtered(f[n - 1], rs, s, n - 1) BY <2>1, <2>3, <2>4
  <2>6. f[n] = IF rs[n].session = s THEN f[n - 1] ELSE Append(f[n - 1], rs[n])
    BY <1>2, <2>2 DEF Keeps
  <2>7. Filtered(f[n], rs, s, n) BY <2>3, <2>5, <2>6, FilteredStep
  <2>8. QED BY <2>7
<1>5. Len(rs) \in 0 .. Len(rs) BY <1>1
<1>6. QED BY <1>3, <1>4, <1>5

\* An upserted file: one row of the session, at the end, and rows there were.
LEMMA UpsertedIs ==
  ASSUME NEW rs \in Seq(Row), NEW row \in Row
  PROVE  LET u == Upserted(rs, row) IN
         /\ u \in Seq(Row)
         /\ \A i \in DOMAIN u :
              u[i] = row \/ \E k \in DOMAIN rs : u[i] = rs[k] /\ rs[k].session # row.session
         /\ Distinct(rs) => Distinct(u) /\ Len(u) >= Len(rs)
<1> DEFINE o == Others(rs, row.session)
           u == Append(o, row)
<1>1. Filtered(o, rs, row.session, Len(rs)) BY OthersFiltered
<1> HIDE DEF o
<1>2. o \in Seq(Row) /\ DOMAIN rs = 1 .. Len(rs) BY <1>1 DEF Filtered
<1>3. /\ u \in Seq(Row) /\ DOMAIN u = 1 .. Len(o) + 1 /\ u[Len(o) + 1] = row
      /\ DOMAIN o = 1 .. Len(o) /\ Len(o) \in Nat
      /\ \A i \in 1 .. Len(o) : u[i] = o[i]
  BY <1>2
<1> HIDE DEF u
<1>4. \A i \in DOMAIN u : i = Len(o) + 1 \/ (i \in DOMAIN o /\ u[i] = o[i])
  BY <1>3
<1>5. \A i \in DOMAIN o : \E k \in DOMAIN rs : o[i] = rs[k] /\ rs[k].session # row.session
  BY <1>1, <1>2 DEF Filtered
<1>6. \A i \in DOMAIN u :
        u[i] = row \/ \E k \in DOMAIN rs : u[i] = rs[k] /\ rs[k].session # row.session
  BY <1>3, <1>4, <1>5
<1>7. ASSUME Distinct(rs), NEW i \in DOMAIN u, NEW j \in DOMAIN u, u[i].session = u[j].session
      PROVE  i = j
  <2>1. \A x, y \in DOMAIN o : o[x].session = o[y].session => x = y
    BY <1>1, <1>7 DEF Filtered, Distinct
  <2>2. \A x \in DOMAIN o : o[x].session # row.session
    BY <1>5
  <2>3. QED BY <1>3, <1>4, <1>7, <2>1, <2>2
<1>8. u = Upserted(rs, row) BY DEF u, o, Upserted
<1>9. Distinct(rs) => Len(u) >= Len(rs)
  <2>1. Len(u) = Len(o) + 1 BY <1>3
  <2>2. Distinct(rs) => Len(o) = Len(rs) \/ Len(o) = Len(rs) - 1
    BY <1>1 DEF Filtered
  <2>3. Len(rs) \in Nat OBVIOUS
  <2>4. QED BY <1>3, <2>1, <2>2, <2>3
<1>10. QED BY <1>3, <1>6, <1>7, <1>8, <1>9 DEF Distinct

\* A prefix of a file has rows of the file, and no row twice.
LEMMA PrefixIs ==
  ASSUME NEW rs \in Seq(Row), NEW n \in 0 .. Len(rs), Distinct(rs)
  PROVE  LET c == SubSeq(rs, 1, n) IN
         /\ c \in Seq(Row) /\ DOMAIN c \subseteq DOMAIN rs /\ \A i \in DOMAIN c : c[i] = rs[i]
         /\ Distinct(c)
<1> DEFINE c == SubSeq(rs, 1, n)
<1>1. c \in Seq(Row) /\ Len(c) = n /\ DOMAIN c = 1 .. n /\ \A i \in 1 .. n : c[i] = rs[i]
  OBVIOUS
<1> HIDE DEF c
<1>2. DOMAIN c \subseteq DOMAIN rs BY <1>1
<1>3. QED BY <1>1, <1>2 DEF Distinct, c

(***************************************************************************)
(* Type correctness                                                         *)
(***************************************************************************)

LEMMA Constants ==
  /\ NoCard \in Cards /\ NoPlan \in [action : Plans, standing : Standings]
  /\ NoLedger \in Ledgers /\ Idle \in Tasks /\ AtSegment \in Tasks
  /\ Idle.pc = "idle" /\ AtSegment.pc = "segment"
  /\ LastSession \in Nat
<1>1. LastSession \in Nat BY ContestAssumption
<1>2. NoCard \in Cards /\ NoPlan \in [action : Plans, standing : Standings]
  BY DEF NoCard, NoPlan, Cards, Verdicts, Plans, Standings
<1>3. NoLedger \in Ledgers BY <1>1 DEF NoLedger, Ledgers
<1>4. Idle \in Tasks /\ Idle.pc = "idle"
  BY <1>1, <1>2, <1>3 DEF Idle, Tasks, Actions, Cards
<1>5. AtSegment \in Tasks /\ AtSegment.pc = "segment"
  BY <1>4 DEF AtSegment, Tasks
<1>6. QED BY <1>1, <1>2, <1>3, <1>4, <1>5

LEMMA AdvanceType ==
  ASSUME NEW prev \in Ledgers, NEW s \in Sessions, NEW side \in Sides \union {"none"},
         NEW bars, NEW user, NEW listed
  PROVE  Advance(prev, s, side, bars, user, listed) \in Ledgers
<1>1. LastSession \in Nat /\ s \in 0 .. LastSession /\ s \in Int
  BY ContestAssumption DEF Sessions
<1>2. Anchor(s, "USER") \in Ledgers /\ Anchor(s, "LEADERBOARD") \in Ledgers
  BY <1>1 DEF Anchor, Ledgers
<1>3. side # "none" => Compound(prev, s, side) \in Ledgers
  <2> SUFFICES ASSUME side # "none" PROVE Compound(prev, s, side) \in Ledgers OBVIOUS
  <2>1. [session |-> s, side |-> side] \in [session : Sessions, side : Sides] OBVIOUS
  <2>2. prev.legs \in Seq([session : Sessions, side : Sides]) BY DEF Ledgers
  <2>3. Append(prev.legs, [session |-> s, side |-> side]) \in Seq([session : Sessions, side : Sides])
    BY <2>1, <2>2
  <2>4. QED BY <1>1, <2>3 DEF Compound, Ledgers
<1>4. prev.asOf \in Int BY <1>1 DEF Ledgers
<1>5. prev.asOf > s \/ prev.asOf <= s BY <1>1, <1>4
<1>6. CASE prev.asOf > s
  <2>1. ~ prev.asOf <= s BY <1>1, <1>4, <1>6
  <2>2. Advance(prev, s, side, bars, user, listed) = prev BY <1>6, <2>1 DEF Advance
  <2>3. QED BY <2>2
<1>7. CASE prev.asOf <= s
  <2>1. ~ prev.asOf > s BY <1>1, <1>4, <1>7
  <2>2. CASE user BY <1>2, <1>7, <2>1, <2>2 DEF Advance
  <2>3. CASE ~ user /\ listed BY <1>2, <1>7, <2>1, <2>3 DEF Advance
  <2>4. CASE ~ user /\ ~ listed
    <3>1. Advance(prev, s, side, bars, user, listed) =
            IF prev = NoLedger \/ prev.asOf # s - 1 \/ side = "none" \/ ~ Priced(side, bars)
              THEN prev ELSE Compound(prev, s, side)
      BY <1>7, <2>1, <2>4 DEF Advance
    <3>2. QED BY <1>3, <3>1
  <2>5. QED BY <2>2, <2>3, <2>4
<1>8. QED BY <1>5, <1>6, <1>7

LEMMA SideType == \A c : ExecutedSide(c) \in Sides \union {"none"}
<1> SUFFICES ASSUME NEW c PROVE ExecutedSide(c) \in Sides \union {"none"} OBVIOUS
<1>1. CASE c = "HOLD_LONG" BY <1>1 DEF ExecutedSide, Sides
<1>2. CASE c = "SWITCH_SHORT" BY <1>2 DEF ExecutedSide, Sides
<1>3. CASE c # "HOLD_LONG" /\ c # "SWITCH_SHORT" BY <1>3 DEF ExecutedSide, Sides
<1>4. QED BY <1>1, <1>2, <1>3

LEMMA SegmentType ==
  \A bars : SegmentAction(bars) \in Plans /\ IntradaySide(bars) \in Sides \union {"none"}
<1> SUFFICES ASSUME NEW bars
             PROVE  SegmentAction(bars) \in Plans /\ IntradaySide(bars) \in Sides \union {"none"}
  OBVIOUS
<1>1. IntradaySide(bars) \in {"none", "LONG", "SHORT"} BY DEF IntradaySide
<1>2. CASE day >= EndDate BY <1>1, <1>2 DEF SegmentAction, Plans, Sides
<1>3. CASE ~ day >= EndDate
  <2>1. CASE IntradaySide(bars) = "none" BY <1>3, <2>1 DEF SegmentAction, Plans, Sides
  <2>2. CASE IntradaySide(bars) = "LONG" BY <1>3, <2>2 DEF SegmentAction, Plans, Sides
  <2>3. CASE IntradaySide(bars) = "SHORT" BY <1>3, <2>3 DEF SegmentAction, Plans, Sides
  <2>4. QED BY <1>1, <2>1, <2>2, <2>3
<1>4. QED BY <1>2, <1>3

\* What a card says of our standing is known only of the day's equity.
LEMMA StandingIs ==
  ASSUME NEW l \in Ledgers, NEW s \in Int, NEW visible
  PROVE  /\ Standing(visible, l, s) \in Standings
         /\ Standing(visible, l, s) \in {"equity", "required"} => l.asOf = s
         /\ Standing(visible, l, s) = "required" => visible # "absent"
<1>1. CASE l = NoLedger
  BY <1>1 DEF Standing, Standings
<1>2. CASE l # NoLedger /\ l.asOf # s
  BY <1>2 DEF Standing, Standings
<1>3. CASE l # NoLedger /\ l.asOf = s
  BY <1>3 DEF Standing, Standings
<1>4. QED BY <1>1, <1>2, <1>3

LEMMA TypedInitially == Init => Typed
<1> SUFFICES ASSUME Init PROVE Typed OBVIOUS
<1>1. LastSession \in Nat /\ MaxCrashes \in Nat BY ContestAssumption
<1>2. daily \in [Sessions -> Cards] /\ executed \in [Sessions -> Sides] /\ seg \in [Sessions -> Plans]
  BY Constants DEF Init, Sides, Plans
<1>3. QED
  BY <1>1, <1>2, Constants DEF Init, Typed, Standings

\* Moving on to another step of the evening.
LEMMA GotoType ==
  ASSUME Typed, NEW pc \in {"idle", "daily", "build", "card", "metric", "segment", "ledger", "plan"},
         Goto(pc)
  PROVE  /\ task' \in Tasks /\ task'.pc = pc
         /\ task'.row = task.row /\ task'.card = task.card /\ task'.plan = task.plan
         /\ task'.next = task.next /\ task'.user = task.user
BY DEF Goto, Typed, Tasks

\* A crash leaves distinct rows in metrics.jsonl, each an old one or the new one.
LEMMA CrashRows ==
  ASSUME Typed, Distinct(rows), Crash
  PROVE  /\ rows' \in Seq(Row) /\ Distinct(rows')
         /\ \A i \in DOMAIN rows' :
              \/ \E k \in DOMAIN rows : rows'[i] = rows[k]
              \/ task.pc = "metric" /\ rows'[i] = task.row
<1> DEFINE u == Upserted(rows, task.row)
<1>1. rows \in Seq(Row) BY DEF Typed
<1>2. CASE rows' = rows
  BY <1>1, <1>2
<1>3. CASE task.pc = "metric" /\ \E n \in 0 .. Len(rows) : rows' = SubSeq(u, 1, n)
  <2>1. task.row \in Row BY <1>3 DEF Typed
  <2>2. /\ u \in Seq(Row) /\ Distinct(u) /\ Len(u) >= Len(rows)
        /\ \A i \in DOMAIN u : u[i] = task.row \/ \E k \in DOMAIN rows : u[i] = rows[k]
    BY <1>1, <2>1, UpsertedIs
  <2> HIDE DEF u
  <2>3. PICK n \in 0 .. Len(rows) : rows' = SubSeq(u, 1, n) BY <1>3
  <2>4. n \in 0 .. Len(u) BY <1>1, <2>2
  <2>5. /\ rows' \in Seq(Row) /\ Distinct(rows') /\ DOMAIN rows' \subseteq DOMAIN u
        /\ \A i \in DOMAIN rows' : rows'[i] = u[i]
    BY <2>2, <2>3, <2>4, PrefixIs
  <2>6. QED BY <1>3, <2>2, <2>5
<1>4. rows' = rows \/ (task.pc = "metric" /\ \E n \in 0 .. Len(rows) : rows' = SubSeq(u, 1, n))
  <2>1. CASE task.pc = "metric" BY <2>1, Zenon DEF Crash
  <2>2. CASE task.pc # "metric" BY <2>2 DEF Crash
  <2>3. QED BY <2>1, <2>2
<1>5. QED BY <1>2, <1>3, <1>4

LEMMA TypedPreserved == Typed /\ Distinct(rows) /\ [Next]_vars => Typed'
<1> SUFFICES ASSUME Typed, Distinct(rows), [Next]_vars PROVE Typed' OBVIOUS
<1>0. LastSession \in Nat /\ MaxCrashes \in Nat /\ (day > 0 => day \in Sessions)
  BY ContestAssumption DEF Typed, Sessions
<1>1. CASE Open
  <2>1. day' \in 0 .. LastSession /\ phase' = "trading" /\ task'.pc = "idle" /\ task' = task
    BY <1>0, <1>1, Constants DEF Open, Typed
  <2>2. executed' \in [Sessions -> Sides]
    BY <1>1 DEF Open, Typed
  <2>3. QED BY <1>1, <2>1, <2>2 DEF Open, Typed, Standings
<1>2. CASE Close
  BY <1>2, ContestAssumption DEF Close, Typed, shadow, plan
<1>3. ASSUME NEW visible \in {"unlisted", "listed"}, ArchiveBoard(visible) PROVE Typed'
  BY <1>3 DEF ArchiveBoard, Typed, nature, shadow, plan
<1>4. CASE Start
  <2>1. task' \in Tasks /\ task'.pc \in {"daily", "segment"} /\ day > 0 /\ phase = "evening"
    BY <1>4, GotoType DEF Start, Typed, Tasks
  <2>2. QED BY <1>4, <2>1 DEF Start, Typed, nature, shadow, plan
<1>5. CASE SkipDaily
  BY <1>5, Constants DEF SkipDaily, Typed, nature, shadow, plan
<1>6. ASSUME NEW got \in SUBSET Tickers, FetchQuotes(got) PROVE Typed'
  <2>1. Captured(got) \in {Absent} \union SUBSET Tickers BY DEF Captured, Typed
  <2>2. task' \in Tasks /\ task'.pc = "build" /\ task.pc = "daily"
    BY <1>6, GotoType DEF FetchQuotes
  <2>3. QED BY <1>6, <2>1, <2>2 DEF FetchQuotes, Typed, nature, plan
<1>7. ASSUME NEW good \in Identified, BuildDaily(good) PROVE Typed'
  <2> DEFINE action == IF day > EndDate THEN "CONTEST_OVER"
                       ELSE IF board # "absent" /\ Mirror \subseteq quotes THEN "RECORD" ELSE "NO_DATA"
             row == MetricRow(day, action, good /\ action = "RECORD")
             verdict == Gate(Append(rows, row), day)
  <2>1. task.pc = "build" /\ day \in Sessions /\ phase = "evening" /\ day > 0
    BY <1>0, <1>7 DEF BuildDaily, Typed
  <2>2. action \in Dated BY DEF Dated
  <2>3. (good /\ action = "RECORD") \in BOOLEAN BY Zenon
  <2>4. row \in Row
    <3> HIDE DEF action
    <3>1. QED BY <2>1, <2>2, <2>3 DEF MetricRow, Row
  <2>5. verdict \in Verdicts
    <3> HIDE DEF row
    <3>1. QED BY DEF Gate, Verdicts
  <2>6. task' = [task EXCEPT !.pc = "card", !.row = row,
                             !.card = [action |-> action, gate |-> verdict]]
    BY <1>7, Zenon DEF BuildDaily
  <2> HIDE DEF row, action, verdict
  <2>7. row \in [session : 0 .. LastSession, action : Actions, good : BOOLEAN]
        /\ [action |-> action, gate |-> verdict] \in [action : Actions, gate : Verdicts]
    BY <1>0, <2>2, <2>4, <2>5 DEF Row, Actions, Sessions
  <2>8. task' \in Tasks /\ task'.pc = "card" /\ task'.row = row
    BY <2>6, <2>7 DEF Typed, Tasks
  <2>9. QED BY <1>7, <2>1, <2>4, <2>8 DEF BuildDaily, Typed, nature, shadow, plan
<1>8. CASE WriteDaily
  <2>1. task' \in Tasks /\ task'.pc = "metric" /\ task'.row = task.row /\ task.pc = "card"
    BY <1>8, GotoType DEF WriteDaily
  <2>2. daily' \in [Sessions -> Cards]
    BY <1>8 DEF WriteDaily, Typed, Tasks, Cards, Actions
  <2>3. QED BY <1>8, <2>1, <2>2 DEF WriteDaily, Typed, nature, plan
<1>9. CASE UpsertMetric
  <2>1. rows' \in Seq(Row)
    BY <1>9, UpsertedIs DEF UpsertMetric, Typed
  <2>2. QED BY <1>9, <2>1, Constants DEF UpsertMetric, Typed, nature, plan
<1>10. CASE SkipSegment
  BY <1>10, Constants DEF SkipSegment, Typed, nature, shadow, plan
<1>11. ASSUME NEW got \in SUBSET Tickers, BuildSegment(got) PROVE Typed'
  <2> DEFINE bars == SegmentBars(got)
             next == NextLedger(bars)
             said == [action |-> SegmentAction(bars), standing |-> Standing(board, next, day)]
  <2>1. task.pc = "segment" /\ day \in Sessions /\ phase = "evening" /\ day > 0
    BY <1>0, <1>11 DEF BuildSegment, Typed
  <2>2. next \in Ledgers
    BY <2>1, AdvanceType, SideType DEF NextLedger, Typed
  <2>3. day \in Int BY <1>0 DEF Typed
  <2>4. task' = [task EXCEPT !.pc = "ledger", !.next = next, !.plan = said]
    BY <1>11, Zenon DEF BuildSegment
  <2>5. said \in [action : Plans, standing : Standings]
    <3> HIDE DEF next, bars
    <3>1. QED BY <2>2, <2>3, SegmentType, StandingIs
  <2> HIDE DEF next, said, bars
  <2>6. task' \in Tasks /\ task'.pc = "ledger"
    BY <2>2, <2>4, <2>5 DEF Typed, Tasks
  <2>7. QED BY <1>11, <2>1, <2>6 DEF BuildSegment, Typed, nature, shadow, plan
<1>12. CASE WriteLedger
  <2>1. task' \in Tasks /\ task'.pc = "plan" /\ task.pc = "ledger" /\ task.next \in Ledgers
    BY <1>12, GotoType DEF WriteLedger, Typed, Tasks
  <2>2. QED BY <1>12, <2>1 DEF WriteLedger, Typed, nature, shadow
<1>13. CASE WriteSegment
  <2>1. task.plan \in [action : Plans, standing : Standings] BY DEF Typed, Tasks
  <2>2. seg' \in [Sessions -> Plans] /\ standing' \in Standings
    BY <1>13, <2>1 DEF WriteSegment, Typed
  <2>3. QED BY <1>13, <2>2, Constants DEF WriteSegment, Typed, nature, shadow
<1>14. CASE Crash
  <2>1. rows' \in Seq(Row)
    BY <1>14, CrashRows
  <2>2. task' \in Tasks /\ task'.pc \in {"idle", "segment"} /\ task.pc # "idle"
    BY <1>14, Constants DEF Crash
  <2>3. crashes' \in 0 .. MaxCrashes BY <1>0, <1>14 DEF Crash, Typed
  <2>4. QED BY <1>14, <2>1, <2>2, <2>3 DEF Crash, Typed, nature, plan
<1>15. CASE UNCHANGED vars
  BY <1>15 DEF vars, Typed
<1>16. QED
  BY <1>1, <1>2, <1>3, <1>4, <1>5, <1>6, <1>7, <1>8, <1>9, <1>10, <1>11, <1>12, <1>13, <1>14, <1>15
     DEF Next, Step


(***************************************************************************)
(* The estimate                                                             *)
(***************************************************************************)

LEMMA ElementIn ==
  ASSUME NEW S, NEW q \in Seq(S), NEW i \in DOMAIN q
  PROVE  q[i] \in S /\ Len(q) \in Nat /\ DOMAIN q = 1 .. Len(q)
OBVIOUS

\* Advancing an honest ledger leaves an honest one that is no older: a session is
\* compounded only right after the one before, with the side held in it.
LEMMA AdvanceIsHonest ==
  ASSUME Typed, Honest(ledger), Followed, day \in Sessions, NEW bars
  PROVE  Honest(NextLedger(bars)) /\ ledger.asOf <= NextLedger(bars).asOf
<1> DEFINE side == ExecutedSide(PreviousCard)
           next == NextLedger(bars)
<1>1. /\ day \in Nat /\ ledger.asOf \in Nat /\ ledger.anchor \in Nat /\ ledger.asOf <= day
      /\ ledger.legs \in Seq([session : Sessions, side : Sides])
      /\ ledger \in Ledgers
  BY ContestAssumption DEF Typed, Ledgers, Honest, Sessions
<1>2. ~ ledger.asOf > day BY <1>1
<1>3. \A source : /\ Honest(Anchor(day, source))
                  /\ ledger.asOf <= Anchor(day, source).asOf
  BY <1>1 DEF Honest, Anchor
<1>4. CASE next = ledger
  BY <1>1, <1>4
<1>5. CASE next = Compound(ledger, day, side) /\ ledger.asOf = day - 1 /\ side # "none"
  <2>1. day > 1 /\ PreviousCard = seg[day - 1]
    <3>1. ExecutedSide("none") = "none" BY DEF ExecutedSide
    <3>2. day # 1 BY <1>5, <3>1 DEF PreviousCard
    <3>3. QED BY <1>1, <3>2 DEF PreviousCard, Sessions
  <2>2. executed[day] = side BY <1>5, <2>1 DEF Followed
  <2> DEFINE leg == [session |-> day, side |-> side]
  <2>3. next.asOf = day /\ next.anchor = ledger.anchor /\ next.legs = Append(ledger.legs, leg)
    BY <1>1, <1>5 DEF Compound, Ledgers
  <2>4. leg \in [session : Sessions, side : Sides] BY <1>5, SideType
  <2>5. leg.session = day /\ leg.side = side OBVIOUS
  <2> HIDE DEF next, leg, side
  <2>6. /\ Len(next.legs) = Len(ledger.legs) + 1 /\ Len(ledger.legs) \in Nat
        /\ DOMAIN next.legs = 1 .. Len(ledger.legs) + 1 /\ DOMAIN ledger.legs = 1 .. Len(ledger.legs)
        /\ next.legs[Len(ledger.legs) + 1] = leg
        /\ \A i \in 1 .. Len(ledger.legs) : next.legs[i] = ledger.legs[i]
    BY <1>1, <2>3, <2>4
  <2>7. ledger.asOf = ledger.anchor + Len(ledger.legs) BY DEF Honest
  <2>8. ASSUME NEW i \in DOMAIN next.legs
        PROVE  /\ next.legs[i].session = next.anchor + i
               /\ next.legs[i].side = executed[next.legs[i].session]
    <3>1. CASE i \in DOMAIN ledger.legs
      BY <2>3, <2>6, <3>1 DEF Honest
    <3>2. CASE i = Len(ledger.legs) + 1
      <4>1. next.legs[i] = leg BY <2>6, <3>2
      <4>2. next.anchor + i = day BY <1>1, <1>5, <2>3, <2>6, <2>7, <3>2
      <4>3. QED BY <2>2, <2>5, <4>1, <4>2
    <3>3. QED BY <2>6, <3>1, <3>2
  <2>9. next.asOf = next.anchor + Len(next.legs) /\ next.asOf <= day /\ ledger.asOf <= next.asOf
    BY <1>1, <1>5, <2>3, <2>6, <2>7
  <2>10. QED BY <2>8, <2>9 DEF Honest, next
<1>6. \/ next = Anchor(day, "USER") \/ next = Anchor(day, "LEADERBOARD")
      \/ next = ledger
      \/ next = Compound(ledger, day, side) /\ ledger.asOf = day - 1 /\ side # "none"
  <2> HIDE DEF side
  <2>1. next = Advance(ledger, day, side, bars, task.user, ListsUs(board))
    BY DEF NextLedger, side
  <2> HIDE DEF next
  <2>2. CASE task.user BY <1>1, <1>2, <2>1, <2>2 DEF Advance
  <2>3. CASE ~ task.user /\ ListsUs(board) BY <1>1, <1>2, <2>1, <2>3 DEF Advance
  <2>4. CASE ~ task.user /\ ~ ListsUs(board)
    <3>1. next = IF ledger = NoLedger \/ ledger.asOf # day - 1 \/ side = "none" \/ ~ Priced(side, bars)
                   THEN ledger ELSE Compound(ledger, day, side)
      BY <1>2, <2>1, <2>4 DEF Advance
    <3>2. QED BY <3>1
  <2>5. QED BY <2>2, <2>3, <2>4
<1> HIDE DEF side
<1>7. CASE next = Anchor(day, "USER") BY <1>3, <1>7
<1>8. CASE next = Anchor(day, "LEADERBOARD") BY <1>3, <1>8
<1>9. QED BY <1>4, <1>5, <1>6, <1>7, <1>8

LEMMA EstimateInitially == Init => EstimateInv
BY DEF Init, EstimateInv, Honest, Followed, Grounded, NoLedger, Idle

\* What leaves the day, the cards and the ledger alone, and builds no new ledger.
LEMMA EstimateUntouched ==
  ASSUME EstimateInv, day' = day, executed' = executed, seg' = seg, standing' = standing,
         ledger' = ledger, board' = board \/ board' # "absent",
         task' = task \/ task'.pc \notin {"ledger", "plan"}
  PROVE  EstimateInv'
<1>1. \A l : Honest(l) => Honest(l)' BY DEF Honest
<1>2. \A said, l : Grounded(said, l) => Grounded(said, l)' BY DEF Grounded
<1>3. Followed' BY DEF EstimateInv, Followed
<1>4. QED BY <1>1, <1>2, <1>3 DEF EstimateInv

LEMMA EstimatePreserved == Typed /\ EstimateInv /\ [Next]_vars => EstimateInv'
<1> SUFFICES ASSUME Typed, EstimateInv, [Next]_vars PROVE EstimateInv' OBVIOUS
<1>0. LastSession \in Nat /\ day \in Nat /\ (day > 0 => day \in Sessions)
  BY ContestAssumption DEF Typed, Sessions
<1>1. CASE Open
  <2>1. Honest(ledger)'
    <3>1. PICK side \in Sides : executed' = [executed EXCEPT ![day + 1] = side]
      BY <1>1 DEF Open
    <3>2. \A s \in Sessions : s # day + 1 => executed'[s] = executed[s]
      BY <3>1 DEF Typed
    <3>3. ASSUME NEW i \in DOMAIN ledger.legs
          PROVE  ledger.legs[i].session \in Sessions /\ ledger.legs[i].session # day + 1
      <4>1. ledger.legs \in Seq([session : Sessions, side : Sides]) /\ ledger.anchor \in Nat
        BY <1>0 DEF Typed, Ledgers
      <4>2. ledger.legs[i].session \in Sessions /\ i <= Len(ledger.legs) /\ i \in Nat
            /\ Len(ledger.legs) \in Nat
        <5>1. /\ DOMAIN ledger.legs = 1 .. Len(ledger.legs) /\ Len(ledger.legs) \in Nat
              /\ ledger.legs[i] \in [session : Sessions, side : Sides]
          BY <4>1, ElementIn
        <5>2. QED BY <5>1
      <4>3. ledger.legs[i].session = ledger.anchor + i
            /\ ledger.anchor + Len(ledger.legs) <= day
        BY DEF EstimateInv, Honest
      <4>4. QED BY <1>0, <4>1, <4>2, <4>3
    <3>4. day' = day + 1 /\ ledger' = ledger /\ ledger.asOf \in Nat
      BY <1>0, <1>1 DEF Open, Typed, Ledgers
    <3>5. QED BY <1>0, <3>2, <3>3, <3>4 DEF EstimateInv, Honest
  <2>2. Followed'
    <3>1. PICK side \in Sides :
            /\ day > 0 /\ ExecutedSide(seg[day]) # "none" => side = ExecutedSide(seg[day])
            /\ executed' = [executed EXCEPT ![day + 1] = side]
      BY <1>1 DEF Open
    <3>2. day' = day + 1 /\ day + 1 \in Sessions /\ seg' = seg /\ day' - 1 = day
      BY <1>0, <1>1 DEF Open, Sessions
    <3>3. executed'[day'] = side BY <3>1, <3>2 DEF Typed
    <3>4. QED BY <1>0, <3>1, <3>2, <3>3 DEF Followed
  <2>3. Grounded(standing, ledger)' BY <1>1 DEF Open, Grounded
  <2>4. task' = task /\ task.pc = "idle" BY <1>1, Constants DEF Open
  <2>5. QED BY <2>1, <2>2, <2>3, <2>4 DEF EstimateInv
<1>2. CASE Close
  BY <1>2, EstimateUntouched DEF Close, shadow, plan
<1>3. ASSUME NEW visible \in {"unlisted", "listed"}, ArchiveBoard(visible) PROVE EstimateInv'
  BY <1>3, EstimateUntouched DEF ArchiveBoard, nature, shadow, plan
<1>4. CASE Start
  <2>1. task'.pc \in {"daily", "segment"} BY <1>4, GotoType DEF Start, Typed, Tasks
  <2>2. QED BY <1>4, <2>1, EstimateUntouched DEF Start, nature, shadow, plan
<1>5. CASE SkipDaily
  BY <1>5, Constants, EstimateUntouched DEF SkipDaily, nature, shadow, plan
<1>6. ASSUME NEW got \in SUBSET Tickers, FetchQuotes(got) PROVE EstimateInv'
  <2>1. task'.pc = "build" BY <1>6, GotoType DEF FetchQuotes
  <2>2. QED BY <1>6, <2>1, EstimateUntouched DEF FetchQuotes, nature, plan
<1>7. ASSUME NEW good \in Identified, BuildDaily(good) PROVE EstimateInv'
  <2>1. \E row, card : task' = [task EXCEPT !.pc = "card", !.row = row, !.card = card]
    BY <1>7, Zenon DEF BuildDaily
  <2>2. task'.pc = "card" BY <2>1 DEF Typed, Tasks
  <2>3. UNCHANGED <<nature, board, shadow, plan, crashes>> BY <1>7 DEF BuildDaily
  <2>4. QED BY <2>2, <2>3, EstimateUntouched DEF nature, shadow, plan
<1>8. CASE WriteDaily
  <2>1. task'.pc = "metric" BY <1>8, GotoType DEF WriteDaily
  <2>2. QED BY <1>8, <2>1, EstimateUntouched DEF WriteDaily, nature, plan
<1>9. CASE UpsertMetric
  BY <1>9, Constants, EstimateUntouched DEF UpsertMetric, nature, plan
<1>10. CASE SkipSegment
  BY <1>10, Constants, EstimateUntouched DEF SkipSegment, nature, shadow, plan
<1>11. ASSUME NEW got \in SUBSET Tickers, BuildSegment(got) PROVE EstimateInv'
  <2> DEFINE bars == SegmentBars(got)
             next == NextLedger(bars)
             said == Standing(board, next, day)
             card == [action |-> SegmentAction(bars), standing |-> said]
  <2>1. task.pc = "segment" /\ day \in Sessions /\ day \in Int
    BY <1>0, <1>11 DEF BuildSegment, Typed
  <2>2. task' = [task EXCEPT !.pc = "ledger", !.next = next, !.plan = card]
    BY <1>11, Zenon DEF BuildSegment
  <2>3. UNCHANGED <<nature, board, shadow, plan, crashes>> BY <1>11 DEF BuildSegment
  <2>4. Honest(next) /\ ledger.asOf <= next.asOf
    BY <2>1, AdvanceIsHonest DEF EstimateInv
  <2>5. next \in Ledgers
    BY <2>1, AdvanceType, SideType DEF NextLedger, Typed
  <2> HIDE DEF next
  <2>6. Grounded(said, next)
    BY <2>1, <2>5, StandingIs DEF Grounded
  <2>7. card.standing = said OBVIOUS
  <2> HIDE DEF card, said
  <2>8. task'.pc = "ledger" /\ task'.next = next /\ task'.plan.standing = said
    BY <2>2, <2>7 DEF Typed, Tasks
  <2>9. \A l : Honest(l) => Honest(l)' BY <2>3 DEF Honest, nature
  <2>10. \A s, l : Grounded(s, l) => Grounded(s, l)' BY <2>3 DEF Grounded, nature
  <2>11. Followed' BY <2>3 DEF EstimateInv, Followed, nature, plan
  <2>12. ledger' = ledger /\ standing' = standing BY <2>3 DEF plan
  <2>13. QED BY <2>4, <2>6, <2>8, <2>9, <2>10, <2>11, <2>12 DEF EstimateInv
<1>12. CASE WriteLedger
  <2>1. task'.pc = "plan" /\ task'.plan = task.plan /\ task.pc = "ledger"
    BY <1>12, GotoType DEF WriteLedger
  <2>2. /\ ledger' = task.next /\ standing' = standing /\ board' = board /\ day' = day
        /\ executed' = executed /\ seg' = seg
    BY <1>12 DEF WriteLedger, nature
  <2>3. /\ Honest(task.next) /\ ledger.asOf <= task.next.asOf
        /\ Grounded(task.plan.standing, task.next) /\ Grounded(standing, ledger)
    BY <2>1 DEF EstimateInv
  <2>4. ledger.asOf \in Nat /\ task.next.asOf \in Nat
    BY <1>0 DEF Typed, Tasks, Ledgers
  <2>5. Grounded(standing, ledger)'
    BY <1>0, <2>2, <2>3, <2>4 DEF Grounded, Honest
  <2>6. Honest(ledger)' BY <2>2, <2>3 DEF Honest
  <2>7. Followed' BY <2>2 DEF EstimateInv, Followed
  <2>8. Grounded(task.plan.standing, ledger)' BY <2>1, <2>2, <2>3 DEF Grounded
  <2>9. QED BY <2>1, <2>5, <2>6, <2>7, <2>8 DEF EstimateInv
<1>13. CASE WriteSegment
  <2>1. task'.pc = "idle" /\ Grounded(task.plan.standing, ledger)
    BY <1>13, Constants DEF WriteSegment, EstimateInv
  <2>2. /\ ledger' = ledger /\ standing' = task.plan.standing /\ board' = board /\ day' = day
        /\ executed' = executed /\ seg' = [seg EXCEPT ![day] = task.plan.action]
    BY <1>13 DEF WriteSegment, nature
  <2>3. Followed'
    <3>1. day > 1 => day - 1 \in Sessions /\ day - 1 # day BY <1>0 DEF Sessions
    <3>2. day > 1 => seg'[day - 1] = seg[day - 1] BY <2>2, <3>1 DEF Typed
    <3>3. QED BY <2>2, <3>2 DEF EstimateInv, Followed
  <2>4. Honest(ledger)' BY <2>2 DEF EstimateInv, Honest
  <2>5. Grounded(standing, ledger)' BY <2>1, <2>2 DEF Grounded
  <2>6. QED BY <2>1, <2>3, <2>4, <2>5 DEF EstimateInv
<1>14. CASE Crash
  <2>1. task'.pc \in {"idle", "segment"} BY <1>14, Constants DEF Crash
  <2>2. UNCHANGED <<nature, board, quotes, daily, plan>> BY <1>14 DEF Crash
  <2>3. QED BY <2>1, <2>2, EstimateUntouched DEF nature, plan
<1>15. CASE UNCHANGED vars
  BY <1>15, EstimateUntouched DEF vars
<1>16. QED
  BY <1>1, <1>2, <1>3, <1>4, <1>5, <1>6, <1>7, <1>8, <1>9, <1>10, <1>11, <1>12, <1>13, <1>14, <1>15
     DEF Next, Step

(***************************************************************************)
(* The metrics rows                                                         *)
(***************************************************************************)

LEMMA RowsInitially == Init => RowsInv
BY DEF Init, RowsInv, Distinct, Covered, Idle

\* What leaves rows and cards alone, and goes on in none of contest-daily's steps.
LEMMA RowsUntouched ==
  ASSUME RowsInv, rows' = rows, daily' = daily,
         (day' = day /\ task' = task) \/ task'.pc \notin {"build", "card", "metric"}
  PROVE  RowsInv'
<1>1. Distinct(rows)' /\ Covered(rows)' BY DEF RowsInv, Distinct, Covered
<1>2. QED BY <1>1 DEF RowsInv

LEMMA RowsPreserved == Typed /\ RowsInv /\ [Next]_vars => RowsInv'
<1> SUFFICES ASSUME Typed, RowsInv, [Next]_vars PROVE RowsInv' OBVIOUS
<1>0. day > 0 => day \in Sessions
  BY ContestAssumption DEF Typed, Sessions
<1>1. CASE Open
  BY <1>1, Constants, RowsUntouched DEF Open
<1>2. CASE Close
  BY <1>2, RowsUntouched DEF Close, shadow
<1>3. ASSUME NEW visible \in {"unlisted", "listed"}, ArchiveBoard(visible) PROVE RowsInv'
  BY <1>3, RowsUntouched DEF ArchiveBoard, nature, shadow
<1>4. CASE Start
  <2>1. task'.pc \in {"daily", "segment"} BY <1>4, GotoType DEF Start, Typed, Tasks
  <2>2. QED BY <1>4, <2>1, RowsUntouched DEF Start, nature, shadow
<1>5. CASE SkipDaily
  BY <1>5, Constants, RowsUntouched DEF SkipDaily, nature, shadow
<1>6. ASSUME NEW got \in SUBSET Tickers, FetchQuotes(got) PROVE RowsInv'
  <2>1. task'.pc = "build" BY <1>6, GotoType DEF FetchQuotes
  <2>2. daily' = daily /\ rows' = rows /\ day' = day /\ daily[day].action \in {"none", "NO_DATA"}
    BY <1>6 DEF FetchQuotes, nature
  <2>3. Distinct(rows)' /\ Covered(rows)' BY <2>2 DEF RowsInv, Distinct, Covered
  <2>4. QED BY <2>1, <2>2, <2>3 DEF RowsInv
<1>7. ASSUME NEW good \in Identified, BuildDaily(good) PROVE RowsInv'
  <2> DEFINE action == IF day > EndDate THEN "CONTEST_OVER"
                       ELSE IF board # "absent" /\ Mirror \subseteq quotes THEN "RECORD" ELSE "NO_DATA"
             row == MetricRow(day, action, good /\ action = "RECORD")
             card == [action |-> action, gate |-> Gate(Append(rows, row), day)]
  <2>1. task' = [task EXCEPT !.pc = "card", !.row = row, !.card = card]
    BY <1>7, Zenon DEF BuildDaily
  <2>2. row.session = day /\ row.action = action /\ card.action = action
    <3> HIDE DEF action
    <3>1. QED BY DEF MetricRow
  <2> HIDE DEF row, card, action
  <2>3. task'.pc = "card" /\ task'.row.session = day /\ task'.card.action = task'.row.action
    BY <2>1, <2>2 DEF Typed, Tasks
  <2>4. UNCHANGED <<nature, board, shadow, plan, crashes>> /\ task.pc = "build" BY <1>7 DEF BuildDaily
  <2>5. Distinct(rows)' /\ Covered(rows)' BY <2>4 DEF RowsInv, Distinct, Covered, shadow
  <2>6. QED BY <2>3, <2>4, <2>5 DEF RowsInv, nature, shadow
<1>8. CASE WriteDaily
  <2>1. task'.pc = "metric" /\ task'.card = task.card /\ task'.row = task.row /\ task.pc = "card"
    BY <1>8, GotoType DEF WriteDaily
  <2>2. /\ daily' = [daily EXCEPT ![day] = task.card] /\ rows' = rows /\ day' = day
        /\ day \in Sessions /\ daily \in [Sessions -> Cards] /\ rows \in Seq(Row)
    BY <1>0, <1>8, <2>1 DEF WriteDaily, nature, Typed
  <2>3. daily'[day] = task.card /\ \A s \in Sessions : s # day => daily'[s] = daily[s]
    BY <2>2
  <2>4. Covered(rows)'
    <3> SUFFICES ASSUME NEW i \in DOMAIN rows, rows[i].action = "RECORD"
                 PROVE  daily'[rows[i].session].action = "RECORD"
      BY <2>2 DEF Covered
    <3>1. rows[i] \in Row BY <2>2
    <3>2. rows[i].session \in Sessions BY <3>1 DEF Row
    <3>3. daily[rows[i].session].action = "RECORD" BY DEF RowsInv, Covered
    <3>4. rows[i].session # day BY <2>1, <3>3 DEF RowsInv
    <3>5. QED BY <2>3, <3>2, <3>3, <3>4
  <2>5. Distinct(rows)' BY <2>2 DEF RowsInv, Distinct
  <2>6. QED BY <2>1, <2>2, <2>3, <2>4, <2>5 DEF RowsInv
<1>9. CASE UpsertMetric
  <2> DEFINE u == Upserted(rows, task.row)
  <2>1. /\ rows' = u /\ daily' = daily /\ day' = day /\ task.pc = "metric" /\ task'.pc = "segment"
    BY <1>9, Constants DEF UpsertMetric, nature
  <2>2. task.row \in Row /\ rows \in Seq(Row) BY <2>1 DEF Typed
  <2>3. /\ Distinct(u)
        /\ \A i \in DOMAIN u : u[i] = task.row \/ \E k \in DOMAIN rows : u[i] = rows[k]
    BY <2>2, UpsertedIs DEF RowsInv
  <2> HIDE DEF u
  <2>4. task.row.action = "RECORD" => daily[task.row.session].action = "RECORD"
    BY <2>1 DEF RowsInv
  <2>5. Covered(rows)' BY <2>1, <2>3, <2>4 DEF RowsInv, Covered
  <2>6. Distinct(rows)' BY <2>1, <2>3 DEF Distinct
  <2>7. QED BY <2>1, <2>5, <2>6 DEF RowsInv
<1>10. CASE SkipSegment
  BY <1>10, Constants, RowsUntouched DEF SkipSegment, nature, shadow
<1>11. ASSUME NEW got \in SUBSET Tickers, BuildSegment(got) PROVE RowsInv'
  <2>1. \E next, card : task' = [task EXCEPT !.pc = "ledger", !.next = next, !.plan = card]
    BY <1>11, Zenon DEF BuildSegment
  <2>2. task'.pc = "ledger" BY <2>1 DEF Typed, Tasks
  <2>3. UNCHANGED <<nature, board, shadow, plan, crashes>> BY <1>11 DEF BuildSegment
  <2>4. QED BY <2>2, <2>3, RowsUntouched DEF shadow
<1>12. CASE WriteLedger
  <2>1. task'.pc = "plan" BY <1>12, GotoType DEF WriteLedger
  <2>2. QED BY <1>12, <2>1, RowsUntouched DEF WriteLedger, shadow
<1>13. CASE WriteSegment
  BY <1>13, Constants, RowsUntouched DEF WriteSegment, shadow
<1>14. CASE Crash
  <2>1. task'.pc \in {"idle", "segment"} BY <1>14, Constants DEF Crash
  <2>2. daily' = daily BY <1>14 DEF Crash
  <2>3. /\ Distinct(rows')
        /\ \A i \in DOMAIN rows' :
             \/ \E k \in DOMAIN rows : rows'[i] = rows[k]
             \/ task.pc = "metric" /\ rows'[i] = task.row
    BY <1>14, CrashRows DEF RowsInv
  <2>4. task.pc = "metric" /\ task.row.action = "RECORD" => daily[task.row.session].action = "RECORD"
    BY DEF RowsInv
  <2>5. Covered(rows)' BY <2>2, <2>3, <2>4 DEF RowsInv, Covered
  <2>6. Distinct(rows)' BY <2>3 DEF Distinct
  <2>7. QED BY <2>1, <2>5, <2>6 DEF RowsInv
<1>15. CASE UNCHANGED vars
  BY <1>15, RowsUntouched DEF vars
<1>16. QED
  BY <1>1, <1>2, <1>3, <1>4, <1>5, <1>6, <1>7, <1>8, <1>9, <1>10, <1>11, <1>12, <1>13, <1>14, <1>15
     DEF Next, Step

(***************************************************************************)
(* The theorems                                                             *)
(***************************************************************************)

Inv == Typed /\ EstimateInv /\ RowsInv

LEMMA InvHolds == Spec => []Inv
<1>1. Init => Inv
  BY TypedInitially, EstimateInitially, RowsInitially DEF Inv
<1>2. Inv /\ [Next]_vars => Inv'
  BY TypedPreserved, EstimatePreserved, RowsPreserved DEF Inv, RowsInv
<1>3. QED BY <1>1, <1>2, PTL DEF Spec

\* What the evening's commands read and write keeps its type, wherever a run
\* stops and however often it is retried.
THEOREM EveningTyped == Spec => []TypeOK
<1>1. Inv => TypeOK
  <2> SUFFICES ASSUME Typed PROVE TypeOK BY DEF Inv
  <2>1. \A l \in Ledgers : LedgerOK(l) BY DEF Ledgers, LedgerOK
  <2>2. ledger \in Ledgers /\ task.next \in Ledgers BY DEF Typed, Tasks
  <2>3. /\ task.user \in BOOLEAN /\ task.plan \in [action : Plans, standing : Standings]
        /\ task.card \in Cards
        /\ task.pc \in {"idle", "daily", "build", "card", "metric", "segment", "ledger", "plan"}
    BY DEF Typed, Tasks, Cards, Actions
  <2>4. QED BY <2>1, <2>2, <2>3 DEF Typed, TypeOK
<1>2. QED BY <1>1, InvHolds, PTL

\* The equity ledger compounds each session since its anchor once, with the side
\* held in it, and a card says where we stand only of the day's equity.
THEOREM LedgerIsHonest == Spec => []EstimateIsHonest
<1>1. Inv => EstimateIsHonest
  BY DEF Inv, EstimateInv, Honest, Grounded, EstimateIsHonest
<1>2. QED BY <1>1, InvHolds, PTL

\* metrics.jsonl holds one row per session, and no row claims data that its card
\* lacks, for every crash and every retry.
THEOREM MetricsFollowCards == Spec => []RowsFollowCards
<1>1. Inv => RowsFollowCards
  BY DEF Inv, RowsInv, Distinct, Covered, RowsFollowCards
<1>2. QED BY <1>1, InvHolds, PTL

(***************************************************************************)
(* The pinned field: counting by value.                                    *)
(***************************************************************************)

\* A one-to-one map of a finite set onto another one keeps its size.
LEMMA SameSize ==
  ASSUME NEW S, NEW T, IsFiniteSet(S), NEW f \in [S -> T],
         \A x, y \in S : f[x] = f[y] => x = y,
         \A z \in T : \E x \in S : f[x] = z
  PROVE  IsFiniteSet(T) /\ Cardinality(T) = Cardinality(S)
<1>1. f \in Injection(S, T) BY DEF Injection, IsInjective
<1>2. f \in Surjection(S, T) BY DEF Surjection
<1>3. QED BY <1>1, <1>2, FS_Surjection

\* Every place up to the number of members is that of one member.
LEMMA NthIs ==
  ASSUME NEW n \in Nat, NEW S \in SUBSET (1 .. n)
  PROVE  /\ IsFiniteSet(S) /\ Cardinality(S) \in Nat
         /\ \A k \in 1 .. Cardinality(S) : Nth(S, k) \in S
         /\ \A k, l \in 1 .. Cardinality(S) : Nth(S, k) = Nth(S, l) => k = l
         /\ \A i \in S : \E k \in 1 .. Cardinality(S) : Nth(S, k) = i
<1> DEFINE size == Cardinality(S)
           upTo(i) == {j \in S : j <= i}
           rank == [i \in S |-> Cardinality(upTo(i))]
<1>0. IsFiniteSet(1 .. n) BY FS_Interval
<1>1. IsFiniteSet(S) /\ size \in Nat BY <1>0, FS_Subset, FS_CardinalityType
<1>2. \A i \in S : i \in Int OBVIOUS
<1>3. ASSUME NEW i \in S
      PROVE  /\ IsFiniteSet(upTo(i)) /\ rank[i] = Cardinality(upTo(i)) /\ rank[i] \in 1 .. size
  <2>1. upTo(i) \subseteq S /\ i \in upTo(i) BY <1>2
  <2>2. IsFiniteSet(upTo(i)) /\ Cardinality(upTo(i)) <= size /\ Cardinality(upTo(i)) \in Nat
    BY <1>1, <2>1, FS_Subset, FS_CardinalityType
  <2>3. Cardinality(upTo(i)) # 0 BY <2>1, <2>2, FS_EmptySet
  <2>4. rank[i] = Cardinality(upTo(i)) OBVIOUS
  <2> HIDE DEF upTo, rank, size
  <2>5. QED BY <1>1, <2>2, <2>3, <2>4
<1>4. ASSUME NEW i \in S, NEW j \in S, i < j PROVE rank[i] < rank[j]
  <2>1. upTo(i) \subseteq upTo(j) /\ j \in upTo(j) /\ j \notin upTo(i)
    <3>1. \A k \in S : k <= i => k <= j BY <1>2, <1>4
    <3>2. j <= j /\ ~ (j <= i) BY <1>2, <1>4
    <3>3. QED BY <3>1, <3>2
  <2>2. upTo(i) \in SUBSET (upTo(j) \ {j}) BY <2>1
  <2>3. IsFiniteSet(upTo(j) \ {j}) /\ Cardinality(upTo(j) \ {j}) = Cardinality(upTo(j)) - 1
    BY <1>3, <2>1, FS_RemoveElement
  <2>4. Cardinality(upTo(i)) <= Cardinality(upTo(j)) - 1 BY <2>2, <2>3, FS_Subset
  <2>5. rank[i] = Cardinality(upTo(i)) /\ rank[j] = Cardinality(upTo(j))
        /\ rank[i] \in 1 .. size /\ rank[j] \in 1 .. size
    BY <1>3
  <2> HIDE DEF upTo, rank, size
  <2>6. QED BY <1>1, <2>4, <2>5
<1>5. \A i \in S : \A k : rank[i] = k <=> Cardinality({j \in S : j <= i}) = k OBVIOUS
<1>6. rank \in [S -> 1 .. size] BY <1>3
<1> HIDE DEF rank
<1>7. \A i, j \in S : rank[i] = rank[j] => i = j
  <2>1. \A i, j \in S : i < j \/ j < i \/ i = j BY <1>2
  <2>2. \A i \in S : rank[i] \in Int BY <1>6
  <2>3. QED BY <1>4, <2>1, <2>2
<1>8. \A k \in 1 .. size : \E i \in S : rank[i] = k
  <2>1. IsFiniteSet(1 .. size) /\ Cardinality(1 .. size) = size BY <1>1, FS_Interval
  <2> DEFINE T == 1 .. size
  <2>2. IsFiniteSet(T) /\ Cardinality(S) = Cardinality(T) /\ rank \in [S -> T] BY <1>6, <2>1
  <2> HIDE DEF T
  <2>3. rank \in Injection(S, T) BY <1>7, <2>2 DEF Injection, IsInjective
  <2>4. rank \in Surjection(S, T) BY <2>2, <2>3, FS_Injection
  <2>5. \A k \in T : \E i \in S : rank[i] = k BY <2>4 DEF Surjection
  <2>6. QED BY <2>5 DEF T
<1>9. ASSUME NEW k \in 1 .. size PROVE Nth(S, k) \in S /\ rank[Nth(S, k)] = k
  <2>1. \E i \in S : Cardinality({j \in S : j <= i}) = k BY <1>5, <1>8
  <2>2. Nth(S, k) \in S /\ Cardinality({j \in S : j <= Nth(S, k)}) = k BY <2>1 DEF Nth
  <2>3. QED BY <1>5, <2>2
<1>10. ASSUME NEW i \in S PROVE \E k \in 1 .. size : Nth(S, k) = i
  <2>1. rank[i] \in 1 .. size BY <1>6
  <2>2. Nth(S, rank[i]) \in S /\ rank[Nth(S, rank[i])] = rank[i] BY <1>9, <2>1
  <2>3. QED BY <1>7, <2>1, <2>2
<1>11. QED BY <1>1, <1>9, <1>10

\* Where a sequence has values of X.
Hits(seq, X) == {i \in DOMAIN seq : seq[i] \in X}

LEMMA HitsAre ==
  ASSUME NEW seq \in Seq(Int), NEW X
  PROVE  IsFiniteSet(Hits(seq, X)) /\ Cardinality(Hits(seq, X)) \in Nat
<1>1. DOMAIN seq = 1 .. Len(seq) /\ Len(seq) \in Nat OBVIOUS
<1>2. Hits(seq, X) \subseteq 1 .. Len(seq) BY <1>1 DEF Hits
<1>3. IsFiniteSet(1 .. Len(seq)) BY <1>1, FS_Interval
<1>4. QED BY <1>2, <1>3, FS_Subset, FS_CardinalityType

\* Taking the first x out takes one x out and nothing else.
LEMMA WithoutIs ==
  ASSUME NEW seq \in Seq(Int), NEW x \in Int, \E at \in DOMAIN seq : seq[at] = x
  PROVE  /\ Without(seq, x) \in Seq(Int) /\ Len(Without(seq, x)) = Len(seq) - 1
         /\ \A X : Cardinality(Hits(Without(seq, x), X))
                     = Cardinality(Hits(seq, X)) - (IF x \in X THEN 1 ELSE 0)
<1> DEFINE n == Len(seq)
           where == {i \in DOMAIN seq : seq[i] = x}
           first == CHOOSE i \in DOMAIN seq : seq[i] = x /\ \A j \in DOMAIN seq : seq[j] = x => i <= j
           skip == [j \in 1 .. n - 1 |-> IF j < first THEN j ELSE j + 1]
           r == Without(seq, x)
<1>1. DOMAIN seq = 1 .. n /\ n \in Nat /\ \A i \in 1 .. n : seq[i] \in Int OBVIOUS
<1>2. first \in 1 .. n /\ seq[first] = x
  <2>1. where \in SUBSET Nat /\ where # {} BY <1>1
  <2>2. \E i \in where : \A j \in where : i <= j
    <3> HIDE DEF where
    <3>1. QED BY <2>1, LeastExists
  <2>3. \E i \in DOMAIN seq : seq[i] = x /\ \A j \in DOMAIN seq : seq[j] = x => i <= j BY <2>2
  <2>4. first \in DOMAIN seq /\ seq[first] = x BY <2>3
  <2>5. QED BY <1>1, <2>4
<1>3. r = [j \in 1 .. n - 1 |-> seq[IF j < first THEN j ELSE j + 1]] BY DEF Without
<1> HIDE DEF first
<1>4. \A j \in 1 .. n - 1 : skip[j] \in (1 .. n) \ {first} /\ r[j] = seq[skip[j]]
  BY <1>1, <1>2, <1>3
<1>5. \A i, j \in 1 .. n - 1 : skip[i] = skip[j] => i = j BY <1>1, <1>2
<1>6. \A i \in (1 .. n) \ {first} : \E j \in 1 .. n - 1 : skip[j] = i
  <2> TAKE i \in (1 .. n) \ {first}
  <2>1. CASE i < first
    <3>1. i \in 1 .. n - 1 /\ skip[i] = i BY <1>1, <1>2, <2>1
    <3>2. QED BY <3>1
  <2>2. CASE i > first
    <3>1. i - 1 \in 1 .. n - 1 /\ skip[i - 1] = i BY <1>1, <1>2, <2>2
    <3>2. QED BY <3>1
  <2>3. QED BY <1>1, <1>2, <2>1, <2>2
<1>7. n # 0 BY <1>1
<1>8. DOMAIN r = 1 .. n - 1 BY <1>3
<1>9. r \in Seq(Int) /\ Len(r) = n - 1
  <2>1. n - 1 \in Nat BY <1>1, <1>7
  <2>2. r = [j \in 1 .. n - 1 |-> r[j]] BY <1>3
  <2>3. \A j \in 1 .. n - 1 : r[j] \in Int
    <3> HIDE DEF r, skip
    <3>1. QED BY <1>1, <1>4
  <2> HIDE DEF r
  <2>4. r \in [1 .. n - 1 -> Int] BY <2>2, <2>3
  <2>5. r \in Seq(Int) BY <2>1, <2>4
  <2>6. QED BY <1>8, <2>1, <2>5
<1>10. ASSUME NEW X
       PROVE  Cardinality(Hits(r, X)) = Cardinality(Hits(seq, X)) - (IF x \in X THEN 1 ELSE 0)
  <2> DEFINE S == Hits(r, X)
             T == Hits(seq, X) \ {first}
             f == [j \in S |-> skip[j]]
  <2> HIDE DEF r, skip, n
  <2>1. \A j \in S : j \in 1 .. n - 1 /\ r[j] \in X BY <1>8 DEF Hits
  <2>2. \A j \in S : skip[j] \in T
    <3> TAKE j \in S
    <3>1. skip[j] \in 1 .. n /\ skip[j] # first /\ seq[skip[j]] \in X BY <1>4, <2>1
    <3>2. QED BY <1>1, <3>1 DEF Hits
  <2>3. \A i, j \in S : f[i] = f[j] => i = j BY <1>5, <2>1
  <2>4. \A i \in T : \E j \in S : f[j] = i
    <3> TAKE i \in T
    <3>1. i \in (1 .. n) \ {first} /\ seq[i] \in X BY <1>1 DEF Hits
    <3>2. PICK j \in 1 .. n - 1 : skip[j] = i BY <1>6, <3>1
    <3>3. j \in S BY <1>4, <1>8, <3>1, <3>2 DEF Hits
    <3>4. QED BY <3>2, <3>3
  <2>5. f \in [S -> T] BY <2>2
  <2>6. IsFiniteSet(S) BY <1>9, HitsAre
  <2>7. Cardinality(T) = Cardinality(S)
    <3> HIDE DEF S, T, f
    <3>1. QED BY <2>3, <2>4, <2>5, <2>6, SameSize
  <2>8. IsFiniteSet(Hits(seq, X)) /\ Cardinality(Hits(seq, X)) \in Nat BY HitsAre
  <2>9. Cardinality(T) = IF first \in Hits(seq, X) THEN Cardinality(Hits(seq, X)) - 1
                         ELSE Cardinality(Hits(seq, X))
    BY <2>8, FS_RemoveElement
  <2>10. first \in Hits(seq, X) <=> x \in X BY <1>1, <1>2 DEF Hits
  <2> HIDE DEF T, S
  <2>11. Cardinality(S) = Cardinality(Hits(seq, X)) - (IF x \in X THEN 1 ELSE 0)
    BY <2>7, <2>8, <2>9, <2>10
  <2>12. QED BY <2>11 DEF S
<1>11. QED BY <1>9, <1>10

\* The equation of what remains after the first n holders.
Leaves(left, values, holders, n) ==
  left = [m \in 0 .. n |-> IF m = 0 THEN values ELSE Without(left[m - 1], holders[m].value)]

LEMMA LeavesExist ==
  ASSUME NEW values, NEW holders, NEW n \in Nat
  PROVE  \E left : Leaves(left, values, holders, n)
<1> DEFINE T == {m \in Nat : ~ \E left : Leaves(left, values, holders, m)}
<1> SUFFICES ASSUME T # {} PROVE FALSE OBVIOUS
<1>1. PICK m \in T : \A k \in T : m <= k BY LeastExists
<1>2. m # 0
  <2>1. Leaves([i \in 0 .. 0 |-> values], values, holders, 0) BY DEF Leaves
  <2>2. QED BY <2>1
<1>3. PICK left : Leaves(left, values, holders, m - 1)
  <2>1. m - 1 \in Nat /\ ~ (m <= m - 1) BY <1>2
  <2>2. QED BY <1>1, <2>1
<1> DEFINE final == Without(left[m - 1], holders[m].value)
           r == [i \in 0 .. m |-> IF i = m THEN final ELSE left[i]]
<1>4. ASSUME NEW i \in 0 .. m
      PROVE  r[i] = IF i = 0 THEN values ELSE Without(r[i - 1], holders[i].value)
  <2>1. CASE i = m
    <3>1. r[i] = final /\ r[i - 1] = left[m - 1]
      <4> HIDE DEF final
      <4>1. QED BY <1>2, <2>1
    <3> HIDE DEF r
    <3>2. QED BY <1>2, <2>1, <3>1
  <2>2. CASE i # m
    <3>1. i \in 0 .. m - 1 BY <2>2
    <3>2. left[i] = IF i = 0 THEN values ELSE Without(left[i - 1], holders[i].value)
      BY <1>3, <3>1 DEF Leaves
    <3>3. r[i] = left[i] /\ (i # 0 => r[i - 1] = left[i - 1])
      <4> HIDE DEF final
      <4>1. QED BY <2>2, <3>1
    <3> HIDE DEF r
    <3>4. QED BY <3>2, <3>3
  <2>3. QED BY <2>1, <2>2
<1>5. r = [i \in 0 .. m |-> r[i]] OBVIOUS
<1> HIDE DEF r
<1>6. Leaves(r, values, holders, m) BY <1>4, <1>5 DEF Leaves
<1>7. QED BY <1>6

\* Those of the first n holders whose value is in X.
Held(holders, n, X) == {k \in 1 .. n : holders[k].value \in X}

LEMMA HeldAre ==
  ASSUME NEW holders, NEW n \in Nat, NEW X
  PROVE  /\ IsFiniteSet(Held(holders, n, X)) /\ Cardinality(Held(holders, n, X)) \in Nat
         /\ n # 0 => Cardinality(Held(holders, n, X))
                       = Cardinality(Held(holders, n - 1, X)) + (IF holders[n].value \in X THEN 1 ELSE 0)
         /\ n = 0 => Cardinality(Held(holders, n, X)) = 0
<1>1. IsFiniteSet(1 .. n) BY FS_Interval
<1>2. Held(holders, n, X) \subseteq 1 .. n BY DEF Held
<1>3. IsFiniteSet(Held(holders, n, X)) BY <1>1, <1>2, FS_Subset
<1>4. ASSUME n # 0
      PROVE  Cardinality(Held(holders, n, X))
               = Cardinality(Held(holders, n - 1, X)) + (IF holders[n].value \in X THEN 1 ELSE 0)
  <2>1. 1 .. n - 1 \subseteq 1 .. n /\ n \in 1 .. n /\ n \notin 1 .. n - 1
        /\ \A k \in 1 .. n : k # n => k \in 1 .. n - 1
    BY <1>4
  <2>2. Held(holders, n - 1, X) = Held(holders, n, X) \ {n} BY <2>1 DEF Held
  <2>3. Cardinality(Held(holders, n, X) \ {n}) = IF n \in Held(holders, n, X)
          THEN Cardinality(Held(holders, n, X)) - 1 ELSE Cardinality(Held(holders, n, X))
    BY <1>3, FS_RemoveElement
  <2>4. n \in Held(holders, n, X) <=> holders[n].value \in X BY <2>1 DEF Held
  <2>5. Cardinality(Held(holders, n, X)) \in Nat BY <1>3, FS_CardinalityType
  <2> DEFINE all == Held(holders, n, X)
             others == Held(holders, n - 1, X)
  <2>6. others = all \ {n} BY <2>2
  <2>7. Cardinality(all \ {n}) = IF n \in all THEN Cardinality(all) - 1 ELSE Cardinality(all)
    BY <2>3
  <2>8. n \in all <=> holders[n].value \in X BY <2>4
  <2>9. Cardinality(all) \in Nat BY <2>5
  <2> HIDE DEF all, others
  <2>10. Cardinality(all) = Cardinality(others) + (IF holders[n].value \in X THEN 1 ELSE 0)
    BY <2>6, <2>7, <2>8, <2>9
  <2>11. QED BY <2>10 DEF all, others
<1>5. n = 0 => Held(holders, n, X) = {} BY DEF Held
<1>6. QED BY <1>3, <1>4, <1>5, FS_CardinalityType, FS_EmptySet

\* Holders whose values are on the ranking, each at a place of his own: what
\* remains has, of every set of values, as many fewer as the holders have.
LEMMA RemainingIs ==
  ASSUME NEW values \in Seq(Int), NEW holders, Len(holders) \in Nat,
         NEW place \in [1 .. Len(holders) -> DOMAIN values],
         \A k, l \in 1 .. Len(holders) : place[k] = place[l] => k = l,
         \A k \in 1 .. Len(holders) : values[place[k]] = holders[k].value
  PROVE  /\ Remaining(values, holders) \in Seq(Int)
         /\ Len(Remaining(values, holders)) = Len(values) - Len(holders)
         /\ \A X : Cardinality(Hits(Remaining(values, holders), X))
                     = Cardinality(Hits(values, X)) - Cardinality(Held(holders, Len(holders), X))
<1> DEFINE N == Len(holders)
           left == CHOOSE left : Leaves(left, values, holders, N)
           Good(n) == /\ left[n] \in Seq(Int) /\ Len(left[n]) = Len(values) - n
                      /\ \A X : Cardinality(Hits(left[n], X))
                                  = Cardinality(Hits(values, X)) - Cardinality(Held(holders, n, X))
           bad == {n \in 0 .. N : ~ Good(n)}
<1>1. Leaves(left, values, holders, N) BY LeavesExist
<1>2. Remaining(values, holders) = left[N] BY DEF Remaining, Leaves
<1> HIDE DEF left
<1>3. \A n \in 0 .. N : left[n] = IF n = 0 THEN values ELSE Without(left[n - 1], holders[n].value)
  BY <1>1 DEF Leaves
<1>4. Good(0)
  <2>1. left[0] = values BY <1>3
  <2>2. \A X : Cardinality(Held(holders, 0, X)) = 0 BY HeldAre
  <2>3. \A X : Cardinality(Hits(values, X)) \in Nat BY HitsAre
  <2>4. Len(values) \in Nat OBVIOUS
  <2>5. QED BY <2>1, <2>2, <2>3, <2>4
<1>5. ASSUME NEW n \in 1 .. N, Good(n - 1) PROVE Good(n)
  <2> DEFINE x == holders[n].value
             before == left[n - 1]
  <2>0. \A X : Cardinality(Held(holders, n - 1, X)) \in Nat
    <3> DEFINE p == n - 1
    <3>1. p \in Nat OBVIOUS
    <3> HIDE DEF p
    <3>2. \A X : Cardinality(Held(holders, p, X)) \in Nat BY <3>1, HeldAre
    <3>3. QED BY <3>2 DEF p
  <2>1. left[n] = Without(before, x)
    <3>1. n \in 0 .. N /\ n # 0 OBVIOUS
    <3>2. QED BY <1>3, <3>1
  <2>2. x \in Int
    <3>1. place[n] \in DOMAIN values /\ values[place[n]] = x OBVIOUS
    <3>2. QED BY <3>1
  <2>3. \E at \in DOMAIN before : before[at] = x
    <3>1. Cardinality(Held(holders, n, {x})) <= Cardinality(Hits(values, {x}))
      <4> DEFINE S == Held(holders, n, {x})
                 T == Hits(values, {x})
                 f == [k \in S |-> place[k]]
      <4>1. \A k \in S : k \in 1 .. N /\ holders[k].value = x BY DEF Held
      <4>2. \A k \in S : place[k] \in T
        <5> TAKE k \in S
        <5>1. place[k] \in DOMAIN values /\ values[place[k]] = x BY <4>1
        <5>2. QED BY <5>1 DEF Hits
      <4>3. f \in [S -> T] /\ \A k, l \in S : f[k] = f[l] => k = l BY <4>1, <4>2
      <4>4. IsFiniteSet(T) BY HitsAre
      <4> HIDE DEF S, T, f
      <4>5. f \in Injection(S, T) BY <4>3 DEF Injection, IsInjective
      <4>6. Cardinality(S) <= Cardinality(T) BY <4>4, <4>5, FS_Injection
      <4>7. QED BY <4>6 DEF S, T
    <3>2. Cardinality(Held(holders, n, {x})) = Cardinality(Held(holders, n - 1, {x})) + 1
      BY HeldAre
    <3>3. Cardinality(Hits(before, {x}))
            = Cardinality(Hits(values, {x})) - Cardinality(Held(holders, n - 1, {x}))
      BY <1>5
    <3>4. /\ Cardinality(Held(holders, n - 1, {x})) \in Nat /\ Cardinality(Hits(values, {x})) \in Nat
      BY <2>0, HitsAre
    <3>5. Cardinality(Hits(before, {x})) # 0 BY <3>1, <3>2, <3>3, <3>4
    <3>6. Hits(before, {x}) # {} BY <3>5, FS_EmptySet
    <3>7. QED BY <3>6 DEF Hits
  <2>4. before \in Seq(Int) /\ Len(before) = Len(values) - (n - 1) BY <1>5
  <2>5. /\ left[n] \in Seq(Int) /\ Len(left[n]) = Len(before) - 1
        /\ \A X : Cardinality(Hits(left[n], X))
                    = Cardinality(Hits(before, X)) - (IF x \in X THEN 1 ELSE 0)
    <3> HIDE DEF x, before
    <3>1. /\ Without(before, x) \in Seq(Int) /\ Len(Without(before, x)) = Len(before) - 1
          /\ \A X : Cardinality(Hits(Without(before, x), X))
                      = Cardinality(Hits(before, X)) - (IF x \in X THEN 1 ELSE 0)
      BY <2>2, <2>3, <2>4, WithoutIs, Zenon
    <3>2. QED BY <2>1, <3>1
  <2>6. ASSUME NEW X
        PROVE  Cardinality(Hits(left[n], X))
                 = Cardinality(Hits(values, X)) - Cardinality(Held(holders, n, X))
    <3>1. Cardinality(Hits(before, X))
            = Cardinality(Hits(values, X)) - Cardinality(Held(holders, n - 1, X))
      BY <1>5
    <3>2. Cardinality(Held(holders, n, X))
            = Cardinality(Held(holders, n - 1, X)) + (IF x \in X THEN 1 ELSE 0)
      BY HeldAre
    <3>3. Cardinality(Hits(left[n], X)) = Cardinality(Hits(before, X)) - (IF x \in X THEN 1 ELSE 0)
      BY <2>5
    <3>4. Cardinality(Hits(values, X)) \in Nat /\ Cardinality(Held(holders, n - 1, X)) \in Nat
      BY <2>0, HitsAre
    <3> HIDE DEF x, before
    <3>5. QED BY <3>1, <3>2, <3>3, <3>4
  <2>7. Len(left[n]) = Len(values) - n
    <3>1. Len(values) \in Nat OBVIOUS
    <3> HIDE DEF before
    <3>2. QED BY <2>4, <2>5, <3>1
  <2>8. QED BY <2>5, <2>6, <2>7
<1>6. bad = {}
  <2> SUFFICES ASSUME bad # {} PROVE FALSE OBVIOUS
  <2>1. bad \in SUBSET Nat OBVIOUS
  <2>2. PICK n \in bad : \A k \in bad : n <= k
    <3> HIDE DEF bad
    <3>1. QED BY <2>1, LeastExists
  <2>3. n \in 0 .. N /\ ~ Good(n) OBVIOUS
  <2>4. n # 0 BY <1>4, <2>3
  <2>5. n - 1 \in 0 .. N /\ ~ (n <= n - 1) /\ n \in 1 .. N BY <2>3, <2>4
  <2>6. Good(n - 1)
    <3> HIDE DEF Good
    <3>1. QED BY <2>2, <2>5
  <2> HIDE DEF Good
  <2>7. QED BY <1>5, <2>3, <2>5, <2>6
<1>7. Good(N)
  <2> HIDE DEF Good
  <2>1. N \in 0 .. N OBVIOUS
  <2>2. QED BY <1>6, <2>1
<1>8. QED BY <1>2, <1>7

(***************************************************************************)
(* The ranking and its holders.                                            *)
(***************************************************************************)

Equities == [i \in DOMAIN rivals |-> rivals[i].value]

LEMMA RankingIs ==
  ASSUME rivals \in Rankings
  PROVE  /\ DOMAIN rivals = 1 .. Listed /\ Len(rivals) = Listed /\ Listed \in Nat \ {0}
         /\ \A i \in 1 .. Listed :
              /\ rivals[i].value \in Int /\ rivals[i].value <= Ceiling
              /\ rivals[i].vehicle \in Vehicles \cup {Cash}
         /\ Floor \in Int /\ Ceiling \in Int
         /\ Equities \in Seq(Int) /\ Len(Equities) = Listed
<1> DEFINE Entry == [value : Values, vehicle : Vehicles \cup {Cash}]
           bad == {i \in 1 .. Listed : ~ (rivals[i].value <= rivals[1].value)}
<1>1. Listed \in Nat \ {0} BY SimulationAssumption
<1>2. rivals \in [1 .. Listed -> Entry] /\ \A i \in 1 .. Listed - 1 : rivals[i].value >= rivals[i + 1].value
  BY DEF Rankings
<1>3. \A i \in 1 .. Listed : rivals[i].value \in Int /\ rivals[i].vehicle \in Vehicles \cup {Cash}
  BY <1>2, SimulationAssumption
<1>4. DOMAIN rivals = 1 .. Listed /\ Len(rivals) = Listed
  <2> HIDE DEF Entry
  <2>1. rivals \in Seq(Entry) BY <1>1, <1>2
  <2>2. DOMAIN rivals = 1 .. Listed BY <1>2
  <2>3. QED BY <1>1, <2>1, <2>2
<1>5. bad = {}
  <2> SUFFICES ASSUME bad # {} PROVE FALSE OBVIOUS
  <2>1. bad \in SUBSET Nat OBVIOUS
  <2>2. PICK i \in bad : \A k \in bad : i <= k
    <3> HIDE DEF bad
    <3>1. QED BY <2>1, LeastExists
  <2>3. i \in 1 .. Listed /\ ~ (rivals[i].value <= rivals[1].value) OBVIOUS
  <2>4. i # 1 BY <1>3, <2>3
  <2> DEFINE p == i - 1
  <2>5. p \in 1 .. Listed - 1 /\ p \in 1 .. Listed /\ p + 1 = i /\ ~ (i <= p) BY <1>1, <2>3, <2>4
  <2>6. p \notin bad
    <3> HIDE DEF bad, p
    <3>1. QED BY <2>2, <2>5
  <2> HIDE DEF p
  <2>7. rivals[p].value <= rivals[1].value BY <2>5, <2>6
  <2>8. rivals[p].value >= rivals[i].value BY <1>2, <2>5
  <2>9. rivals[p].value \in Int /\ rivals[i].value \in Int /\ rivals[1].value \in Int BY <1>1, <1>3, <2>3, <2>5
  <2>10. QED BY <2>3, <2>7, <2>8, <2>9
<1>6. Ceiling = rivals[1].value /\ Floor = rivals[Listed].value BY <1>4 DEF Floor, Ceiling
<1>7. Ceiling \in Int /\ Floor \in Int BY <1>1, <1>3, <1>6
<1>8. Equities \in Seq(Int) /\ Len(Equities) = Listed
  <2>1. Equities \in [1 .. Listed -> Int] BY <1>3, <1>4 DEF Equities
  <2>2. Equities \in Seq(Int) BY <1>1, <2>1
  <2>3. DOMAIN Equities = 1 .. Listed BY <2>1
  <2>4. QED BY <1>1, <2>2, <2>3
<1>9. \A i \in 1 .. Listed : rivals[i].value <= Ceiling BY <1>5, <1>6
<1>10. QED BY <1>1, <1>3, <1>4, <1>7, <1>8, <1>9

LEMMA HoldersAre ==
  ASSUME rivals \in Rankings
  PROVE  /\ Len(Holders) \in Nat /\ Len(Holders) <= Listed
         /\ \A k \in 1 .. Len(Holders) :
              /\ Nth(Known, k) \in 1 .. Listed /\ Holders[k] = rivals[Nth(Known, k)]
              /\ Holders[k].vehicle \in Vehicles
         /\ \A k, l \in 1 .. Len(Holders) : Nth(Known, k) = Nth(Known, l) => k = l
<1> DEFINE n == Cardinality(Known)
<1>1. Listed \in Nat /\ DOMAIN rivals = 1 .. Listed BY RankingIs
<1>2. Known \in SUBSET (1 .. Listed) BY <1>1 DEF Known
<1>3. n \in Nat /\ (\A k \in 1 .. n : Nth(Known, k) \in Known)
      /\ \A k, l \in 1 .. n : Nth(Known, k) = Nth(Known, l) => k = l
  BY <1>1, <1>2, NthIs
<1>4. n <= Listed
  <2>1. IsFiniteSet(1 .. Listed) /\ Cardinality(1 .. Listed) = Listed BY <1>1, FS_Interval
  <2>2. QED BY <1>2, <2>1, FS_Subset
<1>5. Len(Holders) = n
  <2> DEFINE T == {rivals[Nth(Known, k)] : k \in 1 .. n}
  <2> HIDE DEF n
  <2>1. Holders = [k \in 1 .. n |-> rivals[Nth(Known, k)]] BY DEF Holders, n
  <2>2. \A k \in 1 .. n : rivals[Nth(Known, k)] \in T OBVIOUS
  <2> HIDE DEF T
  <2>3. Holders \in [1 .. n -> T] BY <2>1, <2>2
  <2>4. Holders \in Seq(T) BY <1>3, <2>3
  <2>5. DOMAIN Holders = 1 .. n BY <2>3
  <2>6. QED BY <1>3, <2>4, <2>5
<1>6. \A k \in 1 .. n : Holders[k] = rivals[Nth(Known, k)] BY DEF Holders
<1>7. \A i \in Known : i \in 1 .. Listed /\ rivals[i].vehicle \in Vehicles
  BY <1>1, RankingIs DEF Known
<1> HIDE DEF n
<1>8. QED BY <1>3, <1>4, <1>5, <1>6, <1>7

\* What remains of the ranking's equities without the holders'.
Rest == Remaining(Equities, Holders)

LEMMA RestIs ==
  ASSUME rivals \in Rankings
  PROVE  /\ Rest \in Seq(Int) /\ Len(Rest) = Listed - Len(Holders)
         /\ \A X : Cardinality(Hits(Rest, X))
                     = Cardinality(Hits(Equities, X)) - Cardinality(Held(Holders, Len(Holders), X))
         /\ \A k \in DOMAIN Rest : \E i \in 1 .. Listed : Rest[k] = rivals[i].value
<1> DEFINE n == Len(Holders)
           place == [k \in 1 .. n |-> Nth(Known, k)]
<1>1. Equities \in Seq(Int) /\ Len(Equities) = Listed /\ Listed \in Nat BY RankingIs
<1>2. DOMAIN Equities = 1 .. Listed /\ \A i \in 1 .. Listed : Equities[i] = rivals[i].value
  BY RankingIs DEF Equities
<1>3. n \in Nat /\ (\A k, l \in 1 .. n : Nth(Known, k) = Nth(Known, l) => k = l)
      /\ \A k \in 1 .. n : Nth(Known, k) \in 1 .. Listed /\ Holders[k] = rivals[Nth(Known, k)]
  BY HoldersAre
<1> HIDE DEF n
<1>4. /\ place \in [1 .. n -> DOMAIN Equities]
      /\ \A k, l \in 1 .. n : place[k] = place[l] => k = l
      /\ \A k \in 1 .. n : Equities[place[k]] = Holders[k].value
  BY <1>2, <1>3
<1> HIDE DEF place
<1>5. /\ Rest \in Seq(Int) /\ Len(Rest) = Len(Equities) - n
      /\ \A X : Cardinality(Hits(Rest, X))
                  = Cardinality(Hits(Equities, X)) - Cardinality(Held(Holders, n, X))
  BY <1>1, <1>3, <1>4, RemainingIs DEF n, Rest
<1>6. ASSUME NEW k \in DOMAIN Rest PROVE \E i \in 1 .. Listed : Rest[k] = rivals[i].value
  <2> DEFINE X == {Rest[k]}
  <2>1. Hits(Rest, X) # {} BY DEF Hits
  <2>2. Cardinality(Hits(Rest, X)) \in Nat /\ Cardinality(Hits(Rest, X)) # 0
    BY <1>5, <2>1, HitsAre, FS_EmptySet
  <2>3. Cardinality(Hits(Equities, X)) \in Nat /\ Cardinality(Held(Holders, n, X)) \in Nat
    BY <1>1, <1>3, HitsAre, HeldAre
  <2> HIDE DEF X
  <2>4. Cardinality(Hits(Equities, X)) # 0 BY <1>5, <2>2, <2>3
  <2>5. Hits(Equities, X) # {} BY <2>4, FS_EmptySet
  <2>6. PICK i \in 1 .. Listed : Equities[i] \in X BY <1>2, <2>5 DEF Hits
  <2>7. QED BY <1>2, <2>6 DEF X
<1>7. QED BY <1>1, <1>5, <1>6 DEF n

(***************************************************************************)
(* Pinning                                                                  *)
(***************************************************************************)

LEMMA AgentsAre ==
  ASSUME rivals \in Rankings
  PROVE  /\ Crowd \in Nat /\ Len(Holders) \in Nat
         /\ Agents = (1 .. Crowd) \cup Explicit /\ (1 .. Crowd) \cap Explicit = {}
         /\ IsFiniteSet(1 .. Crowd) /\ IsFiniteSet(Explicit)
         /\ \A a \in Explicit : a - Crowd \in 1 .. Len(Holders) /\ Leader(a) = Holders[a - Crowd]
         /\ \A k \in 1 .. Len(Holders) : k + Crowd \in Explicit
<1>1. Crowd \in Nat /\ Len(Holders) \in Nat BY SimulationAssumption, HoldersAre
<1> DEFINE n == Len(Holders)
<1> HIDE DEF n
<1>2. n \in Nat BY <1>1 DEF n
<1>3. Explicit = Crowd + 1 .. Crowd + n /\ Agents = 1 .. Crowd + n BY DEF Explicit, Agents, n
<1>4. IsFiniteSet(1 .. Crowd) /\ IsFiniteSet(Explicit) BY <1>1, <1>2, <1>3, FS_Interval
<1>5. Agents = (1 .. Crowd) \cup Explicit /\ (1 .. Crowd) \cap Explicit = {} BY <1>1, <1>2, <1>3
<1>6. \A a \in Explicit : a - Crowd \in 1 .. n BY <1>1, <1>2, <1>3
<1>7. \A k \in 1 .. n : k + Crowd \in Explicit BY <1>1, <1>2, <1>3
<1>8. QED BY <1>1, <1>4, <1>5, <1>6, <1>7 DEF n, Leader

\* The order of the crowd reaches everybody in it.
LEMMA OrderIs ==
  ASSUME NEW order \in Orders
  PROVE  /\ DOMAIN order = 1 .. Crowd /\ \A i \in 1 .. Crowd : order[i] \in 1 .. Crowd
         /\ \A i, j \in 1 .. Crowd : order[i] = order[j] => i = j
         /\ \A a \in 1 .. Crowd : \E i \in 1 .. Crowd : order[i] = a
<1> DEFINE S == 1 .. Crowd
<1>1. IsFiniteSet(S) BY SimulationAssumption, FS_Interval
<1>2. order \in [S -> S] /\ \A i, j \in S : order[i] = order[j] => i = j BY DEF Orders
<1> HIDE DEF S
<1>3. order \in Injection(S, S) BY <1>2 DEF Injection, IsInjective
<1>4. order \in Surjection(S, S) BY <1>1, <1>3, FS_Injection
<1>5. \A a \in S : \E i \in S : order[i] = a BY <1>4 DEF Surjection
<1>6. QED BY <1>2, <1>5 DEF S

\* What pinning makes of the agents.
LEMMA PinnedIs ==
  ASSUME rivals \in Rankings, NEW eq \in [Agents -> Int], NEW order \in Orders
  PROVE  /\ Pinned(eq, order) \in [Agents -> Int]
         /\ \A a \in Explicit : Pinned(eq, order)[a] = Leader(a).value
         /\ \A i \in 1 .. Crowd :
              IF i <= Len(Rest) THEN Pinned(eq, order)[order[i]] = Rest[i]
              ELSE Pinned(eq, order)[order[i]] <= Floor
         /\ \A a \in Agents : \/ \E i \in DOMAIN rivals : Pinned(eq, order)[a] = rivals[i].value
                              \/ Pinned(eq, order)[a] < Floor
<1> DEFINE place(a) == CHOOSE i \in DOMAIN order : order[i] = a
           to(a) == IF a \in Explicit THEN Leader(a).value
                    ELSE IF place(a) <= Len(Rest) THEN Rest[place(a)]
                    ELSE AtMost(eq[a], Floor)
           pinned == [a \in Agents |-> AtMost(to(a), Ceiling)]
<1>1. Pinned(eq, order) = pinned BY DEF Pinned, Rest, Equities
<1>2. /\ Listed \in Nat \ {0} /\ DOMAIN rivals = 1 .. Listed /\ Floor \in Int /\ Ceiling \in Int
      /\ \A i \in 1 .. Listed : rivals[i].value \in Int /\ rivals[i].value <= Ceiling
      /\ Floor = rivals[Listed].value /\ Ceiling = rivals[1].value
  BY RankingIs DEF Floor, Ceiling
<1>3. /\ Len(Rest) \in Nat /\ DOMAIN Rest = 1 .. Len(Rest)
      /\ \A k \in 1 .. Len(Rest) : \E i \in 1 .. Listed : Rest[k] = rivals[i].value
  BY RestIs
<1>4. ASSUME NEW a \in Explicit
      PROVE  /\ a \in Agents /\ pinned[a] = Leader(a).value
             /\ \E i \in 1 .. Listed : Leader(a).value = rivals[i].value
  <2> DEFINE k == a - Crowd
  <2>1. a \in Agents /\ k \in 1 .. Len(Holders) /\ Leader(a) = Holders[k] BY AgentsAre
  <2> HIDE DEF k
  <2>2. Nth(Known, k) \in 1 .. Listed /\ Leader(a) = rivals[Nth(Known, k)] BY <2>1, HoldersAre
  <2>3. Leader(a).value \in Int /\ Leader(a).value <= Ceiling BY <1>2, <2>2
  <2>4. pinned[a] = AtMost(Leader(a).value, Ceiling) BY <2>1
  <2>5. pinned[a] = Leader(a).value
    <3> HIDE DEF pinned
    <3>1. QED BY <1>2, <2>3, <2>4 DEF AtMost
  <2>6. QED BY <2>1, <2>2, <2>5
<1>5. ASSUME NEW i \in 1 .. Crowd
      PROVE  /\ order[i] \in Agents /\ pinned[order[i]] \in Int
             /\ IF i <= Len(Rest) THEN pinned[order[i]] = Rest[i] ELSE pinned[order[i]] <= Floor
             /\ \/ \E n \in 1 .. Listed : pinned[order[i]] = rivals[n].value
                \/ pinned[order[i]] < Floor
  <2> DEFINE a == order[i]
  <2>1. a \in 1 .. Crowd /\ a \in Agents /\ a \notin Explicit BY OrderIs, AgentsAre
  <2>2. place(a) = i BY OrderIs
  <2>3. eq[a] \in Int BY <2>1
  <2>4. pinned[a] = AtMost(IF i <= Len(Rest) THEN Rest[i] ELSE AtMost(eq[a], Floor), Ceiling)
    <3>1. pinned[a] = AtMost(to(a), Ceiling)
      <4> HIDE DEF to, a
      <4>1. QED BY <2>1
    <3>2. to(a) = IF i <= Len(Rest) THEN Rest[i] ELSE AtMost(eq[a], Floor)
      <4> HIDE DEF place, a
      <4>1. QED BY <2>1, <2>2
    <3> HIDE DEF pinned, to, a
    <3>3. QED BY <3>1, <3>2
  <2> HIDE DEF pinned, a
  <2>5. CASE i <= Len(Rest)
    <3>1. PICK n \in 1 .. Listed : Rest[i] = rivals[n].value BY <1>3, <2>5
    <3>2. Rest[i] \in Int /\ Rest[i] <= Ceiling BY <1>2, <3>1
    <3>3. pinned[a] = Rest[i] BY <1>2, <2>4, <2>5, <3>2 DEF AtMost
    <3>4. QED BY <2>1, <2>5, <3>1, <3>2, <3>3 DEF a
  <2>6. CASE ~ (i <= Len(Rest))
    <3>1. pinned[a] = AtMost(AtMost(eq[a], Floor), Ceiling) BY <2>4, <2>6
    <3>2. pinned[a] \in Int /\ pinned[a] <= Floor
          /\ (pinned[a] = Floor \/ pinned[a] = Ceiling \/ pinned[a] < Floor)
      BY <1>2, <2>3, <3>1 DEF AtMost
    <3>3. 1 \in 1 .. Listed /\ Listed \in 1 .. Listed BY <1>2
    <3>4. QED BY <1>2, <2>1, <2>6, <3>2, <3>3 DEF a
  <2>7. QED BY <2>5, <2>6
<1> HIDE DEF pinned
<1>6. ASSUME NEW a \in Agents PROVE a \in Explicit \/ \E i \in 1 .. Crowd : a = order[i]
  BY AgentsAre, OrderIs
<1>7. \A a \in Agents : pinned[a] \in Int
  <2> TAKE a \in Agents
  <2>1. CASE a \in Explicit BY <1>2, <1>4, <2>1
  <2>2. CASE \E i \in 1 .. Crowd : a = order[i] BY <1>5, <2>2
  <2>3. QED BY <1>6, <2>1, <2>2
<1>8. \A a \in Agents : (\E i \in 1 .. Listed : pinned[a] = rivals[i].value) \/ pinned[a] < Floor
  <2> TAKE a \in Agents
  <2>1. CASE a \in Explicit BY <1>4, <2>1
  <2>2. CASE \E i \in 1 .. Crowd : a = order[i] BY <1>5, <2>2
  <2>3. QED BY <1>6, <2>1, <2>2
<1>9. pinned \in [Agents -> Int] BY <1>7 DEF pinned
<1>10. QED BY <1>1, <1>2, <1>4, <1>5, <1>8, <1>9

\* Of every set of values above the last listed one as many agents have one as
\* rivals on the ranking.
LEMMA PinnedCounts ==
  ASSUME rivals \in Rankings, NEW p \in [Agents -> Int], NEW order \in Orders,
         \A a \in Explicit : p[a] = Leader(a).value,
         \A i \in 1 .. Crowd : IF i <= Len(Rest) THEN p[order[i]] = Rest[i] ELSE p[order[i]] <= Floor,
         CrowdSuffices, NEW X, \A x \in X : x > Floor
  PROVE  Cardinality({a \in Agents : p[a] \in X}) = Cardinality({i \in DOMAIN rivals : rivals[i].value \in X})
<1> DEFINE A == {a \in Agents : p[a] \in X}
           A1 == {a \in 1 .. Crowd : p[a] \in X}
           A2 == {a \in Explicit : p[a] \in X}
           n == Len(Holders)
           hits == Hits(Rest, X)
           own == Held(Holders, n, X)
           f == [i \in hits |-> order[i]]
           g == [k \in own |-> k + Crowd]
<1>1. /\ Listed \in Nat /\ Len(rivals) = Listed /\ Floor \in Int /\ DOMAIN rivals = 1 .. Listed
      /\ DOMAIN Equities = 1 .. Listed /\ \A i \in 1 .. Listed : Equities[i] = rivals[i].value
  BY RankingIs DEF Equities
<1>2. /\ Rest \in Seq(Int) /\ Len(Rest) = Listed - n
      /\ Cardinality(hits) = Cardinality(Hits(Equities, X)) - Cardinality(own)
  BY RestIs
<1>3. Crowd \in Nat /\ n \in Nat /\ Len(Rest) <= Crowd
  BY <1>1, <1>2, AgentsAre DEF CrowdSuffices
<1>4. \A i \in hits : i \in 1 .. Crowd /\ i <= Len(Rest) /\ Rest[i] \in X
  <2>1. DOMAIN Rest = 1 .. Len(Rest) /\ Len(Rest) \in Nat BY <1>2
  <2>2. QED BY <1>3, <2>1 DEF Hits
<1>5. \A i \in hits : order[i] \in A1
  <2> TAKE i \in hits
  <2>1. i \in 1 .. Crowd /\ i <= Len(Rest) /\ Rest[i] \in X BY <1>4
  <2>2. p[order[i]] = Rest[i] BY <2>1
  <2>3. order[i] \in 1 .. Crowd BY <2>1, OrderIs
  <2>4. QED BY <2>1, <2>2, <2>3
<1>6. \A a \in A1 : \E i \in hits : order[i] = a
  <2> TAKE a \in A1
  <2>1. PICK i \in 1 .. Crowd : order[i] = a BY OrderIs
  <2>2. i <= Len(Rest)
    <3> SUFFICES ASSUME ~ (i <= Len(Rest)) PROVE FALSE OBVIOUS
    <3>1. p[a] <= Floor BY <2>1
    <3>2. p[a] \in X /\ a \in Agents BY AgentsAre
    <3>3. p[a] \in Int /\ p[a] > Floor BY <3>2
    <3>4. QED BY <1>1, <3>1, <3>3
  <2>3. i \in DOMAIN Rest BY <1>2, <2>2
  <2>4. Rest[i] \in X BY <2>1, <2>2
  <2>5. QED BY <2>1, <2>3, <2>4 DEF Hits
<1>7. IsFiniteSet(A1) /\ Cardinality(A1) = Cardinality(hits)
  <2>1. f \in [hits -> A1] BY <1>5
  <2>2. \A i, j \in hits : f[i] = f[j] => i = j
    <3>1. \A i \in hits : i \in 1 .. Crowd BY <1>4
    <3>2. \A i, j \in 1 .. Crowd : order[i] = order[j] => i = j BY OrderIs
    <3> HIDE DEF hits
    <3>3. \A i \in hits : f[i] = order[i] OBVIOUS
    <3> HIDE DEF f
    <3>4. QED BY <3>1, <3>2, <3>3
  <2>3. \A a \in A1 : \E i \in hits : f[i] = a BY <1>6
  <2>4. IsFiniteSet(hits) BY <1>2, HitsAre
  <2> HIDE DEF f, A1, hits
  <2>5. QED BY <2>1, <2>2, <2>3, <2>4, SameSize, Zenon
<1>8. \A k \in own : k \in 1 .. n /\ Holders[k].value \in X BY DEF Held
<1>9. \A k \in own : k + Crowd \in A2
  <2> TAKE k \in own
  <2>1. k + Crowd \in Explicit /\ Leader(k + Crowd) = Holders[k + Crowd - Crowd]
        /\ k + Crowd - Crowd = k
    BY <1>3, <1>8, AgentsAre
  <2>2. p[k + Crowd] = Holders[k].value BY <2>1
  <2>3. QED BY <1>8, <2>1, <2>2
<1>10. \A a \in A2 : \E k \in own : k + Crowd = a
  <2> TAKE a \in A2
  <2> DEFINE k == a - Crowd
  <2>1. k \in 1 .. n /\ Leader(a) = Holders[k] /\ k + Crowd = a
    <3>1. a \in Int BY <1>3 DEF Explicit
    <3>2. QED BY <1>3, <3>1, AgentsAre
  <2>2. Holders[k].value \in X BY <2>1
  <2> HIDE DEF k
  <2>3. QED BY <2>1, <2>2 DEF Held
<1>11. IsFiniteSet(A2) /\ Cardinality(A2) = Cardinality(own)
  <2>1. g \in [own -> A2] BY <1>9
  <2>2. \A i, j \in own : g[i] = g[j] => i = j BY <1>3, <1>8
  <2>3. \A a \in A2 : \E k \in own : g[k] = a BY <1>10
  <2>4. IsFiniteSet(own) BY <1>3, HeldAre
  <2> HIDE DEF g, A2, own
  <2>5. QED BY <2>1, <2>2, <2>3, <2>4, SameSize, Zenon
<1>12. A = A1 \cup A2 /\ A1 \cap A2 = {} BY AgentsAre
<1>13. Hits(Equities, X) = {i \in DOMAIN rivals : rivals[i].value \in X} BY <1>1 DEF Hits
<1>14. Cardinality(own) \in Nat /\ Cardinality(hits) \in Nat /\ Cardinality(Hits(Equities, X)) \in Nat
  BY <1>2, <1>3, HitsAre, HeldAre, RankingIs
<1> HIDE DEF A, A1, A2, hits, own
<1>15. Cardinality(A) = Cardinality(A1) + Cardinality(A2)
  <2>1. Cardinality(A1 \cup A2) = Cardinality(A1) + Cardinality(A2) - Cardinality(A1 \cap A2)
    BY <1>7, <1>11, FS_Union
  <2>2. Cardinality(A1 \cap A2) = 0 BY <1>12, FS_EmptySet
  <2>3. QED BY <1>7, <1>11, <1>12, <1>14, <2>1, <2>2
<1>16. Cardinality(A) = Cardinality(Hits(Equities, X))
  BY <1>2, <1>7, <1>11, <1>14, <1>15
<1>17. QED BY <1>13, <1>16 DEF A

(***************************************************************************)
(* The simulation                                                           *)
(***************************************************************************)

Holdings == Vehicles \cup {Cash}

SimulationTyped ==
  /\ rivals \in Rankings /\ ourEquity \in Int /\ current \in Holdings /\ played \in Nat
  /\ held \in [Agents -> Holdings] /\ equity \in [Agents -> Int]
  /\ mine \in [Vehicles -> Holdings] /\ path \in [Vehicles -> Int]
  /\ base \in Int /\ firstGap \in Int

\* Until the switch every path of ours is that of the realized holding, which
\* lacks the gap of the first session.
PathsInv ==
  /\ played = 0 => base = 0 /\ \A c \in Vehicles : mine[c] = Cash /\ path[c] = 0
  /\ played \in 1 .. Realized => \A c \in Vehicles : mine[c] = current /\ path[c] = base - firstGap

\* At the switch the field is the ranking, by any set of values.
PinnedInv ==
  played = Realized =>
    /\ CrowdSuffices =>
         \A X \in SUBSET Int : (\A x \in X : x > Floor) =>
           Cardinality({a \in Agents : equity[a] \in X})
             = Cardinality({i \in DOMAIN rivals : rivals[i].value \in X})
    /\ \A a \in Explicit : equity[a] = Leader(a).value /\ held[a] = Leader(a).vehicle
    /\ \A a \in Agents : (\E i \in DOMAIN rivals : equity[a] = rivals[i].value) \/ equity[a] < Floor

SimulationInv == SimulationTyped /\ PathsInv /\ PinnedInv

LEMMA SimulationInitially == SimulationInit => SimulationInv
<1> SUFFICES ASSUME SimulationInit PROVE SimulationInv OBVIOUS
<1>1. Cash \in Holdings /\ Realized # 0 BY SimulationAssumption DEF Holdings
<1>2. SimulationTyped
  BY <1>1, SimulationAssumption DEF SimulationInit, StartOfSimulation, SimulationTyped, Holdings
<1>3. PathsInv BY DEF SimulationInit, StartOfSimulation, PathsInv
<1>4. PinnedInv BY <1>1 DEF SimulationInit, StartOfSimulation, PinnedInv
<1>5. QED BY <1>2, <1>3, <1>4 DEF SimulationInv

LEMMA LegIs ==
  ASSUME NEW row \in DrawnSessions, NEW v \in Holdings
  PROVE  /\ Leg(row.gap, v) \in Int /\ Leg(row.intraday, v) \in Int
         /\ Leg(row.gap, Cash) = 0
<1>1. row.gap \in [Vehicles -> Int] /\ row.intraday \in [Vehicles -> Int]
  BY SimulationAssumption DEF DrawnSessions
<1>2. QED BY <1>1 DEF Leg, Holdings

\* The paths of a session.
LEMMA PathsStep ==
  ASSUME SimulationTyped, PathsInv, NEW row \in DrawnSessions,
         UNCHANGED current, played' = played + 1,
         mine' = [c \in Vehicles |-> NextMine(c)],
         path' = [c \in Vehicles |-> path[c] + Earned(row.gap, row.intraday, mine[c], NextMine(c))],
         base' = Compounded(row),
         firstGap' = IF played = 0 THEN Leg(row.gap, current) ELSE firstGap
  PROVE  /\ mine' \in [Vehicles -> Holdings] /\ path' \in [Vehicles -> Int]
         /\ base' \in Int /\ firstGap' \in Int /\ PathsInv'
<1>1. /\ current \in Holdings /\ played \in Nat /\ base \in Int /\ firstGap \in Int
      /\ \A c \in Vehicles : mine[c] \in Holdings /\ path[c] \in Int
  BY DEF SimulationTyped
<1> DEFINE gap == Leg(row.gap, current)
           move == Leg(row.intraday, current)
<1>2. gap \in Int /\ move \in Int BY <1>1, LegIs
<1>3. \A c \in Vehicles : NextMine(c) \in Holdings /\ (played < Realized => NextMine(c) = current)
  BY <1>1 DEF NextMine, Holdings
<1>4. mine' \in [Vehicles -> Holdings] BY <1>3
<1>5. path' \in [Vehicles -> Int]
  <2>1. \A c \in Vehicles : Earned(row.gap, row.intraday, mine[c], NextMine(c)) \in Int
    BY <1>1, <1>3, LegIs DEF Earned
  <2>2. QED BY <1>1, <2>1
<1>6. base' = IF played < Realized THEN base + gap + move ELSE base BY DEF Compounded
<1>7. firstGap' = IF played = 0 THEN gap ELSE firstGap OBVIOUS
<1> HIDE DEF gap, move
<1>8. base' \in Int /\ firstGap' \in Int BY <1>1, <1>2, <1>6, <1>7
<1>9. ASSUME played' \in 1 .. Realized, NEW c \in Vehicles
      PROVE  mine'[c] = current' /\ path'[c] = base' - firstGap'
  <2>1. played < Realized /\ Realized \in Nat BY <1>1, <1>9, SimulationAssumption
  <2>2. mine'[c] = current BY <1>3, <2>1
  <2>3. path'[c] = path[c] + (Leg(row.gap, mine[c]) + move)
    BY <1>3, <2>1 DEF Earned, move
  <2>4. CASE played = 0
    <3>1. mine[c] = Cash /\ path[c] = 0 /\ base = 0 BY <2>4 DEF PathsInv
    <3>2. Leg(row.gap, mine[c]) = 0 BY <1>1, <3>1, LegIs
    <3>3. QED BY <1>2, <1>6, <1>7, <2>1, <2>2, <2>3, <2>4, <3>1, <3>2
  <2>5. CASE played # 0
    <3>1. played \in 1 .. Realized BY <1>1, <2>1, <2>5
    <3>2. mine[c] = current /\ path[c] = base - firstGap BY <3>1 DEF PathsInv
    <3>3. Leg(row.gap, mine[c]) = gap BY <3>2 DEF gap
    <3>4. QED BY <1>1, <1>2, <1>6, <1>7, <2>1, <2>2, <2>3, <2>5, <3>2, <3>3
  <2>6. QED BY <2>4, <2>5
<1>10. played' # 0 BY <1>1
<1>11. PathsInv' BY <1>9, <1>10 DEF PathsInv
<1>12. QED BY <1>4, <1>5, <1>8, <1>11

LEMMA SimulationStep ==
  ASSUME SimulationInv, SimulationNext
  PROVE  SimulationInv'
<1>1. PICK new \in [Agents -> Holdings], row \in DrawnSessions : Session(row, new)
  BY DEF SimulationNext, Holdings
<1> DEFINE earned(old, now) == Earned(row.gap, row.intraday, old, now)
           eq == [a \in Agents |-> equity[a] + earned(held[a], new[a])]
<1>2. /\ played' = played + 1
      /\ IF played = Realized - 1
           THEN /\ \E order \in Orders : Sorted([a \in 1 .. Crowd |-> AtMost(eq[a], Ceiling)], order)
                                         /\ equity' = Pinned(eq, order)
                /\ held' = [a \in Agents |-> IF a \in Explicit THEN Leader(a).vehicle ELSE new[a]]
           ELSE equity' = eq /\ held' = new
      /\ mine' = [c \in Vehicles |-> NextMine(c)]
      /\ path' = [c \in Vehicles |-> path[c] + earned(mine[c], NextMine(c))]
      /\ base' = Compounded(row)
      /\ firstGap' = IF played = 0 THEN Leg(row.gap, current) ELSE firstGap
      /\ rivals' = rivals /\ ourEquity' = ourEquity /\ current' = current
  BY <1>1, Zenon DEF Session, input
<1>3. SimulationTyped /\ PathsInv BY DEF SimulationInv
<1>4. /\ rivals \in Rankings /\ ourEquity \in Int /\ current \in Holdings /\ played \in Nat
      /\ held \in [Agents -> Holdings] /\ equity \in [Agents -> Int]
  BY <1>3 DEF SimulationTyped
<1>5. /\ Agents' = Agents /\ Explicit' = Explicit /\ Floor' = Floor
      /\ \A a : Leader(a)' = Leader(a)
      /\ CrowdSuffices' = CrowdSuffices
  BY <1>2 DEF Agents, Explicit, Floor, Leader, CrowdSuffices, Holders, Known
<1>6. eq \in [Agents -> Int]
  <2>1. ASSUME NEW a \in Agents PROVE equity[a] + earned(held[a], new[a]) \in Int
    <3>1. held[a] \in Holdings /\ new[a] \in Holdings /\ equity[a] \in Int BY <1>4
    <3>2. Leg(row.gap, held[a]) \in Int /\ Leg(row.intraday, new[a]) \in Int BY <3>1, LegIs
    <3>3. QED BY <3>1, <3>2 DEF Earned
  <2>2. QED BY <2>1
<1>7. /\ mine' \in [Vehicles -> Holdings] /\ path' \in [Vehicles -> Int]
      /\ base' \in Int /\ firstGap' \in Int /\ PathsInv'
  <2>1. path' = [c \in Vehicles |-> path[c] + Earned(row.gap, row.intraday, mine[c], NextMine(c))]
    BY <1>2
  <2> HIDE DEF earned, eq
  <2>2. QED BY <1>2, <1>3, <2>1, PathsStep
<1> HIDE DEF eq, earned
<1>8. CASE played = Realized - 1
  <2>1. PICK order \in Orders : equity' = Pinned(eq, order) BY <1>2, <1>8
  <2>2. held' = [a \in Agents |-> IF a \in Explicit THEN Leader(a).vehicle ELSE new[a]] BY <1>2, <1>8
  <2>3. /\ equity' \in [Agents -> Int]
        /\ \A a \in Explicit : equity'[a] = Leader(a).value
        /\ \A i \in 1 .. Crowd :
             IF i <= Len(Rest) THEN equity'[order[i]] = Rest[i] ELSE equity'[order[i]] <= Floor
        /\ \A a \in Agents : \/ \E i \in DOMAIN rivals : equity'[a] = rivals[i].value
                             \/ equity'[a] < Floor
    BY <1>4, <1>6, <2>1, PinnedIs
  <2>4. held' \in [Agents -> Holdings] /\ \A a \in Explicit : held'[a] = Leader(a).vehicle
    <3>1. \A a \in Explicit : a \in Agents /\ Leader(a).vehicle \in Holdings
      <4> TAKE a \in Explicit
      <4>1. a \in Agents /\ a - Crowd \in 1 .. Len(Holders) /\ Leader(a) = Holders[a - Crowd]
        BY <1>4, AgentsAre
      <4>2. QED BY <1>4, <4>1, HoldersAre DEF Holdings
    <3>2. \A a \in Agents : (IF a \in Explicit THEN Leader(a).vehicle ELSE new[a]) \in Holdings BY <3>1
    <3>3. QED BY <2>2, <3>1, <3>2
  <2>5. ASSUME CrowdSuffices, NEW X \in SUBSET Int, \A x \in X : x > Floor
        PROVE  Cardinality({a \in Agents : equity'[a] \in X})
                 = Cardinality({i \in DOMAIN rivals : rivals[i].value \in X})
    <3> DEFINE p == equity'
    <3>1. p \in [Agents -> Int] /\ (\A a \in Explicit : p[a] = Leader(a).value)
          /\ \A i \in 1 .. Crowd : IF i <= Len(Rest) THEN p[order[i]] = Rest[i] ELSE p[order[i]] <= Floor
      BY <2>3
    <3> HIDE DEF p
    <3>2. Cardinality({a \in Agents : p[a] \in X}) = Cardinality({i \in DOMAIN rivals : rivals[i].value \in X})
      BY <1>4, <2>5, <3>1, PinnedCounts
    <3>3. QED BY <3>2 DEF p
  <2>6. SimulationTyped' BY <1>2, <1>4, <1>5, <1>7, <2>3, <2>4 DEF SimulationTyped
  <2>7. PinnedInv' BY <1>2, <1>5, <2>3, <2>4, <2>5 DEF PinnedInv
  <2>8. QED BY <1>7, <2>6, <2>7 DEF SimulationInv
<1>9. CASE played # Realized - 1
  <2>1. equity' = eq /\ held' = new BY <1>2, <1>9
  <2>2. SimulationTyped' BY <1>2, <1>4, <1>5, <1>6, <1>7, <2>1 DEF SimulationTyped
  <2>3. played' # Realized BY <1>2, <1>4, <1>9, SimulationAssumption
  <2>4. PinnedInv' BY <2>3 DEF PinnedInv
  <2>5. QED BY <1>7, <2>2, <2>4 DEF SimulationInv
<1>10. QED BY <1>8, <1>9

LEMMA SimulationUntouched == SimulationInv /\ UNCHANGED simulationVars => SimulationInv'
<1> SUFFICES ASSUME SimulationInv, UNCHANGED simulationVars PROVE SimulationInv' OBVIOUS
<1>1. /\ rivals' = rivals /\ ourEquity' = ourEquity /\ current' = current /\ played' = played
      /\ held' = held /\ equity' = equity /\ mine' = mine /\ path' = path
      /\ base' = base /\ firstGap' = firstGap
  BY Zenon DEF simulationVars, input
<1>2. /\ Agents' = Agents /\ Explicit' = Explicit /\ Floor' = Floor
      /\ \A a : Leader(a)' = Leader(a)
      /\ CrowdSuffices' = CrowdSuffices
  BY <1>1 DEF Agents, Explicit, Floor, Leader, CrowdSuffices, Holders, Known
<1>3. SimulationTyped /\ PathsInv /\ PinnedInv BY DEF SimulationInv
<1>4. SimulationTyped' BY <1>1, <1>2, <1>3 DEF SimulationTyped
<1>5. PathsInv' BY <1>1, <1>3 DEF PathsInv
<1>6. PinnedInv' BY <1>1, <1>2, <1>3 DEF PinnedInv
<1>7. QED BY <1>4, <1>5, <1>6 DEF SimulationInv

LEMMA SimulationHolds == SimulationSpec => []SimulationInv
<1>1. SimulationInv /\ [SimulationNext]_simulationVars => SimulationInv'
  BY SimulationStep, SimulationUntouched
<1>2. QED BY <1>1, SimulationInitially, PTL DEF SimulationSpec

\* Of each equity above the last listed one as many agents have it as entries of
\* the ranking, whatever the crowd did before and however the sort breaks ties: what
\* the known holders have is taken out of the ranking once each, the rest goes
\* to the best of the crowd, one each, and everybody else ends at the floor or below.
THEOREM FieldIsPinned == SimulationSpec => []FieldIsRanking
<1>1. ASSUME SimulationInv PROVE FieldIsRanking
  <2> SUFFICES ASSUME played = Realized, CrowdSuffices
               PROVE  /\ \A x \in Values : x > Floor =>
                           Cardinality({a \in Agents : equity[a] = x})
                             = Cardinality({i \in DOMAIN rivals : rivals[i].value = x})
                      /\ \A a \in Explicit : equity[a] = Leader(a).value /\ held[a] = Leader(a).vehicle
                      /\ \A a \in Agents :
                           equity[a] \in {rivals[i].value : i \in DOMAIN rivals} \/ equity[a] < Floor
    BY DEF FieldIsRanking
  <2>1. PinnedInv BY <1>1 DEF SimulationInv
  <2>2. ASSUME NEW x \in Values, x > Floor
        PROVE  Cardinality({a \in Agents : equity[a] = x})
                 = Cardinality({i \in DOMAIN rivals : rivals[i].value = x})
    <3> DEFINE X == {x}
    <3>1. X \in SUBSET Int /\ \A y \in X : y > Floor BY <2>2, SimulationAssumption
    <3>2. Cardinality({a \in Agents : equity[a] \in X})
            = Cardinality({i \in DOMAIN rivals : rivals[i].value \in X})
      <4> HIDE DEF X
      <4>1. QED BY <2>1, <3>1 DEF PinnedInv
    <3>3. {a \in Agents : equity[a] \in X} = {a \in Agents : equity[a] = x}
          /\ {i \in DOMAIN rivals : rivals[i].value \in X} = {i \in DOMAIN rivals : rivals[i].value = x}
      OBVIOUS
    <3> HIDE DEF X
    <3>4. QED BY <3>2, <3>3
  <2>3. QED BY <2>1, <2>2 DEF PinnedInv
<1>2. QED BY <1>1, SimulationHolds, PTL

\* On the day of the decision every path of ours is our equity and ranks where the
\* ranking has us: the path and the base it is scaled by earned the same legs.
THEOREM StandingIsReproduced == SimulationSpec => []StandingReproduced
<1>1. ASSUME SimulationInv PROVE StandingReproduced
  <2> SUFFICES ASSUME played = Realized, CrowdSuffices, ourEquity >= Floor, firstGap = 0,
                      NEW c \in Vehicles
               PROVE  Better(c) = AheadOfUs /\ Ours(c) = ourEquity
    BY DEF StandingReproduced
  <2>1. SimulationTyped /\ PathsInv /\ PinnedInv BY <1>1 DEF SimulationInv
  <2>2. ourEquity \in Int /\ base \in Int /\ equity \in [Agents -> Int] /\ rivals \in Rankings
    BY <2>1 DEF SimulationTyped
  <2>3. played \in 1 .. Realized BY SimulationAssumption
  <2>4. path[c] = base - firstGap BY <2>1, <2>3 DEF PathsInv
  <2>5. Ours(c) = ourEquity BY <2>2, <2>4 DEF Ours
  <2> DEFINE X == {x \in Int : x > ourEquity}
  <2>6. Floor \in Int /\ \A i \in DOMAIN rivals : rivals[i].value \in Int BY <2>2, RankingIs
  <2>7. X \in SUBSET Int /\ \A x \in X : x > Floor BY <2>2, <2>6
  <2>8. Cardinality({a \in Agents : equity[a] \in X})
          = Cardinality({i \in DOMAIN rivals : rivals[i].value \in X})
    <3> HIDE DEF X
    <3>1. QED BY <2>1, <2>7 DEF PinnedInv
  <2>9. {a \in Agents : equity[a] \in X} = {a \in Agents : equity[a] > ourEquity} BY <2>2
  <2>10. {i \in DOMAIN rivals : rivals[i].value \in X} = {i \in DOMAIN rivals : rivals[i].value > ourEquity}
    BY <2>6
  <2> HIDE DEF X
  <2>11. QED BY <2>5, <2>8, <2>9, <2>10 DEF Better, AheadOfUs
<1>2. QED BY <1>1, SimulationHolds, PTL

=============================================================================
