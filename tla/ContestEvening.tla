--------------------------- MODULE ContestEvening ---------------------------
(***************************************************************************)
(* The evening of a contest session: contest-archive keeps the ranking, and *)
(* contest_daily.sh runs contest-daily (quotes, shadow card, metrics row,   *)
(* adoption gates) and then contest-segment (equity ledger, card for the    *)
(* next session), up to three times an evening.  The next morning the       *)
(* operator trades by the segment card.                                     *)
(*                                                                          *)
(* Sessions are numbered from 1; session 0 stands for `no previous session`.*)
(* Prices are abstracted to which tickers have a bar and to which of the    *)
(* voting ones closed lower.  A ranking is abstracted to whether it lists   *)
(* us and to whether G1 counts its day; it is longer than the prize rank.   *)
(* What the commands read of a session only on its own evening is kept for  *)
(* the current session alone.                                               *)
(***************************************************************************)
EXTENDS Integers, Sequences, FiniteSets, Functions

CONSTANTS
  LastSession,  \* bound: sessions 1 .. LastSession
  EndDate,      \* contest.end_date
  StartSession, GateSession,  \* shadow.start_session, shadow.gate_session
  Segment,      \* contest.segment: tickers, vote, windows in minutes, cost, prize rank
  G1Window, G1MinDays, G3MaxNoData,  \* shadow.gates
  Moves,        \* bound: sets of voting tickers that may close lower on a day
  Identified,   \* may the identified share reach G1's threshold: a set of booleans
  Anchors,      \* the operator enters `--our-return` on some evenings
  MaxCrashes    \* bound: crashes

Sessions == 1 .. LastSession
Sides    == {"LONG", "SHORT"}
Vote     == Range(Segment.vote)
Mirror   == {Segment.long, Segment.inverse}
Tickers  == Vote \union Mirror

\* Windows lie between the two auctions: 09:01 and 15:19.
WindowOK(w) == 9 * 60 + 1 <= w.start /\ w.start < w.end /\ w.end <= 15 * 60 + 19

\* What SegmentSettings.load accepts; both evening commands stop at anything else.
SegmentOK(s) ==
  /\ s.long # s.inverse /\ s.longAlias # s.inverseAlias
  /\ DOMAIN s.vote # {} /\ IsInjective(s.vote)
  /\ s.voteMinDown \in 1 .. Cardinality(DOMAIN s.vote)
  /\ WindowOK(s.openWindow) /\ WindowOK(s.closeWindow) /\ s.openWindow.end <= s.closeWindow.start
  /\ s.costBps \in 0 .. 99
  /\ s.prizeRank \in Nat \ {0} /\ s.endgameSessions \in Nat \ {0}

ASSUME ContestAssumption ==
  /\ LastSession \in Nat \ {0} /\ EndDate \in Nat /\ StartSession \in Nat /\ GateSession \in Nat
  /\ SegmentOK(Segment)
  /\ G1Window \in Nat /\ G1MinDays \in Nat /\ G3MaxNoData \in Nat
  /\ Moves \subseteq SUBSET Vote /\ Moves # {}
  /\ Identified \subseteq BOOLEAN /\ Identified # {}
  /\ Anchors \in BOOLEAN /\ MaxCrashes \in Nat

VARIABLES
  day, phase,  \* the current session and whether it is "trading" or "evening"
  falls,       \* voting tickers that closed lower today
  executed,    \* side the operator held intraday in each session
  board,       \* archived ranking of the day: "absent", "unlisted" or "listed" (us)
  quotes,      \* archived bars of the day, or Absent
  daily,       \* shadow card of each session: [action, gate]
  rows,        \* metrics.jsonl
  seg,         \* segment card of each session
  standing,    \* what the day's segment card says of our distance to the prize line
  ledger,      \* data/state/contest_segment_equity.json
  task,        \* the command in progress
  crashes

vars   == <<day, phase, falls, executed, board, quotes, daily, rows, seg,
            standing, ledger, task, crashes>>
nature == <<day, phase, falls, executed>>
shadow == <<quotes, daily, rows>>
plan   == <<seg, standing, ledger>>

Absent   == {"absent"}
NoCard   == [action |-> "none", gate |-> "PENDING"]
NoLedger == [asOf |-> 0, source |-> "none", anchor |-> 0, legs |-> <<>>]
NoPlan   == [action |-> "none", standing |-> "unknown"]
Idle     == [pc |-> "idle", user |-> FALSE, row |-> [session |-> 0, action |-> "none", good |-> FALSE],
             card |-> NoCard, plan |-> NoPlan, next |-> NoLedger]
AtSegment == [Idle EXCEPT !.pc = "segment"]

-----------------------------------------------------------------------------
(* Adoption gates: evaluate_gates *)

MetricRow(s, action, good) == [session |-> s, action |-> action, good |-> good]
InShadow(row, s)       == StartSession <= row.session /\ row.session <= s
Counted(rs, s, action) == {i \in DOMAIN rs : InShadow(rs[i], s) /\ rs[i].action = action}
After(rs, i, j)        == rs[i].session < rs[j].session \/ (rs[i].session = rs[j].session /\ i < j)

\* G1 looks at the last G1Window RECORD rows, G3 at every NO_DATA row.
G1Rows(rs, s) == LET recorded == Counted(rs, s, "RECORD") IN
  {i \in recorded : Cardinality({j \in recorded : After(rs, i, j)}) < G1Window}

Gate(rs, s) ==
  IF s < GateSession THEN "PENDING"
  ELSE IF /\ Cardinality({i \in G1Rows(rs, s) : rs[i].good}) >= G1MinDays
          /\ Cardinality(Counted(rs, s, "NO_DATA")) <= G3MaxNoData
    THEN "ADOPT" ELSE "KEEP_STATIC"

\* The rows of other sessions, in their order.
Others(rs, s) ==
  LET kept[n \in 0 .. Len(rs)] ==
        IF n = 0 THEN <<>>
        ELSE IF rs[n].session = s THEN kept[n - 1] ELSE Append(kept[n - 1], rs[n])
  IN  kept[Len(rs)]

Upserted(rs, row) == Append(Others(rs, row.session), row)

-----------------------------------------------------------------------------
(* Equity ledger: advance_ledger *)

Anchor(s, source) == [asOf |-> s, source |-> source, anchor |-> s, legs |-> <<>>]

\* session_policy_multiple needs the long bar, and the inverse one on SHORT.
Priced(side, bars) == Segment.long \in bars /\ (side = "SHORT" => Segment.inverse \in bars)

Compound(prev, s, side) ==
  [prev EXCEPT !.asOf = s, !.source = "LEDGER", !.legs = Append(@, [session |-> s, side |-> side])]

\* Variants named Bad... are faulty versions of the definition after them.
BadAdvance(prev, s, side, bars, user, row) ==
  CASE prev.asOf > s -> prev
    [] prev.asOf <= s /\ user -> Anchor(s, "USER")
    [] prev.asOf <= s /\ ~ user /\ row -> Anchor(s, "LEADERBOARD")
    [] OTHER -> IF prev = NoLedger \/ side = "none" \/ ~ Priced(side, bars)
                  THEN prev ELSE Compound(prev, s, side)

Advance(prev, s, side, bars, user, row) ==
  CASE prev.asOf > s -> prev
    [] prev.asOf <= s /\ user -> Anchor(s, "USER")
    [] prev.asOf <= s /\ ~ user /\ row -> Anchor(s, "LEADERBOARD")
    [] OTHER -> IF prev = NoLedger \/ prev.asOf # s - 1 \/ side = "none" \/ ~ Priced(side, bars)
                  THEN prev ELSE Compound(prev, s, side)

\* Our row counts only in a ranking dated the session.
ListsUs(visible) == visible = "listed"

\* Where we stand: the growth to the prize line is known when the ranking and our
\* equity are both of the session; an older equity is only reported as stale.
Standing(visible, state, s) ==
  CASE state = NoLedger -> "unknown"
    [] state # NoLedger /\ state.asOf # s -> "stale"
    [] OTHER -> IF visible = "absent" THEN "equity" ELSE "required"

\* A NO_DATA card leaves the side to the operator: unknown.
ExecutedSide(card) == CASE card = "HOLD_LONG" -> "LONG"
                        [] card = "SWITCH_SHORT" -> "SHORT"
                        [] OTHER -> "none"

-----------------------------------------------------------------------------
(* The vote: decide_intraday_side *)

Change(ticker, bars) ==
  IF ticker \notin bars THEN "none" ELSE IF ticker \in falls THEN "down" ELSE "up"

\* The close-to-close moves reverse: enough falls call for a long session.  One
\* missing vote and the card decides nothing.
IntradaySide(bars) ==
  IF \E t \in Vote : Change(t, bars) = "none" THEN "none"
  ELSE IF Cardinality({t \in Vote : Change(t, bars) = "down"}) >= Segment.voteMinDown
    THEN "LONG" ELSE "SHORT"

-----------------------------------------------------------------------------
(* Calendar, market, operator and contest site *)

Open ==
  /\ day < LastSession /\ phase = "evening" /\ task = Idle
  /\ day' = day + 1 /\ phase' = "trading"
  /\ board' = "absent" /\ quotes' = Absent /\ falls' = {} /\ standing' = "unknown"
  /\ \E side \in Sides :
       /\ day > 0 /\ ExecutedSide(seg[day]) # "none" => side = ExecutedSide(seg[day])
       /\ executed' = [executed EXCEPT ![day + 1] = side]
  /\ UNCHANGED <<daily, rows, seg, ledger, task, crashes>>

Close ==
  /\ phase = "trading"
  /\ phase' = "evening"
  /\ falls' \in Moves
  /\ UNCHANGED <<day, executed, board, shadow, plan, task, crashes>>

\* contest-archive keeps the ranking of the day (LeaderboardArchive).
ArchiveBoard(visible) ==
  /\ phase = "evening" /\ day > 0 /\ board = "absent"
  /\ board' = visible
  /\ UNCHANGED <<nature, shadow, plan, task, crashes>>

-----------------------------------------------------------------------------
(* contest-daily *)

Goto(pc) == task' = [task EXCEPT !.pc = pc]

\* The timer starts both commands, the operator only contest-segment.
Start ==
  /\ task.pc = "idle" /\ phase = "evening" /\ day > 0
  /\ \/ Goto("daily")
     \/ Anchors /\ task' = [task EXCEPT !.pc = "segment", !.user = TRUE]
  /\ UNCHANGED <<nature, board, shadow, plan, crashes>>

\* A card with data is final.
SkipDaily ==
  /\ task.pc = "daily" /\ daily[day].action \notin {"none", "NO_DATA"}
  /\ task' = AtSegment
  /\ UNCHANGED <<nature, board, shadow, plan, crashes>>

\* Bars are archived, for good, once both mirror sides are among them.
Captured(got) == IF quotes = Absent /\ Mirror \subseteq got THEN got ELSE quotes

\* The quote service may lack any ticker's bar, of the session or of the one before.
FetchQuotes(got) ==
  /\ task.pc = "daily" /\ daily[day].action \in {"none", "NO_DATA"}
  /\ quotes' = Captured(got)
  /\ Goto("build")
  /\ UNCHANGED <<nature, board, daily, rows, plan, crashes>>

\* build_daily_card judges the gates on the rows on disk and its own new row.
BuildDaily(good) ==
  LET action == IF day > EndDate THEN "CONTEST_OVER"
                ELSE IF board # "absent" /\ Mirror \subseteq quotes THEN "RECORD" ELSE "NO_DATA"
      row == MetricRow(day, action, good /\ action = "RECORD") IN
  /\ task.pc = "build"
  /\ task' = [task EXCEPT !.pc = "card", !.row = row,
                          !.card = [action |-> action, gate |-> Gate(Append(rows, row), day)]]
  /\ UNCHANGED <<nature, board, shadow, plan, crashes>>

BadWriteDaily ==
  /\ task.pc = "card"
  /\ daily' = IF daily[day] = NoCard THEN [daily EXCEPT ![day] = task.card] ELSE daily
  /\ Goto("metric")
  /\ UNCHANGED <<nature, board, quotes, rows, plan, crashes>>

WriteDaily ==
  /\ task.pc = "card"
  /\ daily' = [daily EXCEPT ![day] = task.card]
  /\ Goto("metric")
  /\ UNCHANGED <<nature, board, quotes, rows, plan, crashes>>

UpsertMetric ==
  /\ task.pc = "metric"
  /\ rows' = Upserted(rows, task.row)
  /\ task' = AtSegment
  /\ UNCHANGED <<nature, board, quotes, daily, plan, crashes>>

-----------------------------------------------------------------------------
(* contest-segment *)

SkipSegment ==
  /\ task.pc = "segment" /\ ~ task.user /\ seg[day] \notin {"none", "NO_DATA"}
  /\ task' = Idle
  /\ UNCHANGED <<nature, board, shadow, plan, crashes>>

PreviousCard == IF day = 1 THEN "none" ELSE seg[day - 1]

\* Archived bars are used as they are; only a day without them is fetched again.
SegmentBars(got) == IF quotes = Absent THEN got ELSE quotes

NextLedger(bars) == Advance(ledger, day, ExecutedSide(PreviousCard), bars, task.user, ListsUs(board))

SegmentAction(bars) ==
  IF day >= EndDate THEN "CONTEST_OVER"
  ELSE CASE IntradaySide(bars) = "none"  -> "NO_DATA"
         [] IntradaySide(bars) = "LONG"  -> "HOLD_LONG"
         [] IntradaySide(bars) = "SHORT" -> "SWITCH_SHORT"

BuildSegment(got) ==
  /\ task.pc = "segment" /\ (task.user \/ seg[day] \in {"none", "NO_DATA"})
  /\ LET bars == SegmentBars(got) IN
     task' = [task EXCEPT
       !.pc = "ledger",
       !.next = NextLedger(bars),
       !.plan = [action |-> SegmentAction(bars), standing |-> Standing(board, NextLedger(bars), day)]]
  /\ UNCHANGED <<nature, board, shadow, plan, crashes>>

WriteLedger ==
  /\ task.pc = "ledger"
  /\ ledger' = task.next
  /\ Goto("plan")
  /\ UNCHANGED <<nature, board, shadow, seg, standing, crashes>>

WriteSegment ==
  /\ task.pc = "plan"
  /\ seg' = [seg EXCEPT ![day] = task.plan.action] /\ standing' = task.plan.standing
  /\ task' = Idle
  /\ UNCHANGED <<nature, board, shadow, ledger, crashes>>

\* The machine stops, or one command fails: the script goes on after contest-daily.
\* Rewriting metrics.jsonl in place may stop after any of its lines.
Crash ==
  /\ task.pc # "idle" /\ crashes < MaxCrashes
  /\ crashes' = crashes + 1
  /\ rows' \in {rows} \union
       {SubSeq(Upserted(rows, task.row), 1, n) : n \in IF task.pc = "metric" THEN 0 .. Len(rows) ELSE {}}
  /\ task' = Idle \/ (task.pc \in {"daily", "build", "card", "metric"} /\ task' = AtSegment)
  /\ UNCHANGED <<nature, board, quotes, daily, plan>>

Step ==
  \/ SkipDaily \/ WriteDaily \/ UpsertMetric \/ SkipSegment \/ WriteLedger \/ WriteSegment
  \/ \E got \in SUBSET Tickers : FetchQuotes(got) \/ BuildSegment(got)
  \/ \E good \in Identified : BuildDaily(good)

Init ==
  /\ day = 0 /\ phase = "evening"
  /\ falls = {} /\ executed = [s \in Sessions |-> "LONG"]
  /\ board = "absent" /\ quotes = Absent
  /\ daily = [s \in Sessions |-> NoCard]
  /\ rows = <<>>
  /\ seg = [s \in Sessions |-> "none"] /\ standing = "unknown"
  /\ ledger = NoLedger
  /\ task = Idle /\ crashes = 0

Next ==
  \/ Open \/ Close \/ (\E visible \in {"unlisted", "listed"} : ArchiveBoard(visible))
  \/ Start \/ Step \/ Crash

Spec == Init /\ [][Next]_vars

-----------------------------------------------------------------------------
(* Properties *)

Verdicts == {"PENDING", "ADOPT", "KEEP_STATIC"}
Dated    == {"CONTEST_OVER", "RECORD", "NO_DATA"}
Cards    == [action : Dated \union {"none"}, gate : Verdicts]
Row      == [session : Sessions, action : Dated, good : BOOLEAN]
Plans    == {"none", "CONTEST_OVER", "NO_DATA", "HOLD_LONG", "SWITCH_SHORT"}
Standings == {"unknown", "stale", "equity", "required"}

LedgerOK(l) ==
  /\ l.asOf \in 0 .. LastSession /\ l.anchor \in 0 .. LastSession
  /\ l.source \in {"none", "USER", "LEADERBOARD", "LEDGER"}
  /\ l.legs \in Seq([session : Sessions, side : Sides])

\* The types of what the commands read and write; in particular no ledger is ever
\* dated after the last session and every row has the fields the gates read.
TypeOK ==
  /\ day \in 0 .. LastSession /\ phase \in {"trading", "evening"}
  /\ falls \subseteq Vote /\ executed \in [Sessions -> Sides]
  /\ board \in {"absent", "unlisted", "listed"}
  /\ quotes \in {Absent} \union SUBSET Tickers
  /\ daily \in [Sessions -> Cards] /\ rows \in Seq(Row)
  /\ seg \in [Sessions -> Plans] /\ standing \in Standings /\ LedgerOK(ledger)
  /\ task.pc \in {"idle", "daily", "build", "card", "metric", "segment", "ledger", "plan"}
  /\ task.user \in BOOLEAN /\ task.plan \in [action : Plans, standing : Standings] /\ task.card \in Cards /\ LedgerOK(task.next)
  /\ task.pc \in {"card", "metric"} => task.row \in Row
  /\ crashes \in 0 .. MaxCrashes

\* The estimate compounds each session since the last anchor exactly once, with
\* the side the operator really held: retries, crashes between ledger and card,
\* missed evenings and NO_DATA cards never make it compound a guess.  A card that
\* says where we stand says it of the day's equity, whatever was written since.
EstimateIsHonest ==
  /\ ledger.asOf = ledger.anchor + Len(ledger.legs)
  /\ \A i \in DOMAIN ledger.legs :
       LET leg == ledger.legs[i] IN leg.session = ledger.anchor + i /\ leg.side = executed[leg.session]
  /\ standing \in {"equity", "required"} => ledger.asOf = day
  /\ standing = "required" => board # "absent"

\* metrics.jsonl keeps one row per session, and a row never claims data its card
\* lacks, wherever a run stopped.
RowsFollowCards ==
  /\ \A i, j \in DOMAIN rows : rows[i].session = rows[j].session => i = j
  /\ \A i \in DOMAIN rows : rows[i].action = "RECORD" => daily[rows[i].session].action = "RECORD"

=============================================================================
