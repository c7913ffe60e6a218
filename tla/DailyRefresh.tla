---------------------------- MODULE DailyRefresh ----------------------------
(***************************************************************************)
(* The live decision pipeline: `mt-etf daily-refresh --decide`, started by  *)
(* the systemd timer several times a day, and `mt-etf decide`, started by   *)
(* hand.  One run heals and ingests the two silver tables, passes the gap   *)
(* gate, rebuilds the gold features and then decides every session the      *)
(* sticky ledger has missed, in order, before the target session.  A        *)
(* decision reads the entry of the prior session, records its own entry in  *)
(* the ledger file and only then writes its card.                           *)
(*                                                                          *)
(* Sessions are numbered 1, 2, ...; a score is a nondeterministic choice of *)
(* what to hold.  The refresh holds the exclusive data lock for the whole   *)
(* run, so there is one at a time; `decide` takes no lock at all.           *)
(***************************************************************************)
EXTENDS Integers, FiniteSets

CONSTANTS
  MaxSession,   \* bound: sessions 1 .. MaxSession
  Backfilled,   \* sessions 1 .. Backfilled are in silver and gold at the start
  Lookback,     \* `--lookback-days`, counted in sessions
  HistoryMax,   \* STICKY_STATE_HISTORY_MAX
  Vehicles,     \* tickers the strategy may hold
  Cash,         \* `held = None`
  Listings,     \* the ways the vehicles may have rows in the sessions' data
  Refresh,      \* the process of the timer
  Operators,    \* processes of hand-started `decide` runs
  ManualKinds,  \* what they do: subset of {"recover", "redecide", "override"}
  Serial,       \* TRUE: a hand-started run never overlaps another run
  MaxManual,    \* bound: hand-started runs other than "recover"
  MaxFaults     \* bound: crashes and I/O failures

Sessions  == 1 .. MaxSession
Held      == Vehicles \union {Cash}
Processes == Operators \union {Refresh}

ASSUME BoundsAssumption ==
  /\ MaxSession \in Nat /\ Backfilled \in Sessions /\ Lookback \in Nat
  /\ HistoryMax \in Nat \ {0} /\ MaxManual \in Nat /\ MaxFaults \in Nat
ASSUME ProcessAssumption ==
  /\ Cash \notin Vehicles /\ Refresh \notin Operators
  /\ Listings \subseteq [Sessions -> SUBSET Vehicles]
  /\ ManualKinds \subseteq {"recover", "redecide", "override"}
  /\ Serial \in BOOLEAN

VARIABLES
  closed,   \* last session whose regular close has passed
  etf,      \* sessions in the ETF silver table
  idx,      \* sessions in the index silver table
  gold,     \* sessions in the gold feature table
  contest,  \* contest mode owns the decide step
  quoted,   \* the vehicles that have a row in each session's data, once it is there
  ledger,   \* data/state/<strategy>_position.json
  cards,    \* sessions with a decision card
  run,      \* the refresh run: its stage and local variables
  dec,      \* the cmd_decide call each process is in
  loaded,   \* the history its persist_sticky_state read back
  faults, manual

vars  == <<closed, etf, idx, gold, contest, quoted, ledger, cards, run, dec, loaded, faults, manual>>
data  == <<closed, etf, idx, gold, contest, quoted>>
spent == <<faults, manual>>

-----------------------------------------------------------------------------
(* The ledger file *)

Entry   == [held : Held, len : Nat]
NoEntry == [held |-> Cash, len |-> 0]

\* `history`: an entry for each recorded session.
IsHistory(h) == DOMAIN h \subseteq Sessions /\ h \in [DOMAIN h -> Entry]

NoHistory == [s \in {} |-> NoEntry]

Missing == [status |-> "missing", asOf |-> 0, history |-> NoHistory]
Torn    == [status |-> "torn", asOf |-> 0, history |-> NoHistory]

\* Variants named Bad... are faulty versions of the definition after them: each
\* shows that a property notices the fault.
LatestKey(h) == CHOOSE k \in DOMAIN h : \A j \in DOMAIN h : j <= k
Written(h)   == [status |-> "ok", asOf |-> LatestKey(h), history |-> h]

Put(h, s, e) == [k \in DOMAIN h \union {s} |-> IF k = s THEN e ELSE h[k]]
Newest(h)    == {k \in DOMAIN h : Cardinality({j \in DOMAIN h : j > k}) < HistoryMax}
Trim(h)      == [k \in Newest(h) |-> h[k]]

BadRecord(h, s, e) == [k \in {s} |-> e]

\* What one decision makes of the history it read back.
Record(h, s, e) == Trim(Put(h, s, e))

Readable == ledger.status = "ok"
History  == ledger.history

\* write_text truncates first: a process that overlaps another one's write may
\* find an empty file.
Writing(p) == dec[p].pc = "write"
Seen(p)    == {ledger} \union {Torn : q \in {q \in Processes \ {p} : Writing(q)}}

-----------------------------------------------------------------------------
(* Session grids and windows *)

Firsts(S) == {s \in S : \A x \in S : s <= x}
Lasts(S)  == {s \in S : \A x \in S : x <= s}

\* Sessions of the calendar missing since a table's own first one.
MissingFrom(have, end) ==
  {s \in 1 .. end : s \notin have /\ \E x \in have : x < s}

BadIngestWindow(end) == {s \in 1 .. end : end - Lookback <= s}

\* The lookback, extended back to the earliest session missing from a table.
IngestWindow(end) ==
  LET missing == MissingFrom(etf, end) \union MissingFrom(idx, end) IN
  {s \in 1 .. end : end - Lookback <= s \/ \E m \in missing : m <= s}

\* The panel is loaded only when gold holds every silver row.
PanelLoads == etf \subseteq gold

BadStale == {s \in idx \ etf : FALSE}

\* Sessions the index table knows and the ETF table lacks, its newest excepted.
Stale == {s \in idx \ etf : \E x \in idx : s < x}

Pending(end) ==
  IF ledger.status = "missing" THEN {} ELSE {s \in etf : ledger.asOf < s /\ s < end}

-----------------------------------------------------------------------------
(* One decision: cmd_decide *)

IdleRun == [stage |-> "idle", end |-> 0, window |-> {}, todo |-> {}]
IdleDec == [pc |-> "idle", session |-> 0, override |-> {}, entry |-> NoEntry]

Deciding(s, override) ==
  [pc |-> "read", session |-> s, override |-> override, entry |-> NoEntry]

Idle(p)   == dec[p].pc = "idle"
AllIdle   == run.stage = "idle" /\ \A p \in Processes : Idle(p)

\* The process ends: cmd_decide returned 1, or it crashed.  The refresh stops
\* at its first failed decision.
Abandon(p) ==
  /\ dec' = [dec EXCEPT ![p] = IdleDec]
  /\ loaded' = [loaded EXCEPT ![p] = NoHistory]
  /\ run' = IF p = Refresh THEN IdleRun ELSE run

\* cmd_decide returned 0: the refresh goes on with its next session.
Return(p) ==
  LET rest == run.todo \ {dec[p].session} IN
  IF p = Refresh /\ rest # {}
    THEN /\ \E s \in Firsts(rest) : dec' = [dec EXCEPT ![p] = Deciding(s, {})]
         /\ run' = [run EXCEPT !.todo = rest]
         /\ loaded' = [loaded EXCEPT ![p] = NoHistory]
    ELSE Abandon(p)

Fault == faults < MaxFaults /\ faults' = faults + 1

NextHoldLen(prior, held) ==
  IF held = Cash THEN 0 ELSE IF held = prior.held THEN prior.len + 1 ELSE 1

\* `--held X`: the operator's word for the prior position.
Overridden(held) == [held |-> held, len |-> IF held = Cash THEN 0 ELSE 1]

\* The newest entry, whatever session it is for.
BadLatestEntry(l, s) ==
  IF {x \in etf : x < s} = {} THEN {NoEntry}
  ELSE {l.history[x] : x \in Lasts(DOMAIN l.history)}

\* An unrecorded prior session counts as CASH.
BadCashFallback(l, s) ==
  LET found == Lasts({x \in etf : x < s}) \intersect DOMAIN l.history IN
  IF found = {} THEN {NoEntry} ELSE {l.history[x] : x \in found}

\* The entries resolve_prior_sticky_state may return on a file l, none when it
\* raises StateDiscontinuityError.
PriorEntries(l, s) ==
  LET earlier == {x \in etf : x < s} IN
  IF earlier = {} THEN {NoEntry}
  ELSE {l.history[x] : x \in Lasts(earlier) \intersect DOMAIN l.history}

Priors(p, l) ==
  IF dec[p].override # {} THEN {Overridden(h) : h \in dec[p].override}
  ELSE PriorEntries(l, dec[p].session)

\* Panel and index rows of the decision date must be there.
InputsFresh(s) == PanelLoads /\ s \in etf /\ s \in idx

\* The panel has a row of the ticker on the decision date.
Quoted(s, held) == held \in quoted[s] \union {Cash}

\* The live limits look up the name of the held ticker and of the new one, unless
\* the model wants CASH.
ReadPrior(p) ==
  /\ dec[p].pc = "read"
  /\ InputsFresh(dec[p].session)
  /\ \E l \in Seen(p), held \in Held :
       \E prior \in Priors(p, l) :
         /\ held = Cash \/ (Quoted(dec[p].session, prior.held) /\ Quoted(dec[p].session, held))
         /\ dec' = [dec EXCEPT ![p].pc = "load",
                               ![p].entry = [held |-> held, len |-> NextHoldLen(prior, held)]]
  /\ UNCHANGED <<data, ledger, cards, run, loaded, spent>>

\* Stale inputs, no entry for the prior session, or a held ticker that has no row
\* on the decision date: nothing is recorded.
Refuse(p) ==
  /\ dec[p].pc = "read"
  /\ \/ ~ InputsFresh(dec[p].session)
     \/ \E l \in Seen(p) :
          \/ Priors(p, l) = {}
          \/ \E prior \in Priors(p, l) : ~ Quoted(dec[p].session, prior.held)
  /\ Abandon(p)
  /\ UNCHANGED <<data, ledger, cards, spent>>

\* persist_sticky_state reads the file again; an unreadable one restarts history.
LoadHistory(p) ==
  /\ dec[p].pc = "load"
  /\ dec' = [dec EXCEPT ![p].pc = "write"]
  /\ \E l \in Seen(p) : loaded' = [loaded EXCEPT ![p] = l.history]
  /\ UNCHANGED <<data, ledger, cards, run, spent>>

\* write_text of the whole payload.  Another writer at work may leave the two
\* payloads mixed, which no longer parses.
Persist(p) ==
  /\ Writing(p)
  /\ \/ ledger' = Written(Record(loaded[p], dec[p].session, dec[p].entry))
     \/ (\E q \in Processes \ {p} : Writing(q)) /\ ledger' = Torn
  /\ dec' = [dec EXCEPT ![p].pc = "card"]
  /\ UNCHANGED <<data, cards, run, loaded, spent>>

\* An OSError is logged and swallowed: open failed, or the disk was full after
\* the truncation.
PersistFails(p) ==
  /\ Writing(p) /\ Fault
  /\ ledger' \in {ledger, Torn}
  /\ dec' = [dec EXCEPT ![p].pc = "card"]
  /\ UNCHANGED <<data, cards, run, loaded, manual>>

WriteCard(p) ==
  /\ dec[p].pc = "card"
  /\ cards' = cards \union {dec[p].session}
  /\ Return(p)
  /\ UNCHANGED <<data, ledger, spent>>

\* A failed artifact write is swallowed (rc 0); a failed order estimate is not.
CardFails(p) ==
  /\ dec[p].pc = "card" /\ Fault
  /\ Return(p) \/ Abandon(p)
  /\ UNCHANGED <<data, ledger, cards, manual>>

Crash(p) ==
  /\ ~ Idle(p) \/ (p = Refresh /\ run.stage # "idle")
  /\ Fault
  /\ IF Writing(p) THEN ledger' \in {ledger, Torn} ELSE UNCHANGED ledger
  /\ Abandon(p)
  /\ UNCHANGED <<data, cards, manual>>

DecideStep(p) ==
  ReadPrior(p) \/ Refuse(p) \/ LoadHistory(p) \/ Persist(p) \/ WriteCard(p)

-----------------------------------------------------------------------------
(* The refresh run: cmd_daily_refresh *)

StartRun ==
  /\ run.stage = "idle"
  /\ Serial => AllIdle
  /\ run' = [stage |-> "etf", end |-> closed, window |-> IngestWindow(closed), todo |-> {}]
  /\ UNCHANGED <<data, ledger, cards, dec, loaded, spent>>

\* Sessions asked for and answered with rows: those not yet published, failed
\* or deferred by the quota are asked for again by a later run.
Asked(have) == run.window \ have

IngestEtf(got) ==
  /\ run.stage = "etf" /\ got \subseteq Asked(etf)
  /\ etf' = etf \union got
  /\ run' = [run EXCEPT !.stage = "idx"]
  /\ UNCHANGED <<closed, idx, gold, contest, quoted, ledger, cards, dec, loaded, spent>>

IngestIdx(got) ==
  /\ run.stage = "idx" /\ got \subseteq Asked(idx)
  /\ idx' = idx \union got
  /\ run' = [run EXCEPT !.stage = "gate"]
  /\ UNCHANGED <<closed, etf, gold, contest, quoted, ledger, cards, dec, loaded, spent>>

GapGate ==
  /\ run.stage = "gate"
  /\ run' = IF etf = {} \/ idx = {} \/ Stale # {} THEN IdleRun
            ELSE [run EXCEPT !.stage = "features"]
  /\ UNCHANGED <<data, ledger, cards, dec, loaded, spent>>

BuildFeatures ==
  /\ run.stage = "features"
  /\ gold' = etf
  /\ run' = IF contest THEN IdleRun ELSE [run EXCEPT !.stage = "plan"]
  /\ UNCHANGED <<closed, etf, idx, contest, quoted, ledger, cards, dec, loaded, spent>>

PlanCatchup ==
  /\ run.stage = "plan"
  /\ \E l \in Seen(Refresh) :
       IF l.status = "torn" \/ ~ PanelLoads
         THEN run' = IdleRun /\ UNCHANGED dec
         ELSE LET todo == Pending(run.end) \union {run.end} IN
              /\ run' = [run EXCEPT !.stage = "decide", !.todo = todo]
              /\ \E s \in Firsts(todo) : dec' = [dec EXCEPT ![Refresh] = Deciding(s, {})]
  /\ UNCHANGED <<data, ledger, cards, loaded, spent>>

RefreshStep ==
  \/ \E got \in SUBSET Sessions : IngestEtf(got) \/ IngestIdx(got)
  \/ GapGate \/ BuildFeatures \/ PlanCatchup

-----------------------------------------------------------------------------
(* The operator and the clock *)

ManualStart(p, kind, s, override) ==
  /\ Idle(p) /\ s \in 1 .. closed
  /\ Serial => AllIdle
  /\ dec' = [dec EXCEPT ![p] = Deciding(s, override)]
  /\ IF kind = "recover" THEN UNCHANGED manual
     ELSE manual < MaxManual /\ manual' = manual + 1
  /\ UNCHANGED <<data, ledger, cards, run, loaded, faults>>

\* `decide --date s --held X` on a missing or unreadable ledger.
Reseed(p, s, held) ==
  "recover" \in ManualKinds /\ ~ Readable /\ ManualStart(p, "recover", s, {held})

Recover(p, s) == \E held \in Held : Reseed(p, s, held)

\* `decide --date s`, and the same with `--held` on a readable ledger.
Redecide(p, s) == "redecide" \in ManualKinds /\ ManualStart(p, "redecide", s, {})
Override(p, s) ==
  /\ "override" \in ManualKinds /\ Readable
  /\ \E held \in Held : ManualStart(p, "override", s, {held})

CloseSession ==
  /\ closed < MaxSession
  /\ closed' = closed + 1
  /\ UNCHANGED <<etf, idx, gold, contest, quoted, ledger, cards, run, dec, loaded, spent>>

EndContest ==
  /\ contest
  /\ contest' = FALSE
  /\ UNCHANGED <<closed, etf, idx, gold, quoted, ledger, cards, run, dec, loaded, spent>>

Init ==
  /\ closed = Backfilled
  /\ etf = 1 .. Backfilled /\ idx = 1 .. Backfilled /\ gold = 1 .. Backfilled
  /\ contest \in BOOLEAN /\ quoted \in Listings
  /\ ledger = Missing
  /\ cards = {}
  /\ run = IdleRun
  /\ dec = [p \in Processes |-> IdleDec]
  /\ loaded = [p \in Processes |-> NoHistory]
  /\ faults = 0 /\ manual = 0

Next ==
  \/ StartRun \/ RefreshStep
  \/ \E p \in Processes : DecideStep(p) \/ PersistFails(p) \/ CardFails(p) \/ Crash(p)
  \/ \E p \in Operators, s \in Sessions : Recover(p, s) \/ Redecide(p, s) \/ Override(p, s)
  \/ CloseSession \/ EndContest

Spec == Init /\ [][Next]_vars

\* The timer keeps firing, a started run goes on, KRX publishes every session
\* sooner or later, and the operator re-seeds a ledger that cannot be read, for a
\* session whose data is there and with a position that it has a row of.
Fairness ==
  /\ SF_vars(StartRun) /\ WF_vars(RefreshStep)
  /\ \A s \in Sessions \ (1 .. Backfilled) :
       /\ SF_vars(\E got \in SUBSET Sessions : s \in got /\ IngestEtf(got))
       /\ SF_vars(\E got \in SUBSET Sessions : s \in got /\ IngestIdx(got))
  /\ \A p \in Processes : WF_vars(DecideStep(p))
  /\ \A p \in Operators :
       SF_vars(\E s \in Sessions, held \in Held :
                 InputsFresh(s) /\ Quoted(s, held) /\ Reseed(p, s, held))
  /\ WF_vars(CloseSession) /\ WF_vars(EndContest)

FairSpec == Spec /\ Fairness

-----------------------------------------------------------------------------
(* Properties *)

Runs == [stage : {"idle", "etf", "idx", "gate", "features", "plan", "decide"},
         end : 0 .. MaxSession, window : SUBSET Sessions, todo : SUBSET Sessions]
Calls == [pc : {"idle", "read", "load", "write", "card"},
          session : 0 .. MaxSession, override : SUBSET Held, entry : Entry]

DataOK ==
  /\ closed \in Sessions /\ contest \in BOOLEAN /\ quoted \in [Sessions -> SUBSET Vehicles]
  /\ etf \subseteq Sessions /\ idx \subseteq Sessions /\ gold \subseteq etf
  /\ cards \subseteq Sessions

\* `as_of` names the newest recorded session.
LedgerOK ==
  /\ ledger.status \in {"missing", "torn", "ok"} /\ ledger.asOf \in 0 .. MaxSession
  /\ IsHistory(History)
  /\ Readable <=> DOMAIN History # {}
  /\ Readable => ledger.asOf \in DOMAIN History
  /\ \A k \in DOMAIN History : k <= ledger.asOf

\* The refresh is in a decision only in its decide stage.
CallsOK ==
  /\ run \in Runs
  /\ run.stage = "idle" \/ run.end \in Sessions
  /\ dec \in [Processes -> Calls]
  /\ \A p \in Processes : Idle(p) \/ dec[p].session \in Sessions
  /\ loaded = [p \in Processes |-> loaded[p]] /\ \A p \in Processes : IsHistory(loaded[p])
  /\ Idle(Refresh) \/ run.stage = "decide"

\* Types of the tables, the ledger file and the processes' local variables.
TypeOK == DataOK /\ LedgerOK /\ CallsOK /\ faults \in Nat /\ manual \in Nat

Consecutive(p, s) ==
  /\ p \in DOMAIN History /\ s \in DOMAIN History /\ p < s
  /\ ~ \E x \in DOMAIN History : p < x /\ x < s

\* Whatever the crashes, retries, late sessions and repeated slots, two
\* consecutive ledger entries are one decision apart: the later one was derived
\* from the earlier one, counting each session once, as long as no operator has
\* decided anew or overridden a session by hand.
ChainContinuity ==
  manual = 0 => \A p, s \in Sessions :
    Consecutive(p, s) => History[s].len = NextHoldLen(History[p], History[s].held)

\* A session decided into a card but lost from the ledger (a swallowed write
\* error) is never overtaken: no later session is recorded over the hole, as long
\* as no operator has decided anew or overridden a session by hand.
CardsNeverOvertaken ==
  Readable /\ manual = 0 => \A s \in cards \ DOMAIN History :
                s > ledger.asOf \/ \A k \in DOMAIN History : s < k

\* The ledger never rewinds while it stays readable (persist_sticky_state).
NeverRewinds ==
  [][Readable /\ Readable' => ledger'.asOf >= ledger.asOf]_ledger

\* A new latest session is recorded only when neither table knows a session
\* between it and the one recorded before: catch-up skips nothing that the
\* witness table says KRX traded.  (By hand an operator may decide any session.)
NoWitnessedSkip ==
  [][Readable /\ Readable' /\ manual = 0 =>
       ~ \E x \in etf \union idx : ledger.asOf < x /\ x < ledger'.asOf]_ledger

\* The session after the last recorded one has no row of what is held: its decision
\* is refused until the model wants CASH there or the operator says what is held.
Blocked ==
  \E s \in Sessions : s = ledger.asOf + 1 /\ ~ Quoted(s, History[ledger.asOf].held)

\* Gap healing, the gate, catch-up and retries together bring the ledger to the
\* last session and keep it there, whatever failed on the way, or as far as a
\* session in which what is held has no row: nothing else stops the pipeline.
LedgerCatchesUp == <>[](Readable /\ (ledger.asOf = MaxSession \/ Blocked))

=============================================================================
