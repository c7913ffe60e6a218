------------------------- MODULE DailyRefreshProofs -------------------------
(***************************************************************************)
(* Proofs about DailyRefresh for every number of sessions, vehicles and     *)
(* operators, every history bound and every number of faults: types; and,   *)
(* while hand-started runs overlap no other, that the ledger never rewinds, *)
(* that no session is skipped over a known one, that the chain of hold       *)
(* lengths has no break and that no card is overtaken.                      *)
(***************************************************************************)
EXTENDS DailyRefresh, FiniteSetTheorems, TLAPS

(***************************************************************************)
(* Lemmas about the ledger file                                             *)
(***************************************************************************)

\* A history is empty or has a newest session.
HasLatest(h) == DOMAIN h = {} \/ \E m \in DOMAIN h : \A k \in DOMAIN h : k <= m

LEMMA PutType ==
  ASSUME NEW h, IsHistory(h), NEW s \in Sessions, NEW e \in Entry, HasLatest(h)
  PROVE  /\ IsHistory(Put(h, s, e))
         /\ DOMAIN Put(h, s, e) = DOMAIN h \union {s}
         /\ \E m \in DOMAIN Put(h, s, e) : \A k \in DOMAIN Put(h, s, e) : k <= m
<1>1. DOMAIN Put(h, s, e) = DOMAIN h \union {s} BY DEF Put
<1>2. IsHistory(Put(h, s, e))
  BY <1>1 DEF Put, IsHistory
<1>3. CASE DOMAIN h = {}
  BY <1>1, <1>2, <1>3 DEF Sessions
<1>4. CASE DOMAIN h # {}
  <2>1. PICK m \in DOMAIN h : \A k \in DOMAIN h : k <= m
    BY <1>4 DEF HasLatest
  <2>2. m \in Int /\ s \in Int /\ \A k \in DOMAIN h : k \in Int
    BY <2>1 DEF IsHistory, Sessions
  <2>3. CASE s <= m
    BY <1>1, <1>2, <2>1, <2>2, <2>3
  <2>4. CASE m < s
    BY <1>1, <1>2, <2>1, <2>2, <2>4
  <2>5. QED BY <2>2, <2>3, <2>4
<1>5. QED BY <1>3, <1>4

\* Trimming keeps a history a history, and its newest session.
LEMMA TrimType ==
  ASSUME NEW h, IsHistory(h), NEW m \in DOMAIN h, \A k \in DOMAIN h : k <= m
  PROVE  /\ IsHistory(Trim(h))
         /\ DOMAIN Trim(h) \subseteq DOMAIN h
         /\ m \in DOMAIN Trim(h)
<1>1. {j \in DOMAIN h : j > m} = {}
  BY DEF IsHistory, Sessions
<1>2. Cardinality({j \in DOMAIN h : j > m}) = 0
  BY <1>1, FS_EmptySet
<1>3. m \in Newest(h)
  BY <1>2, BoundsAssumption DEF Newest
<1>4. DOMAIN Trim(h) = Newest(h) /\ Newest(h) \subseteq DOMAIN h
  BY DEF Trim, Newest
<1>5. IsHistory(Trim(h))
  BY <1>4 DEF IsHistory, Trim
<1>6. QED BY <1>3, <1>4, <1>5

\* The latest key of a history that has a newest session is that session.
LEMMA LatestKeyIs ==
  ASSUME NEW h, IsHistory(h), NEW m \in DOMAIN h, \A k \in DOMAIN h : k <= m
  PROVE  LatestKey(h) = m
<1>1. LatestKey(h) \in DOMAIN h /\ \A k \in DOMAIN h : k <= LatestKey(h)
  BY DEF LatestKey
<1>2. QED BY <1>1 DEF IsHistory, Sessions

\* What persist_sticky_state writes: a well-formed ledger whose as_of is the
\* later of the session decided and the newest session it read back.
LEMMA WrittenType ==
  ASSUME NEW h, IsHistory(h), HasLatest(h), NEW s \in Sessions, NEW e \in Entry
  PROVE  LET l == Written(Record(h, s, e)) IN
         /\ l.status = "ok" /\ l.asOf \in Sessions /\ l.asOf \in DOMAIN l.history
         /\ IsHistory(l.history)
         /\ \A k \in DOMAIN l.history : k <= l.asOf
         /\ s <= l.asOf /\ \A k \in DOMAIN h : k <= l.asOf
<1> DEFINE g == Put(h, s, e)
<1>1. /\ IsHistory(g) /\ DOMAIN g = DOMAIN h \union {s}
      /\ \E m \in DOMAIN g : \A k \in DOMAIN g : k <= m
  BY PutType
<1>2. PICK m \in DOMAIN g : \A k \in DOMAIN g : k <= m
  BY <1>1
<1> HIDE DEF g
<1>3. IsHistory(Trim(g)) /\ DOMAIN Trim(g) \subseteq DOMAIN g /\ m \in DOMAIN Trim(g)
  BY <1>1, <1>2, TrimType
<1>4. LatestKey(Trim(g)) = m
  BY <1>2, <1>3, LatestKeyIs
<1>5. Record(h, s, e) = Trim(g)
  BY DEF Record, g
<1>6. m \in Sessions
  BY <1>1, <1>2 DEF IsHistory
<1>7. QED BY <1>1, <1>2, <1>3, <1>4, <1>5, <1>6 DEF Written

(***************************************************************************)
(* Type correctness                                                         *)
(***************************************************************************)

Inv == TypeOK /\ \A p \in Processes : HasLatest(loaded[p])

LEMMA LedgerHasLatest ==
  ASSUME Inv PROVE HasLatest(History)
BY DEF Inv, TypeOK, LedgerOK, HasLatest, Readable

\* A process sees the ledger or, beside another writer, an empty file.
LEMMA SeenType ==
  ASSUME Inv, NEW p \in Processes, NEW l \in Seen(p)
  PROVE  /\ l = ledger \/ l = Torn
         /\ IsHistory(l.history) /\ HasLatest(l.history)
<1>1. l = ledger \/ l = Torn BY DEF Seen
<1>2. IsHistory(Torn.history) /\ HasLatest(Torn.history)
  BY DEF Torn, NoHistory, IsHistory, HasLatest
<1>3. IsHistory(History) /\ HasLatest(History)
  BY LedgerHasLatest DEF Inv, TypeOK, LedgerOK
<1>4. QED BY <1>1, <1>2, <1>3 DEF History

LEMMA EntryType == NoEntry \in Entry /\ Cash \in Held
BY DEF NoEntry, Entry, Held

LEMMA EmptyType == IsHistory(NoHistory) /\ HasLatest(NoHistory)
BY DEF NoHistory, IsHistory, HasLatest

LEMMA IdleTypes ==
  /\ IdleDec \in Calls /\ IdleRun \in Runs
  /\ \A s \in Sessions, o \in SUBSET Held :
       /\ Deciding(s, o) \in Calls
       /\ Deciding(s, o).pc = "read" /\ Deciding(s, o).session = s
BY EntryType, BoundsAssumption
   DEF IdleDec, IdleRun, Deciding, Calls, Runs, Sessions

THEOREM InitInv == Init => Inv
<1> SUFFICES ASSUME Init PROVE Inv OBVIOUS
<1> USE DEF Init
<1>1. closed \in Sessions /\ etf \subseteq Sessions /\ gold \subseteq etf /\ idx \subseteq Sessions
  BY BoundsAssumption DEF Sessions
<1>2. ledger = Missing /\ DOMAIN History = {} /\ ~ Readable /\ ledger.asOf = 0
      /\ ledger.status = "missing"
  BY DEF Missing, History, NoHistory, Readable
<1>3. IsHistory(History)
  BY EmptyType DEF Missing, History
<1>4. dec \in [Processes -> Calls] /\ run \in Runs /\ \A p \in Processes : Idle(p)
  BY IdleTypes DEF Idle, IdleDec
<1>5. /\ loaded = [p \in Processes |-> loaded[p]]
      /\ \A p \in Processes : IsHistory(loaded[p]) /\ HasLatest(loaded[p])
  BY EmptyType
<1>6. Refresh \in Processes BY DEF Processes
<1>7. QED
  BY <1>1, <1>2, <1>3, <1>4, <1>5, <1>6, IdleTypes, BoundsAssumption, ProcessAssumption
  DEF Inv, TypeOK, DataOK, LedgerOK, CallsOK, IdleRun

\* Ending a process keeps the calls well typed.
LEMMA AbandonType ==
  ASSUME Inv, NEW p \in Processes, Abandon(p)
  PROVE  CallsOK' /\ \A q \in Processes : HasLatest(loaded'[q])
<1> USE DEF Abandon, Inv, TypeOK, CallsOK
<1>1. IdleDec \in Calls /\ IdleDec.pc = "idle" /\ IdleRun \in Runs /\ IdleRun.stage = "idle"
  BY IdleTypes DEF IdleDec, IdleRun
<1>2. run' \in Runs /\ (run'.stage = "idle" \/ run'.end \in Sessions)
  BY <1>1
<1>3. dec' \in [Processes -> Calls] /\ \A q \in Processes : Idle(q)' \/ dec'[q].session \in Sessions
  BY <1>1 DEF Idle
<1>4. /\ loaded' = [q \in Processes |-> loaded'[q]]
      /\ \A q \in Processes : IsHistory(loaded'[q]) /\ HasLatest(loaded'[q])
  BY EmptyType
<1>5. Idle(Refresh)' \/ run'.stage = "decide"
  BY <1>1 DEF Idle, Processes
<1>6. QED BY <1>2, <1>3, <1>4, <1>5

\* So does handing the refresh its next session.
LEMMA ReturnType ==
  ASSUME Inv, NEW p \in Processes, Return(p), ~ Idle(p)
  PROVE  CallsOK' /\ \A q \in Processes : HasLatest(loaded'[q])
<1> DEFINE rest == run.todo \ {dec[p].session}
<1>1. CASE p = Refresh /\ rest # {}
  <2> USE DEF Inv, TypeOK, CallsOK
  <2>1. PICK s \in Firsts(rest) : dec' = [dec EXCEPT ![p] = Deciding(s, {})]
    BY <1>1 DEF Return
  <2>2. s \in Sessions /\ rest \in SUBSET Sessions
    BY DEF Firsts, Runs
  <2>3. Deciding(s, {}) \in Calls /\ Deciding(s, {}).session = s
    BY <2>2, IdleTypes
  <2>4. run' = [run EXCEPT !.todo = rest] /\ loaded' = [loaded EXCEPT ![p] = NoHistory]
    BY <1>1 DEF Return
  <2>5. run' \in Runs /\ run'.stage = "decide" /\ (run'.stage = "idle" \/ run'.end \in Sessions)
    BY <1>1, <2>2, <2>4 DEF Runs, Idle
  <2>6. dec' \in [Processes -> Calls] /\ \A q \in Processes : Idle(q)' \/ dec'[q].session \in Sessions
    BY <2>1, <2>2, <2>3 DEF Idle
  <2>7. /\ loaded' = [q \in Processes |-> loaded'[q]]
        /\ \A q \in Processes : IsHistory(loaded'[q]) /\ HasLatest(loaded'[q])
    BY <2>4, EmptyType
  <2>8. QED BY <2>5, <2>6, <2>7
<1>2. CASE ~ (p = Refresh /\ rest # {})
  BY <1>2, AbandonType DEF Return
<1>3. QED BY <1>1, <1>2

\* A torn ledger is a well-formed one.
LEMMA TornType ==
  ASSUME ledger' \in {ledger, Torn}, LedgerOK PROVE LedgerOK'
<1>1. CASE ledger' = ledger
  BY <1>1 DEF LedgerOK, History, Readable
<1>2. CASE ledger' = Torn
  <2>1. ledger'.status = "torn" /\ ledger'.asOf = 0 /\ ledger'.history = NoHistory
    BY <1>2 DEF Torn
  <2>2. DOMAIN NoHistory = {}
    BY DEF NoHistory
  <2>3. QED BY <2>1, <2>2, EmptyType, BoundsAssumption DEF LedgerOK, History, Readable
<1>3. QED BY <1>1, <1>2

LEMMA DecideStepInv ==
  ASSUME Inv, NEW p \in Processes, DecideStep(p)
  PROVE  Inv'
<1>1. CASE ReadPrior(p)
  <2>1. PICK l \in Seen(p), held \in Held :
          \E prior \in Priors(p, l) :
            dec' = [dec EXCEPT ![p].pc = "load",
                               ![p].entry = [held |-> held, len |-> NextHoldLen(prior, held)]]
    BY <1>1 DEF ReadPrior
  <2>2. PICK prior \in Priors(p, l) :
          dec' = [dec EXCEPT ![p].pc = "load",
                             ![p].entry = [held |-> held, len |-> NextHoldLen(prior, held)]]
    BY <2>1
  <2>3. prior \in Entry
    <3>1. IsHistory(l.history) BY SeenType
    <3>2. dec[p].override \subseteq Held
      BY DEF Inv, TypeOK, CallsOK, Calls
    <3>3. CASE dec[p].override # {}
      BY <3>2, <3>3, <2>2 DEF Priors, Overridden, Entry
    <3>4. CASE dec[p].override = {}
      <4>1. prior \in PriorEntries(l, dec[p].session) BY <3>4, <2>2 DEF Priors
      <4>2. prior = NoEntry \/ \E x \in DOMAIN l.history : prior = l.history[x]
        BY <4>1 DEF PriorEntries
      <4>3. QED BY <4>2, <3>1, EntryType DEF IsHistory
    <3>5. QED BY <3>3, <3>4
  <2>4. NextHoldLen(prior, held) \in Nat
    BY <2>3 DEF NextHoldLen, Entry
  <2> DEFINE e == [held |-> held, len |-> NextHoldLen(prior, held)]
  <2>5. e \in Entry
    BY <2>4, <2>1 DEF Entry
  <2> HIDE DEF e
  <2>6. dec' = [dec EXCEPT ![p].pc = "load", ![p].entry = e]
    BY <2>2 DEF e
  <2>7. dec' \in [Processes -> Calls]
        /\ \A q \in Processes : (q # p => dec'[q] = dec[q])
             /\ dec'[q].session = dec[q].session
    BY <2>5, <2>6 DEF Inv, TypeOK, CallsOK, Calls
  <2>8. dec[p].session \in Sessions /\ (Idle(Refresh)' \/ run'.stage = "decide")
    BY <1>1, <2>7 DEF Inv, TypeOK, CallsOK, Idle, ReadPrior, Processes
  <2>9. CallsOK'
    BY <1>1, <2>7, <2>8 DEF Inv, TypeOK, CallsOK, Idle, ReadPrior
  <2>10. QED
    BY <1>1, <2>9 DEF Inv, TypeOK, DataOK, LedgerOK, ReadPrior, data, spent, History, Readable
<1>2. CASE Refuse(p)
  BY <1>2, AbandonType DEF Refuse, Inv, TypeOK, DataOK, LedgerOK, data, spent, History, Readable
<1>3. CASE LoadHistory(p)
  <2>1. PICK l \in Seen(p) : loaded' = [loaded EXCEPT ![p] = l.history]
    BY <1>3 DEF LoadHistory
  <2>2. IsHistory(l.history) /\ HasLatest(l.history)
    BY SeenType
  <2>3. /\ loaded' = [q \in Processes |-> loaded'[q]]
        /\ \A q \in Processes : IsHistory(loaded'[q]) /\ HasLatest(loaded'[q])
    BY <2>1, <2>2 DEF Inv, TypeOK, CallsOK
  <2>4. dec' \in [Processes -> Calls]
        /\ \A q \in Processes : (q # p => dec'[q] = dec[q])
             /\ dec'[q].session = dec[q].session
    BY <1>3 DEF LoadHistory, Inv, TypeOK, CallsOK, Calls
  <2>5. CallsOK'
    BY <1>3, <2>3, <2>4 DEF LoadHistory, Inv, TypeOK, CallsOK, Idle, Processes
  <2>6. QED
    BY <1>3, <2>3, <2>5 DEF Inv, TypeOK, DataOK, LedgerOK, LoadHistory, data, spent, History, Readable
<1>4. CASE Persist(p)
  <2>1. LedgerOK'
    <3>1. dec[p].session \in Sessions /\ dec[p].entry \in Entry
          /\ IsHistory(loaded[p]) /\ HasLatest(loaded[p])
      BY <1>4 DEF Persist, Writing, Inv, TypeOK, CallsOK, Idle, Calls
    <3>2. CASE ledger' = Written(Record(loaded[p], dec[p].session, dec[p].entry))
      <4> DEFINE l == Written(Record(loaded[p], dec[p].session, dec[p].entry))
      <4>1. /\ l.status = "ok" /\ l.asOf \in Sessions /\ l.asOf \in DOMAIN l.history
            /\ IsHistory(l.history) /\ \A k \in DOMAIN l.history : k <= l.asOf
        BY <3>1, WrittenType
      <4> HIDE DEF l
      <4>2. ledger' = l BY <3>2 DEF l
      <4>3. QED BY <4>1, <4>2 DEF LedgerOK, History, Readable, Sessions
    <3>3. CASE ledger' = Torn
      BY <3>3, TornType DEF Inv, TypeOK
    <3>4. QED BY <1>4, <3>2, <3>3 DEF Persist
  <2>2. dec' \in [Processes -> Calls]
        /\ \A q \in Processes : (q # p => dec'[q] = dec[q])
             /\ dec'[q].session = dec[q].session
    BY <1>4 DEF Persist, Inv, TypeOK, CallsOK, Calls
  <2>3. CallsOK'
    BY <1>4, <2>2 DEF Persist, Writing, Inv, TypeOK, CallsOK, Idle, Processes
  <2>4. QED
    BY <1>4, <2>1, <2>3 DEF Inv, TypeOK, DataOK, Persist, data, spent
<1>5. CASE WriteCard(p)
  <2>1. ~ Idle(p) /\ dec[p].session \in Sessions
    BY <1>5 DEF WriteCard, Idle, Inv, TypeOK, CallsOK
  <2>2. CallsOK' /\ \A q \in Processes : HasLatest(loaded'[q])
    BY <1>5, <2>1, ReturnType DEF WriteCard
  <2>3. QED
    BY <1>5, <2>1, <2>2 DEF WriteCard, Inv, TypeOK, DataOK, LedgerOK, data, spent, History, Readable
<1>6. QED BY <1>1, <1>2, <1>3, <1>4, <1>5 DEF DecideStep

\* Starting a decision of process p, from an idle state.
LEMMA ManualStartInv ==
  ASSUME Inv, NEW p \in Operators, NEW kind, NEW s \in Sessions, NEW override \in SUBSET Held,
         ManualStart(p, kind, s, override)
  PROVE  Inv'
<1>1. p \in Processes /\ p # Refresh
  BY ProcessAssumption DEF Processes
<1>2. Deciding(s, override) \in Calls /\ Deciding(s, override).session = s
  BY IdleTypes
<1>3. dec' = [dec EXCEPT ![p] = Deciding(s, override)]
  BY DEF ManualStart
<1>4. dec' \in [Processes -> Calls] /\ dec'[p].session \in Sessions
      /\ \A q \in Processes \ {p} : dec'[q] = dec[q]
  BY <1>1, <1>2, <1>3 DEF Inv, TypeOK, CallsOK
<1>5. CallsOK'
  BY <1>1, <1>4 DEF ManualStart, Inv, TypeOK, CallsOK, Idle, Processes
<1>6. manual' \in Nat
  BY DEF ManualStart, Inv, TypeOK
<1>7. QED
  BY <1>5, <1>6 DEF ManualStart, Inv, TypeOK, DataOK, LedgerOK, data, spent, History, Readable

LEMMA OperatorInv ==
  ASSUME Inv, NEW p \in Operators, NEW s \in Sessions,
         Recover(p, s) \/ Redecide(p, s) \/ Override(p, s)
  PROVE  Inv'
<1>1. CASE Recover(p, s)
  <2>1. PICK held \in Held : ManualStart(p, "recover", s, {held})
    BY <1>1 DEF Recover, Reseed
  <2>2. QED BY <2>1, ManualStartInv
<1>2. CASE Redecide(p, s)
  BY <1>2, ManualStartInv DEF Redecide
<1>3. CASE Override(p, s)
  <2>1. PICK held \in Held : ManualStart(p, "override", s, {held})
    BY <1>3 DEF Override
  <2>2. QED BY <2>1, ManualStartInv
<1>4. QED BY <1>1, <1>2, <1>3

LEMMA FaultInv ==
  ASSUME Inv, NEW p \in Processes, PersistFails(p) \/ CardFails(p) \/ Crash(p)
  PROVE  Inv'
<1>1. CASE PersistFails(p)
  <2>1. LedgerOK' BY <1>1, TornType DEF PersistFails, Inv, TypeOK
  <2>2. dec' \in [Processes -> Calls]
        /\ \A q \in Processes : (q # p => dec'[q] = dec[q])
             /\ dec'[q].session = dec[q].session
    BY <1>1 DEF PersistFails, Inv, TypeOK, CallsOK, Calls
  <2>3. CallsOK'
    BY <1>1, <2>2 DEF PersistFails, Writing, Inv, TypeOK, CallsOK, Idle, Processes
  <2>4. QED
    BY <1>1, <2>1, <2>3 DEF Inv, TypeOK, DataOK, PersistFails, Fault, data
<1>2. CASE CardFails(p)
  <2>1. CallsOK' /\ \A q \in Processes : HasLatest(loaded'[q])
    BY <1>2, ReturnType, AbandonType DEF CardFails, Idle
  <2>2. QED
    BY <1>2, <2>1 DEF CardFails, Fault, Inv, TypeOK, DataOK, LedgerOK, data, History, Readable
<1>3. CASE Crash(p)
  <2>1. CallsOK' /\ \A q \in Processes : HasLatest(loaded'[q])
    BY <1>3, AbandonType DEF Crash
  <2>2. LedgerOK'
    BY <1>3, TornType DEF Crash, Inv, TypeOK
  <2>3. QED
    BY <1>3, <2>1, <2>2 DEF Crash, Fault, Inv, TypeOK, DataOK, data
<1>4. QED BY <1>1, <1>2, <1>3

LEMMA RefreshInv ==
  ASSUME Inv, StartRun \/ RefreshStep
  PROVE  Inv'
<1> USE DEF Inv, TypeOK
<1>1. CASE StartRun
  <2>1. IngestWindow(closed) \in SUBSET Sessions
    <3>1. IngestWindow(closed) \subseteq 1 .. closed BY Zenon DEF IngestWindow
    <3>2. closed \in 1 .. MaxSession BY DEF DataOK, Sessions
    <3>3. 1 .. closed \subseteq 1 .. MaxSession BY <3>2, BoundsAssumption
    <3>4. QED BY <3>1, <3>3 DEF Sessions
  <2>2. run' \in Runs /\ run'.end \in Sessions
    BY <1>1, <2>1 DEF StartRun, Runs, DataOK, Sessions
  <2>3. Idle(Refresh)
    BY <1>1 DEF StartRun, CallsOK
  <2>4. QED
    BY <1>1, <2>2, <2>3 DEF StartRun, DataOK, LedgerOK, CallsOK, Idle, data, spent, History, Readable
<1>2. ASSUME NEW got \in SUBSET Sessions, IngestEtf(got) \/ IngestIdx(got) PROVE Inv'
  <2>1. run' \in Runs /\ run'.end = run.end /\ run.stage # "idle" /\ run.stage # "decide"
    BY <1>2 DEF IngestEtf, IngestIdx, CallsOK, Runs
  <2>2. QED
    BY <1>2, <2>1 DEF IngestEtf, IngestIdx, DataOK, LedgerOK, CallsOK, Idle, spent, History, Readable
<1>3. CASE GapGate
  <2>1. run' \in Runs /\ (run'.stage = "idle" \/ run'.end = run.end)
        /\ run.stage # "idle" /\ run.stage # "decide"
    BY <1>3, IdleTypes DEF GapGate, CallsOK, Runs, IdleRun
  <2>2. QED
    BY <1>3, <2>1 DEF GapGate, DataOK, LedgerOK, CallsOK, Idle, data, spent, History, Readable
<1>4. CASE BuildFeatures
  <2>1. run' \in Runs /\ (run'.stage = "idle" \/ run'.end = run.end)
        /\ run.stage # "idle" /\ run.stage # "decide"
    BY <1>4, IdleTypes DEF BuildFeatures, CallsOK, Runs, IdleRun
  <2>2. QED
    BY <1>4, <2>1 DEF BuildFeatures, DataOK, LedgerOK, CallsOK, Idle, spent, History, Readable
<1>5. CASE PlanCatchup
  <2>1. run.stage = "plan" /\ run.end \in Sessions
    BY <1>5 DEF PlanCatchup, CallsOK
  <2>2. CASE run' = IdleRun /\ UNCHANGED dec
    BY <1>5, <2>1, <2>2, IdleTypes
       DEF PlanCatchup, IdleRun, DataOK, LedgerOK, CallsOK, Idle, data, spent, History, Readable
  <2>3. CASE ~ (run' = IdleRun /\ UNCHANGED dec)
    <3> DEFINE todo == Pending(run.end) \union {run.end}
    <3>1. run' = [run EXCEPT !.stage = "decide", !.todo = todo]
          /\ \E s \in Firsts(todo) : dec' = [dec EXCEPT ![Refresh] = Deciding(s, {})]
      BY <1>5, <2>3 DEF PlanCatchup
    <3>2. todo \in SUBSET Sessions
      BY <2>1 DEF Pending, DataOK
    <3>3. run' \in Runs /\ run'.stage = "decide" /\ run'.end \in Sessions
      BY <2>1, <3>1, <3>2 DEF CallsOK, Runs
    <3>4. PICK s \in Sessions : dec' = [dec EXCEPT ![Refresh] = Deciding(s, {})]
      BY <3>1, <3>2 DEF Firsts
    <3>5. Deciding(s, {}) \in Calls /\ Deciding(s, {}).session = s
      BY IdleTypes
    <3>6. dec' \in [Processes -> Calls]
          /\ \A q \in Processes : Idle(q)' \/ dec'[q].session \in Sessions
      BY <3>4, <3>5 DEF CallsOK, Idle
    <3>7. QED
      BY <1>5, <3>3, <3>6
         DEF PlanCatchup, DataOK, LedgerOK, CallsOK, Idle, data, spent, History, Readable
  <2>4. QED BY <2>2, <2>3
<1>6. QED BY <1>1, <1>2, <1>3, <1>4, <1>5 DEF RefreshStep

LEMMA ClockInv ==
  ASSUME Inv, CloseSession \/ EndContest
  PROVE  Inv'
<1>1. closed' \in Sessions
  BY BoundsAssumption DEF CloseSession, EndContest, Inv, TypeOK, DataOK, Sessions
<1>2. QED
  BY <1>1 DEF CloseSession, EndContest, Inv, TypeOK, DataOK, LedgerOK, CallsOK, Idle, spent,
       History, Readable

LEMMA NextInv == Inv /\ [Next]_vars => Inv'
<1> SUFFICES ASSUME Inv, [Next]_vars PROVE Inv' OBVIOUS
<1>1. CASE StartRun \/ RefreshStep BY <1>1, RefreshInv
<1>2. ASSUME NEW p \in Processes, DecideStep(p) \/ PersistFails(p) \/ CardFails(p) \/ Crash(p)
      PROVE  Inv'
  BY <1>2, DecideStepInv, FaultInv
<1>3. ASSUME NEW p \in Operators, NEW s \in Sessions,
             Recover(p, s) \/ Redecide(p, s) \/ Override(p, s)
      PROVE  Inv'
  BY <1>3, OperatorInv
<1>4. CASE CloseSession \/ EndContest BY <1>4, ClockInv
<1>5. CASE UNCHANGED vars
  BY <1>5 DEF vars, Inv, TypeOK, DataOK, LedgerOK, CallsOK, Idle, History, Readable
<1>6. QED BY <1>1, <1>2, <1>3, <1>4, <1>5 DEF Next

\* The tables, the ledger file and every process's local variables are well
\* formed in every reachable state: `as_of` of a ledger persist_sticky_state
\* wrote always names its newest entry.
THEOREM TypeCorrect == Spec => []TypeOK
<1>1. Inv => TypeOK BY DEF Inv
<1>2. QED BY <1>1, InitInv, NextInv, PTL DEF Spec

(***************************************************************************)
(* The ledger never rewinds while runs are serial                           *)
(***************************************************************************)

\* One process at a time; what it read back of a readable ledger is still what
\* the file holds when it writes.
OneAtATime ==
  /\ \A p, q \in Processes : Idle(p) \/ Idle(q) \/ p = q
  /\ run.stage = "idle" \/ \A p \in Operators : Idle(p)
NothingLost == \A p \in Processes : Writing(p) /\ Readable => loaded[p] = History

SerialInv == OneAtATime /\ NothingLost

LEMMA SerialInitially == Init => SerialInv
BY DEF Init, SerialInv, OneAtATime, NothingLost, Idle, IdleDec, IdleRun, Writing

LEMMA SeenSerial ==
  ASSUME OneAtATime, NEW p \in Processes, ~ Idle(p)
  PROVE  Seen(p) = {ledger} /\ \A q \in Processes \ {p} : ~ Writing(q)
<1>1. \A q \in Processes \ {p} : ~ Writing(q)
  BY DEF OneAtATime, Idle, Writing
<1>2. QED BY <1>1 DEF Seen

\* A step of p, or of the refresh, leaves the other processes' calls alone.
LEMMA AbandonSerial ==
  ASSUME Inv, SerialInv, NEW p \in Processes, Abandon(p),
         ~ Idle(p) \/ (p = Refresh /\ run.stage # "idle")
  PROVE  OneAtATime' /\ \A q \in Processes : ~ Writing(q)'
<1>1. dec'[p].pc = "idle" /\ \A q \in Processes \ {p} : dec'[q] = dec[q]
  BY DEF Abandon, IdleDec, Inv, TypeOK, CallsOK
<1>2. \A q \in Processes : Idle(q) \/ q = p
  <2>1. CASE ~ Idle(p) BY <2>1 DEF SerialInv, OneAtATime
  <2>2. CASE Idle(p)
    BY <2>2 DEF SerialInv, OneAtATime, Idle, Processes, Inv, TypeOK, CallsOK
  <2>3. QED BY <2>1, <2>2
<1>3. \A q \in Processes : dec'[q].pc = "idle"
  BY <1>1, <1>2 DEF Idle
<1>4. QED BY <1>3 DEF OneAtATime, Idle, Writing, Processes

\* A step of a busy process that leaves the others' calls and the stage alone.
LEMMA BusySerial ==
  ASSUME Inv, SerialInv, NEW p \in Processes, ~ Idle(p), run'.stage = run.stage,
         \A q \in Processes \ {p} : dec'[q] = dec[q]
  PROVE  OneAtATime' /\ \A q \in Processes \ {p} : ~ Writing(q)'
<1>1. \A q \in Processes \ {p} : Idle(q)
  BY DEF SerialInv, OneAtATime
<1>2. \A q \in Processes \ {p} : dec'[q].pc = "idle"
  BY <1>1 DEF Idle
<1>3. p \in Operators => run.stage = "idle"
  BY DEF SerialInv, OneAtATime
<1>4. QED BY <1>2, <1>3 DEF SerialInv, OneAtATime, Idle, Writing, Processes

LEMMA ReturnSerial ==
  ASSUME Inv, SerialInv, NEW p \in Processes, Return(p), ~ Idle(p)
  PROVE  SerialInv'
<1> DEFINE rest == run.todo \ {dec[p].session}
<1>1. CASE p = Refresh /\ rest # {}
  <2>1. PICK s \in Firsts(rest) : dec' = [dec EXCEPT ![p] = Deciding(s, {})]
    BY <1>1 DEF Return
  <2>2. run'.stage = run.stage
    BY <1>1 DEF Return, Inv, TypeOK, CallsOK, Runs
  <2>3. dec'[p].pc = "read" /\ \A q \in Processes \ {p} : dec'[q] = dec[q]
    BY <2>1 DEF Deciding, Inv, TypeOK, CallsOK
  <2>4. QED BY <2>2, <2>3, BusySerial DEF SerialInv, NothingLost, Writing
<1>2. CASE ~ (p = Refresh /\ rest # {})
  BY <1>2, AbandonSerial DEF Return, SerialInv, NothingLost
<1>3. QED BY <1>1, <1>2

LEMMA BusyStepSerial ==
  ASSUME Inv, SerialInv, NEW p \in Processes,
         DecideStep(p) \/ PersistFails(p) \/ CardFails(p) \/ Crash(p)
  PROVE  SerialInv'
<1>1. CASE ReadPrior(p)
  <2>1. ~ Idle(p) /\ run' = run /\ dec'[p].pc = "load"
        /\ \A q \in Processes \ {p} : dec'[q] = dec[q]
    BY <1>1 DEF ReadPrior, Idle, Inv, TypeOK, CallsOK, Calls
  <2>2. QED BY <2>1, BusySerial DEF SerialInv, NothingLost, Writing
<1>2. CASE Refuse(p)
  BY <1>2, AbandonSerial DEF Refuse, Idle, SerialInv, NothingLost
<1>3. CASE LoadHistory(p)
  <2>1. ~ Idle(p) /\ run' = run /\ ledger' = ledger
        /\ \A q \in Processes \ {p} : dec'[q] = dec[q]
    BY <1>3 DEF LoadHistory, Idle, Inv, TypeOK, CallsOK, Calls
  <2>2. loaded'[p] = ledger.history
    BY <1>3, <2>1, SeenSerial DEF LoadHistory, SerialInv, Inv, TypeOK, CallsOK
  <2>3. QED BY <2>1, <2>2, BusySerial DEF SerialInv, NothingLost, Writing, History
<1>4. CASE Persist(p) \/ PersistFails(p)
  <2>1. ~ Idle(p) /\ run' = run /\ dec'[p].pc = "card"
        /\ \A q \in Processes \ {p} : dec'[q] = dec[q]
    BY <1>4 DEF Persist, PersistFails, Writing, Idle, Inv, TypeOK, CallsOK, Calls
  <2>2. QED BY <2>1, BusySerial DEF SerialInv, NothingLost, Writing
<1>5. CASE WriteCard(p)
  BY <1>5, ReturnSerial DEF WriteCard, Idle
<1>6. CASE CardFails(p)
  BY <1>6, ReturnSerial, AbandonSerial DEF CardFails, Idle, SerialInv, NothingLost
<1>7. CASE Crash(p)
  BY <1>7, AbandonSerial DEF Crash, SerialInv, NothingLost
<1>8. QED BY <1>1, <1>2, <1>3, <1>4, <1>5, <1>6, <1>7 DEF DecideStep

LEMMA NextSerial == Serial /\ Inv /\ SerialInv /\ [Next]_vars => SerialInv'
<1> SUFFICES ASSUME Serial, Inv, SerialInv, [Next]_vars PROVE SerialInv' OBVIOUS
<1>1. ASSUME NEW p \in Processes, DecideStep(p) \/ PersistFails(p) \/ CardFails(p) \/ Crash(p)
      PROVE  SerialInv'
  BY <1>1, BusyStepSerial
<1>2. CASE StartRun
  BY <1>2 DEF StartRun, AllIdle, SerialInv, OneAtATime, NothingLost, Writing, Idle, Processes
<1>3. CASE UNCHANGED <<dec, ledger, loaded>> /\ (run' = run \/ run.stage # "idle")
  BY <1>3 DEF SerialInv, OneAtATime, NothingLost, Writing, Idle, Readable, History
<1>4. CASE PlanCatchup
  <2>1. run.stage # "idle" /\ \A q \in Processes : Idle(q)
    BY <1>4 DEF PlanCatchup, SerialInv, OneAtATime, Inv, TypeOK, CallsOK, Processes
  <2>2. /\ \A q \in Processes \ {Refresh} : dec'[q].pc = "idle"
        /\ dec'[Refresh].pc \in {"idle", "read"}
    <3>1. Refresh \in Processes /\ dec = [q \in Processes |-> dec[q]]
      BY DEF Inv, TypeOK, CallsOK, Processes
    <3>2. UNCHANGED dec \/ \E s : dec' = [dec EXCEPT ![Refresh] = Deciding(s, {})]
      BY <1>4, Zenon DEF PlanCatchup
    <3>3. CASE UNCHANGED dec BY <2>1, <3>1, <3>3 DEF Idle
    <3>4. ASSUME NEW s, dec' = [dec EXCEPT ![Refresh] = Deciding(s, {})]
          PROVE  /\ \A q \in Processes \ {Refresh} : dec'[q] = dec[q]
                 /\ dec'[Refresh].pc = "read"
      BY <3>1, <3>4 DEF Deciding
    <3>5. QED BY <2>1, <3>2, <3>3, <3>4 DEF Idle
  <2>3. QED
    BY <2>2, ProcessAssumption DEF SerialInv, OneAtATime, NothingLost, Writing, Idle, Processes
<1>5. ASSUME NEW p \in Operators, NEW s \in Sessions,
             Recover(p, s) \/ Redecide(p, s) \/ Override(p, s)
      PROVE  SerialInv'
  <2>1. PICK kind \in {"recover", "redecide", "override"}, o \in SUBSET Held :
          ManualStart(p, kind, s, o)
    BY <1>5 DEF Recover, Reseed, Redecide, Override
  <2>2. AllIdle /\ run' = run /\ dec' = [dec EXCEPT ![p] = Deciding(s, o)]
    BY <2>1 DEF ManualStart
  <2>3. /\ \A q \in Processes \ {p} : dec'[q].pc = "idle"
        /\ dec'[p].pc = "read"
    BY <2>2 DEF AllIdle, Deciding, Idle, Inv, TypeOK, CallsOK, Processes
  <2>4. QED
    BY <2>2, <2>3 DEF SerialInv, OneAtATime, NothingLost, Writing, Idle, AllIdle, Processes
<1>6. CASE RefreshStep
  BY <1>3, <1>4, <1>6
     DEF RefreshStep, IngestEtf, IngestIdx, GapGate, BuildFeatures, data
<1>7. CASE CloseSession \/ EndContest
  BY <1>3, <1>7 DEF CloseSession, EndContest
<1>8. CASE UNCHANGED vars BY <1>3, <1>8 DEF vars
<1>9. QED BY <1>1, <1>2, <1>5, <1>6, <1>7, <1>8 DEF Next

\* What a serial write makes of a readable ledger is never older.
LEMMA PersistForward ==
  ASSUME Inv, SerialInv, NEW p \in Processes, Persist(p), Readable, Readable'
  PROVE  ledger'.asOf >= ledger.asOf
<1>1. ~ Idle(p) BY DEF Persist, Writing, Idle
<1>2. \A q \in Processes \ {p} : ~ Writing(q)
  BY <1>1, SeenSerial DEF SerialInv
<1>3. ledger' = Written(Record(loaded[p], dec[p].session, dec[p].entry))
  BY <1>2 DEF Persist
<1>4. loaded[p] = History /\ IsHistory(loaded[p]) /\ HasLatest(loaded[p])
  BY DEF Persist, SerialInv, NothingLost, Inv, TypeOK, CallsOK
<1>5. dec[p].session \in Sessions /\ dec[p].entry \in Entry
  BY <1>1 DEF Inv, TypeOK, CallsOK, Calls
<1>6. ledger'.asOf \in Sessions /\ \A k \in DOMAIN loaded[p] : k <= ledger'.asOf
  BY <1>3, <1>4, <1>5, WrittenType
<1>7. ledger.asOf \in DOMAIN History
  BY DEF Inv, TypeOK, LedgerOK
<1>8. QED BY <1>4, <1>6, <1>7 DEF Inv, TypeOK, LedgerOK, Sessions

\* While no hand-started run overlaps another run, no crash, failed write or
\* repeated decision ever moves a readable ledger's `as_of` back.
THEOREM SerialNeverRewinds == Serial => (Spec => NeverRewinds)
<1> SUFFICES ASSUME Serial PROVE Spec => NeverRewinds OBVIOUS
<1>1. Init => SerialInv
  BY SerialInitially
<1>2. Inv /\ SerialInv /\ [Next]_vars => SerialInv'
  BY NextSerial
<1>3. ASSUME Inv, SerialInv, [Next]_vars
      PROVE  [Readable /\ Readable' => ledger'.asOf >= ledger.asOf]_ledger
  <2>1. ASSUME NEW p \in Processes, Persist(p), Readable, Readable'
        PROVE  ledger'.asOf >= ledger.asOf
    BY <1>3, <2>1, PersistForward
  <2>2. CASE UNCHANGED ledger BY <2>2
  <2>3. CASE ledger' = Torn
    BY <2>3 DEF Torn, Readable
  <2>4. ASSUME NEW p \in Processes, DecideStep(p) \/ PersistFails(p) \/ CardFails(p) \/ Crash(p)
        PROVE  UNCHANGED ledger \/ ledger' = Torn \/ Persist(p)
    BY <2>4 DEF DecideStep, ReadPrior, Refuse, LoadHistory, WriteCard, PersistFails, CardFails, Crash
  <2>5. StartRun \/ RefreshStep \/ CloseSession \/ EndContest => UNCHANGED ledger
    BY DEF StartRun, RefreshStep, IngestEtf, IngestIdx, GapGate, BuildFeatures, PlanCatchup,
           CloseSession, EndContest
  <2>6. ASSUME NEW p \in Operators, NEW s \in Sessions,
               Recover(p, s) \/ Redecide(p, s) \/ Override(p, s)
        PROVE  UNCHANGED ledger
    BY <2>6 DEF Recover, Reseed, Redecide, Override, ManualStart
  <2>7. CASE UNCHANGED vars BY <2>2, <2>7 DEF vars
  <2>8. QED BY <1>3, <2>1, <2>2, <2>3, <2>4, <2>5, <2>6, <2>7 DEF Next
<1>4. QED BY <1>1, <1>2, <1>3, InitInv, NextInv, PTL DEF Spec, NeverRewinds

(***************************************************************************)
(* What one decision makes of a history                                     *)
(***************************************************************************)

\* Trimming drops a history's oldest entries only.
LEMMA TrimDropsOldest ==
  ASSUME NEW h, IsHistory(h), NEW k \in DOMAIN Trim(h), NEW j \in DOMAIN h, k < j
  PROVE  j \in DOMAIN Trim(h)
<1>1. DOMAIN Trim(h) = Newest(h) BY DEF Trim
<1>2. k \in DOMAIN h /\ Cardinality({x \in DOMAIN h : x > k}) < HistoryMax
  BY <1>1 DEF Newest
<1>3. DOMAIN h \subseteq Int /\ IsFiniteSet(DOMAIN h)
  <2>1. IsFiniteSet(1 .. MaxSession) BY BoundsAssumption, FS_Interval
  <2>2. DOMAIN h \subseteq 1 .. MaxSession BY DEF IsHistory, Sessions
  <2>3. QED BY <2>1, <2>2, FS_Subset, BoundsAssumption
<1>4. {x \in DOMAIN h : x > j} \subseteq {x \in DOMAIN h : x > k}
  BY <1>2, <1>3
<1>5. {x \in DOMAIN h : x > k} \subseteq DOMAIN h OBVIOUS
<1>6. IsFiniteSet({x \in DOMAIN h : x > k})
  BY <1>3, <1>5, FS_Subset
<1>7. IsFiniteSet({x \in DOMAIN h : x > j})
  BY <1>4, <1>6, FS_Subset
<1>8. Cardinality({x \in DOMAIN h : x > j}) <= Cardinality({x \in DOMAIN h : x > k})
  BY <1>4, <1>6, FS_Subset
<1>9. Cardinality({x \in DOMAIN h : x > j}) < HistoryMax
  BY <1>2, <1>6, <1>7, <1>8, FS_CardinalityType, BoundsAssumption
<1>10. QED BY <1>1, <1>9 DEF Newest

\* Record replaces or adds one entry and drops oldest ones.
LEMMA RecordIs ==
  ASSUME NEW h, IsHistory(h), HasLatest(h), NEW s \in Sessions, NEW e \in Entry
  PROVE  LET r == Record(h, s, e) IN
         /\ DOMAIN r \subseteq DOMAIN h \union {s}
         /\ \A k \in DOMAIN r : r[k] = IF k = s THEN e ELSE h[k]
         /\ \A k \in DOMAIN r, j \in DOMAIN h \union {s} : k < j => j \in DOMAIN r
<1> DEFINE g == Put(h, s, e)
<1>1. IsHistory(g) /\ DOMAIN g = DOMAIN h \union {s}
  BY PutType
<1>2. \A k \in DOMAIN g : g[k] = IF k = s THEN e ELSE h[k]
  BY DEF Put
<1> HIDE DEF g
<1>3. DOMAIN Trim(g) \subseteq DOMAIN g /\ \A k \in DOMAIN Trim(g) : Trim(g)[k] = g[k]
  BY DEF Trim, Newest
<1>4. \A k \in DOMAIN Trim(g), j \in DOMAIN g : k < j => j \in DOMAIN Trim(g)
  BY <1>1, TrimDropsOldest
<1>5. Record(h, s, e) = Trim(g)
  BY DEF Record, g
<1>6. QED BY <1>1, <1>2, <1>3, <1>4, <1>5

\* Each entry of a history was derived from the one before it.
Chained(h) ==
  \A k, j \in DOMAIN h :
    k < j /\ (~ \E x \in DOMAIN h : k < x /\ x < j) => h[j].len = NextHoldLen(h[k], h[j].held)

\* An entry for the newest session or a later one that was derived from the
\* last entry before it leaves the history chained.
LEMMA RecordChained ==
  ASSUME NEW h, IsHistory(h), HasLatest(h), NEW s \in Sessions, NEW e \in Entry,
         Chained(h), \A k \in DOMAIN h : k <= s,
         \A k \in DOMAIN h : k < s /\ (~ \E x \in DOMAIN h : k < x /\ x < s)
                               => e.len = NextHoldLen(h[k], e.held)
  PROVE  Chained(Record(h, s, e))
<1> DEFINE r == Record(h, s, e)
<1>1. /\ DOMAIN r \subseteq DOMAIN h \union {s}
      /\ \A k \in DOMAIN r : r[k] = IF k = s THEN e ELSE h[k]
      /\ \A k \in DOMAIN r, j \in DOMAIN h \union {s} : k < j => j \in DOMAIN r
  BY RecordIs
<1> HIDE DEF r
<1>2. DOMAIN h \subseteq Int /\ s \in Int
  BY BoundsAssumption DEF IsHistory, Sessions
<1>3. SUFFICES ASSUME NEW k \in DOMAIN r, NEW j \in DOMAIN r, k < j,
                      ~ \E x \in DOMAIN r : k < x /\ x < j
               PROVE  r[j].len = NextHoldLen(r[k], r[j].held)
  BY DEF Chained, r
<1>4. k \in DOMAIN h /\ k < s /\ r[k] = h[k]
  BY <1>1, <1>2, <1>3
<1>5. ~ \E x \in DOMAIN h : k < x /\ x < j
  BY <1>1, <1>3
<1>6. CASE j = s
  BY <1>1, <1>3, <1>4, <1>5, <1>6
<1>7. CASE j # s
  <2>1. j \in DOMAIN h /\ r[j] = h[j] BY <1>1, <1>7
  <2>2. QED BY <1>3, <1>4, <1>5, <2>1 DEF Chained
<1>8. QED BY <1>6, <1>7

(***************************************************************************)
(* Where the sessions, the tables and the ledger stand while runs are       *)
(* serial                                                                   *)
(***************************************************************************)

\* What is recorded or shown was decided on a session both tables know.
Admitted ==
  /\ DOMAIN History \subseteq etf /\ cards \subseteq etf
  /\ \A p \in Processes :
       dec[p].pc \in {"load", "write", "card"} => dec[p].session \in etf \intersect idx

\* A writer holds what the file holds, readable or not.
Kept == \A p \in Processes : Writing(p) => loaded[p] = History

\* Nothing is ahead of the clock, and nothing of a run is ahead of its target.
UpTo ==
  /\ ledger.asOf <= closed
  /\ \A p \in Processes : ~ Idle(p) => dec[p].session <= closed
  /\ run.stage # "idle" => ledger.asOf <= run.end /\ run.end <= closed
  /\ \A x \in run.todo : x <= run.end

\* The refresh decides its sessions in order, none older than the ledger.
InOrder ==
  ~ Idle(Refresh) =>
    /\ dec[Refresh].override = {} /\ dec[Refresh].session \in Firsts(run.todo)
    /\ ledger.asOf <= dec[Refresh].session

\* Beyond the gate the index table is at most one session ahead of the other.
Gated == run.stage \in {"features", "plan", "decide"} => Stale = {}

\* The entry the refresh is about to record continues the ledger.
Derived ==
  dec[Refresh].pc \in {"load", "write"} =>
    \E prior \in PriorEntries(ledger, dec[Refresh].session) :
      dec[Refresh].entry.len = NextHoldLen(prior, dec[Refresh].entry.held)

\* By hand a decision is made only of a ledger that cannot be read.
OnlyRecovers ==
  manual = 0 => \A p \in Operators :
    ~ Idle(p) /\ Readable => dec[p].pc = "card" /\ dec[p].session \in DOMAIN History

CatchupInv == Admitted /\ Kept /\ UpTo /\ InOrder /\ Gated /\ Derived /\ OnlyRecovers

\* Once a process has ended, whatever it left of the ledger file, all are idle.
LEMMA EndedCatchup ==
  ASSUME Inv, SerialInv, CatchupInv, NEW p \in Processes, Abandon(p),
         ~ Idle(p) \/ (p = Refresh /\ run.stage # "idle"),
         UNCHANGED data, ledger' \in {ledger, Torn}, cards' \subseteq etf
  PROVE  CatchupInv'
<1>1. \A q \in Processes : Idle(q)'
  <2>1. dec'[p].pc = "idle" /\ \A q \in Processes \ {p} : dec'[q] = dec[q]
    BY DEF Abandon, IdleDec, Inv, TypeOK, CallsOK
  <2>2. \A q \in Processes : Idle(q) \/ q = p
    BY DEF SerialInv, OneAtATime, Idle, Processes, Inv, TypeOK, CallsOK
  <2>3. QED BY <2>1, <2>2 DEF Idle
<1>2. run'.stage = "idle" /\ \A x \in run'.todo : x <= run'.end
  BY DEF Abandon, IdleRun, SerialInv, OneAtATime, Processes, CatchupInv, UpTo
<1>3. ledger'.asOf <= closed /\ DOMAIN History' \subseteq etf
  BY BoundsAssumption
     DEF Torn, NoHistory, History, CatchupInv, UpTo, Admitted, Inv, TypeOK, DataOK, Sessions
<1>4. Refresh \in Processes /\ Operators \subseteq Processes BY DEF Processes
<1>5. QED
  BY <1>1, <1>2, <1>3, <1>4
     DEF CatchupInv, Admitted, Kept, UpTo, InOrder, Gated, Derived, OnlyRecovers, Idle, Writing, data,
         History

\* Only the process that is deciding is busy.
LEMMA Alone ==
  ASSUME SerialInv, NEW p \in Processes, ~ Idle(p)
  PROVE  /\ \A q \in Processes \ {p} : Idle(q)
         /\ p \in Operators => run.stage = "idle" /\ Idle(Refresh)
         /\ p = Refresh => \A q \in Operators : Idle(q)
BY ProcessAssumption DEF SerialInv, OneAtATime, Processes

LEMMA ReadCatchup ==
  ASSUME Inv, SerialInv, CatchupInv, NEW p \in Processes, ReadPrior(p)
  PROVE  CatchupInv'
<1>1. ~ Idle(p) /\ dec[p].pc = "read" /\ InputsFresh(dec[p].session)
  BY DEF ReadPrior, Idle
<1>2. Seen(p) = {ledger}
  BY <1>1, SeenSerial DEF SerialInv
<1>3. PICK held \in Held, prior \in Priors(p, ledger) :
        dec' = [dec EXCEPT ![p].pc = "load",
                           ![p].entry = [held |-> held, len |-> NextHoldLen(prior, held)]]
  BY <1>2, Zenon DEF ReadPrior
<1> DEFINE e == [held |-> held, len |-> NextHoldLen(prior, held)]
<1>4. /\ dec'[p].pc = "load" /\ dec'[p].session = dec[p].session
      /\ dec'[p].override = dec[p].override /\ dec'[p].entry = e
      /\ \A q \in Processes \ {p} : dec'[q] = dec[q]
  <2> HIDE DEF e
  <2>1. dec' = [dec EXCEPT ![p].pc = "load", ![p].entry = e]
    BY <1>3 DEF e
  <2>2. QED BY <2>1 DEF Inv, TypeOK, CallsOK, Calls
<1>5. UNCHANGED <<closed, etf, idx, gold, contest, ledger, cards, run, loaded, faults, manual>>
  BY DEF ReadPrior, data, spent
<1>6. e.held = held /\ e.len = NextHoldLen(prior, held) OBVIOUS
<1> HIDE DEF e
<1>7. Admitted'
  BY <1>1, <1>4, <1>5 DEF CatchupInv, Admitted, InputsFresh, History
<1>8. Kept'
  BY <1>4, <1>5 DEF CatchupInv, Kept, Writing, History
<1>9. UpTo'
  BY <1>1, <1>4, <1>5 DEF CatchupInv, UpTo, Idle
<1>10. InOrder'
  BY <1>1, <1>4, <1>5, Alone DEF CatchupInv, InOrder, Idle, Firsts, Processes
<1>11. Gated' /\ OnlyRecovers'
  BY <1>1, <1>4, <1>5
     DEF CatchupInv, Gated, Stale, OnlyRecovers, Idle, Readable, History, Processes
<1>12. Derived'
  <2>1. CASE p = Refresh
    <3>1. prior \in PriorEntries(ledger, dec[p].session)
      BY <1>1, <1>3, <2>1 DEF Priors, CatchupInv, InOrder
    <3>2. PriorEntries(ledger, dec[p].session)' = PriorEntries(ledger, dec[p].session)
      BY <1>4, <1>5 DEF PriorEntries, Lasts
    <3>3. QED BY <1>4, <1>6, <2>1, <3>1, <3>2 DEF Derived
  <2>2. CASE p # Refresh
    <3>1. Idle(Refresh) /\ Refresh \in Processes
      BY <1>1, <2>2, Alone DEF Processes
    <3>2. QED BY <1>4, <2>2, <3>1 DEF Derived, Idle
  <2>3. QED BY <2>1, <2>2
<1>13. QED BY <1>7, <1>8, <1>9, <1>10, <1>11, <1>12 DEF CatchupInv

LEMMA LoadCatchup ==
  ASSUME Inv, SerialInv, CatchupInv, NEW p \in Processes, LoadHistory(p)
  PROVE  CatchupInv'
<1>1. ~ Idle(p) /\ dec[p].pc = "load"
  BY DEF LoadHistory, Idle
<1>2. Seen(p) = {ledger} /\ \A q \in Processes \ {p} : ~ Writing(q)
  BY <1>1, SeenSerial DEF SerialInv
<1>3. /\ dec'[p].pc = "write" /\ dec'[p].session = dec[p].session
      /\ dec'[p].override = dec[p].override /\ dec'[p].entry = dec[p].entry
      /\ \A q \in Processes \ {p} : dec'[q] = dec[q]
  BY DEF LoadHistory, Inv, TypeOK, CallsOK, Calls
<1>4. UNCHANGED <<closed, etf, idx, gold, contest, ledger, cards, run, faults, manual>>
      /\ loaded'[p] = History
  BY <1>2 DEF LoadHistory, data, spent, History, Inv, TypeOK, CallsOK
<1>5. Admitted' /\ Kept'
  BY <1>1, <1>2, <1>3, <1>4 DEF CatchupInv, Admitted, Kept, Writing, History
<1>6. UpTo' /\ Gated' /\ OnlyRecovers'
  BY <1>1, <1>3, <1>4
     DEF CatchupInv, UpTo, Gated, Stale, OnlyRecovers, Idle, Readable, History, Processes
<1>7. InOrder'
  BY <1>1, <1>3, <1>4, Alone DEF CatchupInv, InOrder, Idle, Firsts, Processes
<1>8. Derived'
  <2>1. dec'[Refresh].session = dec[Refresh].session /\ dec'[Refresh].entry = dec[Refresh].entry
        /\ (dec'[Refresh].pc \in {"load", "write"} => dec[Refresh].pc \in {"load", "write"})
    BY <1>1, <1>3 DEF Processes
  <2>2. PriorEntries(ledger, dec[Refresh].session)' = PriorEntries(ledger, dec[Refresh].session)
    BY <1>4, <2>1 DEF PriorEntries, Lasts
  <2>3. QED BY <2>1, <2>2 DEF CatchupInv, Derived
<1>9. QED BY <1>5, <1>6, <1>7, <1>8 DEF CatchupInv

\* What the decision of p makes of the ledger file.
LEMMA PersistIs ==
  ASSUME Inv, SerialInv, CatchupInv, NEW p \in Processes, Persist(p)
  PROVE  /\ dec[p].session \in Sessions /\ dec[p].entry \in Entry
         /\ Readable' /\ History' = Record(History, dec[p].session, dec[p].entry)
         /\ DOMAIN History' \subseteq DOMAIN History \union {dec[p].session}
         /\ ledger'.asOf \in DOMAIN History'
         /\ \A k \in DOMAIN History' : k <= ledger'.asOf
         /\ dec[p].session <= ledger'.asOf
         /\ \A k \in DOMAIN History : k <= ledger'.asOf
<1> DEFINE s == dec[p].session
           e == dec[p].entry
<1>1. ~ Idle(p) BY DEF Persist, Writing, Idle
<1>2. \A q \in Processes \ {p} : ~ Writing(q)
  BY <1>1, SeenSerial DEF SerialInv
<1>3. loaded[p] = History
  BY DEF Persist, CatchupInv, Kept
<1>4. ledger' = Written(Record(History, s, e))
  BY <1>2, <1>3 DEF Persist
<1>5. s \in Sessions /\ e \in Entry
  BY <1>1 DEF Inv, TypeOK, CallsOK, Calls
<1>6. IsHistory(History) /\ HasLatest(History)
  BY LedgerHasLatest DEF Inv, TypeOK, LedgerOK
<1> HIDE DEF s, e
<1>7. LET l == Written(Record(History, s, e)) IN
      /\ l.status = "ok" /\ l.asOf \in DOMAIN l.history
      /\ \A k \in DOMAIN l.history : k <= l.asOf
      /\ s <= l.asOf /\ \A k \in DOMAIN History : k <= l.asOf
  BY <1>5, <1>6, WrittenType
<1>8. Written(Record(History, s, e)).history = Record(History, s, e)
  BY DEF Written
<1>9. DOMAIN Record(History, s, e) \subseteq DOMAIN History \union {s}
  BY <1>5, <1>6, RecordIs
<1>10. History' = ledger'.history /\ (Readable' <=> ledger'.status = "ok")
  BY DEF History, Readable
<1>11. QED BY <1>4, <1>5, <1>7, <1>8, <1>9, <1>10 DEF s, e

LEMMA PersistCatchup ==
  ASSUME Inv, SerialInv, CatchupInv, NEW p \in Processes, Persist(p) \/ PersistFails(p)
  PROVE  CatchupInv'
<1>1. ~ Idle(p) /\ dec[p].pc = "write"
  BY DEF Persist, PersistFails, Writing, Idle
<1>2. /\ dec'[p].pc = "card" /\ dec'[p].session = dec[p].session
      /\ dec'[p].override = dec[p].override
      /\ \A q \in Processes \ {p} : dec'[q] = dec[q]
  BY DEF Persist, PersistFails, Inv, TypeOK, CallsOK, Calls
<1>3. UNCHANGED <<closed, etf, idx, gold, contest, cards, run, manual>>
  BY DEF Persist, PersistFails, data, spent
<1>4. \A q \in Processes \ {p} : Idle(q) /\ Idle(q)'
  BY <1>1, <1>2, Alone DEF Idle
<1>5. /\ dec[p].session \in Sessions /\ dec[p].session \in etf \intersect idx
      /\ dec[p].session <= closed
      /\ p = Refresh => /\ ledger.asOf <= dec[p].session
                        /\ run.stage # "idle" => dec[p].session <= run.end
      /\ p # Refresh => run.stage = "idle"
  BY <1>1, Alone
     DEF CatchupInv, Admitted, UpTo, InOrder, Firsts, Idle, Processes, Inv, TypeOK, CallsOK
<1>6. /\ DOMAIN History' \subseteq etf
      /\ ledger'.asOf <= closed
      /\ run.stage # "idle" => ledger'.asOf <= run.end
      /\ p = Refresh => ledger'.asOf <= dec[p].session
      /\ manual = 0 /\ p # Refresh /\ Readable' => dec[p].session \in DOMAIN History'
  <2>1. CASE Persist(p)
    <3>1. /\ Readable' /\ DOMAIN History' \subseteq DOMAIN History \union {dec[p].session}
          /\ ledger'.asOf \in DOMAIN History'
      BY <2>1, PersistIs
    <3>2. DOMAIN History \subseteq etf /\ \A k \in DOMAIN History : k <= ledger.asOf /\ k \in Int
      BY DEF CatchupInv, Admitted, Inv, TypeOK, LedgerOK, IsHistory, Sessions
    <3>3. ledger.asOf \in Int /\ closed \in Int /\ run.end \in Int /\ dec[p].session \in Int
      BY <1>5, BoundsAssumption DEF Inv, TypeOK, LedgerOK, DataOK, CallsOK, Runs, Sessions
    <3>4. ledger'.asOf = dec[p].session \/ (ledger'.asOf \in Int /\ ledger'.asOf <= ledger.asOf)
      BY <3>1, <3>2
    <3>5. ledger.asOf <= closed /\ (run.stage # "idle" => ledger.asOf <= run.end)
      BY DEF CatchupInv, UpTo
    <3>6. manual = 0 /\ p # Refresh => DOMAIN History = {}
      BY <1>1 DEF CatchupInv, OnlyRecovers, Inv, TypeOK, LedgerOK, Processes
    <3>7. QED BY <1>5, <3>1, <3>2, <3>3, <3>4, <3>5, <3>6
  <2>2. CASE PersistFails(p)
    <3>1. ledger' \in {ledger, Torn} BY <2>2 DEF PersistFails
    <3>2. CASE ledger' = ledger
      <4>1. manual = 0 /\ p # Refresh => ~ Readable
        BY <1>1 DEF CatchupInv, OnlyRecovers, Processes
      <4>2. QED BY <1>5, <3>2, <4>1 DEF CatchupInv, Admitted, UpTo, History, Readable
    <3>3. CASE ledger' = Torn
      <4>1. ledger'.asOf = 0 /\ DOMAIN History' = {} /\ ~ Readable'
        BY <3>3 DEF Torn, NoHistory, History, Readable
      <4>2. closed \in Nat /\ run.end \in Nat /\ dec[p].session \in Nat
        BY <1>5, BoundsAssumption DEF Inv, TypeOK, DataOK, CallsOK, Runs, Sessions
      <4>3. QED BY <4>1, <4>2
    <3>4. QED BY <3>1, <3>2, <3>3
  <2>3. QED BY <2>1, <2>2
<1>7. Admitted'
  BY <1>2, <1>3, <1>4, <1>5, <1>6 DEF CatchupInv, Admitted, Idle
<1>8. Kept' /\ Gated'
  BY <1>2, <1>3, <1>4 DEF CatchupInv, Kept, Gated, Stale, Writing, Idle
<1>9. UpTo'
  BY <1>2, <1>3, <1>4, <1>5, <1>6 DEF CatchupInv, UpTo
<1>10. InOrder'
  BY <1>1, <1>2, <1>3, <1>4, <1>5, <1>6 DEF CatchupInv, InOrder, Idle, Firsts, Processes
<1>11. Derived'
  <2>1. dec'[Refresh].pc \in {"idle", "card"}
    BY <1>2, <1>4 DEF Idle, Processes
  <2>2. QED BY <2>1 DEF Derived
<1>12. OnlyRecovers'
  <2>1. ASSUME manual' = 0, NEW q \in Operators, ~ Idle(q)', Readable'
        PROVE  dec'[q].pc = "card" /\ dec'[q].session \in DOMAIN History'
    <3>1. q = p /\ p # Refresh
      BY <1>4, <2>1, ProcessAssumption DEF Processes
    <3>2. QED BY <1>2, <1>3, <1>6, <2>1, <3>1
  <2>2. QED BY <2>1 DEF OnlyRecovers
<1>13. QED BY <1>7, <1>8, <1>9, <1>10, <1>11, <1>12 DEF CatchupInv

LEMMA ReturnCatchup ==
  ASSUME Inv, SerialInv, CatchupInv, NEW p \in Processes, dec[p].pc = "card", Return(p),
         UNCHANGED data, UNCHANGED ledger, cards' \subseteq etf
  PROVE  CatchupInv'
<1> DEFINE rest == run.todo \ {dec[p].session}
<1>1. ~ Idle(p) BY DEF Idle
<1>2. CASE p = Refresh /\ rest # {}
  <2>1. PICK s \in Firsts(rest) : dec' = [dec EXCEPT ![p] = Deciding(s, {})]
    BY <1>2 DEF Return
  <2>2. run' = [run EXCEPT !.todo = rest]
    BY <1>2 DEF Return
  <2>3. /\ run'.stage = run.stage /\ run'.end = run.end /\ run'.todo = rest
        /\ run.todo \subseteq Sessions /\ run.end \in Int /\ run.stage = "decide"
    BY <1>1, <1>2, <2>2, BoundsAssumption DEF Inv, TypeOK, CallsOK, Runs, Sessions
  <2>4. /\ dec'[p].pc = "read" /\ dec'[p].session = s /\ dec'[p].override = {}
        /\ \A q \in Processes \ {p} : dec'[q] = dec[q]
    BY <2>1 DEF Deciding, Inv, TypeOK, CallsOK
  <2>5. \A q \in Processes \ {p} : Idle(q) /\ Idle(q)'
    BY <1>1, <2>4, Alone DEF Idle
  <2>6. s \in run.todo /\ s \in Sessions /\ s # dec[p].session
    BY <2>3 DEF Firsts
  <2>7. dec[p].session \in Sessions /\ dec[p].session <= s /\ ledger.asOf <= dec[p].session
        /\ ledger.asOf \in Int
    BY <1>1, <1>2, <2>6, BoundsAssumption
       DEF CatchupInv, InOrder, Firsts, Inv, TypeOK, CallsOK, LedgerOK, Sessions
  <2>8. ledger.asOf <= s /\ s <= run.end /\ s <= closed
    <3>1. s <= run.end /\ run.end <= closed /\ closed \in Int /\ s \in Int /\ dec[p].session \in Int
      BY <2>3, <2>6, <2>7, BoundsAssumption DEF CatchupInv, UpTo, Inv, TypeOK, DataOK, Sessions
    <3>2. QED BY <2>3, <2>7, <3>1
  <2>9. UNCHANGED <<closed, etf, idx, ledger>> BY DEF data
  <2>10. Admitted' /\ Kept'
    BY <2>4, <2>5, <2>9 DEF CatchupInv, Admitted, Kept, Writing, Idle, History
  <2>11. UpTo'
    BY <2>3, <2>4, <2>5, <2>8, <2>9 DEF CatchupInv, UpTo
  <2>12. InOrder'
    BY <1>2, <2>1, <2>3, <2>4, <2>8, <2>9 DEF InOrder
  <2>13. Gated' /\ Derived' /\ OnlyRecovers'
    BY <1>2, <2>3, <2>4, <2>5, <2>9, ProcessAssumption
       DEF CatchupInv, Gated, Stale, Derived, OnlyRecovers, Processes
  <2>14. QED BY <2>10, <2>11, <2>12, <2>13 DEF CatchupInv
<1>3. CASE ~ (p = Refresh /\ rest # {})
  BY <1>1, <1>3, EndedCatchup DEF Return
<1>4. QED BY <1>2, <1>3

LEMMA BusyCatchup ==
  ASSUME Inv, SerialInv, CatchupInv, NEW p \in Processes,
         DecideStep(p) \/ PersistFails(p) \/ CardFails(p) \/ Crash(p)
  PROVE  CatchupInv'
<1>1. cards \subseteq etf
  BY DEF CatchupInv, Admitted
<1>2. CASE Refuse(p)
  BY <1>1, <1>2, EndedCatchup DEF Refuse, Idle
<1>3. CASE WriteCard(p)
  <2>1. dec[p].session \in etf
    BY <1>3 DEF WriteCard, CatchupInv, Admitted
  <2>2. QED BY <1>1, <1>3, <2>1, ReturnCatchup DEF WriteCard
<1>4. CASE CardFails(p)
  BY <1>1, <1>4, ReturnCatchup, EndedCatchup DEF CardFails, Idle
<1>5. CASE Crash(p)
  BY <1>1, <1>5, EndedCatchup DEF Crash
<1>6. QED
  BY <1>2, <1>3, <1>4, <1>5, ReadCatchup, LoadCatchup, PersistCatchup DEF DecideStep

\* Before its decide stage the refresh runs beside idle processes.
LEMMA RunsAlone ==
  ASSUME Inv, SerialInv, run.stage \notin {"idle", "decide"}
  PROVE  \A p \in Processes : Idle(p)
BY DEF SerialInv, OneAtATime, Inv, TypeOK, CallsOK, Processes

\* A step that starts no decision, from idle processes, need only keep the
\* tables, the target and the gate.
LEMMA StageCatchup ==
  ASSUME Inv, CatchupInv, \A p \in Processes : Idle(p), UNCHANGED <<dec, ledger, cards, closed>>,
         etf \subseteq etf', run'.stage # "idle" => ledger.asOf <= run'.end /\ run'.end <= closed,
         \A x \in run'.todo : x <= run'.end, Gated'
  PROVE  CatchupInv'
<1>1. \A p \in Processes : Idle(p)' BY DEF Idle
<1>2. Refresh \in Processes /\ Operators \subseteq Processes BY DEF Processes
<1>3. QED
  BY <1>1, <1>2
     DEF CatchupInv, Admitted, Kept, UpTo, InOrder, Derived, OnlyRecovers, Idle, Writing, History

LEMMA PlanCatchupHolds ==
  ASSUME Inv, SerialInv, CatchupInv, PlanCatchup
  PROVE  CatchupInv'
<1>1. run.stage = "plan" /\ run.end \in Sessions /\ \A p \in Processes : Idle(p)
  BY RunsAlone DEF PlanCatchup, Inv, TypeOK, CallsOK
<1>2. UNCHANGED <<closed, etf, idx, ledger, cards, loaded, manual>>
  BY DEF PlanCatchup, data, spent
<1>3. CASE run' = IdleRun /\ UNCHANGED dec
  BY <1>1, <1>2, <1>3, StageCatchup DEF IdleRun, Gated
<1>4. CASE ~ (run' = IdleRun /\ UNCHANGED dec)
  <2> DEFINE todo == Pending(run.end) \union {run.end}
  <2>1. PICK s \in Firsts(todo) : dec' = [dec EXCEPT ![Refresh] = Deciding(s, {})]
    BY <1>4, Zenon DEF PlanCatchup
  <2>2. run' = [run EXCEPT !.stage = "decide", !.todo = todo]
    BY <1>4, Zenon DEF PlanCatchup
  <2>3. run'.stage = "decide" /\ run'.end = run.end /\ run'.todo = todo
    BY <2>2 DEF Inv, TypeOK, CallsOK, Runs
  <2>4. /\ dec'[Refresh].pc = "read" /\ dec'[Refresh].session = s
        /\ dec'[Refresh].override = {}
        /\ \A q \in Processes \ {Refresh} : dec'[q] = dec[q]
    BY <2>1 DEF Deciding, Inv, TypeOK, CallsOK, Processes
  <2>5. ledger.asOf <= run.end /\ run.end <= closed /\ ledger.asOf \in Int /\ closed \in Int
        /\ run.end \in Int
    BY <1>1, BoundsAssumption DEF CatchupInv, UpTo, Inv, TypeOK, LedgerOK, DataOK, Sessions
  <2>6. \A x \in todo : x \in Int /\ ledger.asOf <= x /\ x <= run.end
    <3>1. \A x \in Pending(run.end) : x \in etf /\ ledger.asOf < x /\ x < run.end
      BY DEF Pending
    <3>2. etf \subseteq Int BY BoundsAssumption DEF Inv, TypeOK, DataOK, Sessions
    <3>3. ASSUME NEW x \in todo PROVE x \in Int /\ ledger.asOf <= x /\ x <= run.end
      <4>1. CASE x = run.end BY <2>5, <4>1
      <4>2. CASE x \in Pending(run.end)
        <5>1. x \in Int /\ ledger.asOf < x /\ x < run.end BY <3>1, <3>2, <4>2
        <5>2. QED BY <2>5, <5>1
      <4>3. QED BY <4>1, <4>2
    <3>4. QED BY <3>3, Zenon
  <2>7. s \in todo BY DEF Firsts
  <2> HIDE DEF todo
  <2>8. ledger.asOf <= s /\ s <= closed BY <2>5, <2>6, <2>7
  <2>9. \A q \in Processes \ {Refresh} : Idle(q)' BY <1>1, <2>4 DEF Idle
  <2>10. Admitted' /\ Kept'
    BY <1>2, <2>4, <2>9 DEF CatchupInv, Admitted, Kept, Writing, Idle, History
  <2>11. UpTo'
    BY <1>2, <2>3, <2>4, <2>5, <2>6, <2>8, <2>9 DEF CatchupInv, UpTo
  <2>12. InOrder'
    BY <1>2, <2>1, <2>3, <2>4, <2>8 DEF InOrder
  <2>13. Gated' /\ Derived' /\ OnlyRecovers'
    BY <1>1, <1>2, <2>3, <2>4, <2>9, ProcessAssumption
       DEF CatchupInv, Gated, Stale, Derived, OnlyRecovers, Processes
  <2>14. QED BY <2>10, <2>11, <2>12, <2>13 DEF CatchupInv
<1>5. QED BY <1>3, <1>4

LEMMA RefreshCatchup ==
  ASSUME Serial, Inv, SerialInv, CatchupInv, StartRun \/ RefreshStep
  PROVE  CatchupInv'
<1>1. CASE StartRun
  <2>1. \A p \in Processes : Idle(p)
    BY <1>1 DEF StartRun, AllIdle
  <2>2. ledger.asOf <= closed /\ closed \in Int
    BY DEF CatchupInv, UpTo, Inv, TypeOK, DataOK, Sessions
  <2>3. run'.stage = "etf" /\ run'.end = closed /\ run'.todo = {}
    BY <1>1 DEF StartRun
  <2>4. UNCHANGED <<dec, ledger, cards, closed, etf>>
    BY <1>1 DEF StartRun, data
  <2>5. Gated' BY <2>3 DEF Gated
  <2>6. QED BY <2>1, <2>2, <2>3, <2>4, <2>5, StageCatchup
<1>2. ASSUME NEW got \in SUBSET Sessions, IngestEtf(got) \/ IngestIdx(got) PROVE CatchupInv'
  <2>1. \A p \in Processes : Idle(p)
    BY <1>2, RunsAlone DEF IngestEtf, IngestIdx
  <2>2. /\ run'.stage \in {"idx", "gate"} /\ run'.end = run.end /\ run'.todo = run.todo
        /\ run.stage # "idle"
    BY <1>2 DEF IngestEtf, IngestIdx, Inv, TypeOK, CallsOK, Runs
  <2>3. UNCHANGED <<dec, ledger, cards, closed>> /\ etf \subseteq etf'
    BY <1>2 DEF IngestEtf, IngestIdx
  <2>4. Gated' BY <2>2 DEF Gated
  <2>5. QED BY <2>1, <2>2, <2>3, <2>4, StageCatchup DEF CatchupInv, UpTo
<1>3. CASE GapGate \/ BuildFeatures
  <2>1. \A p \in Processes : Idle(p)
    BY <1>3, RunsAlone DEF GapGate, BuildFeatures
  <2>2. /\ run' = IdleRun \/ (/\ run'.stage \in {"features", "plan"} /\ run'.end = run.end
                              /\ run'.todo = run.todo /\ Stale = {})
        /\ run.stage # "idle"
    BY <1>3 DEF GapGate, BuildFeatures, CatchupInv, Gated, Inv, TypeOK, CallsOK, Runs
  <2>3. UNCHANGED <<dec, ledger, cards, closed, etf, idx>>
    BY <1>3 DEF GapGate, BuildFeatures, data
  <2>4. Gated' BY <2>2, <2>3 DEF Gated, IdleRun, Stale
  <2>5. /\ run'.stage # "idle" => ledger.asOf <= run'.end /\ run'.end <= closed
        /\ \A x \in run'.todo : x <= run'.end
    BY <2>2 DEF IdleRun, CatchupInv, UpTo
  <2>6. QED BY <2>1, <2>3, <2>4, <2>5, StageCatchup
<1>4. QED BY <1>1, <1>2, <1>3, PlanCatchupHolds DEF RefreshStep

LEMMA ManualCatchup ==
  ASSUME Serial, Inv, SerialInv, CatchupInv, NEW p \in Operators, NEW s \in Sessions,
         Recover(p, s) \/ Redecide(p, s) \/ Override(p, s)
  PROVE  CatchupInv'
<1>1. PICK kind \in {"recover", "redecide", "override"}, o \in SUBSET Held :
        ManualStart(p, kind, s, o) /\ (kind = "recover" => ~ Readable)
  <2>1. ASSUME NEW held \in Held PROVE {held} \in SUBSET Held OBVIOUS
  <2>2. CASE Recover(p, s) BY <2>1, <2>2, Zenon DEF Recover, Reseed
  <2>3. CASE Redecide(p, s)
    <3>1. ManualStart(p, "redecide", s, {}) BY <2>3 DEF Redecide
    <3>2. QED BY <3>1
  <2>4. CASE Override(p, s)
    <3>1. PICK held \in Held : ManualStart(p, "override", s, {held}) BY <2>4 DEF Override
    <3>2. QED BY <2>1, <3>1
  <2>5. QED BY <2>2, <2>3, <2>4
<1>2. /\ run.stage = "idle" /\ s \in 1 .. closed /\ \A q \in Processes : Idle(q)
      /\ dec' = [dec EXCEPT ![p] = Deciding(s, o)]
      /\ UNCHANGED <<closed, etf, idx, ledger, cards, run>>
  BY <1>1 DEF ManualStart, AllIdle, data
<1>3. manual' = 0 => ~ Readable
  BY <1>1 DEF ManualStart, Inv, TypeOK
<1>4. p \in Processes /\ Refresh \in Processes /\ p # Refresh /\ Operators \subseteq Processes
  BY ProcessAssumption DEF Processes
<1>5. /\ dec'[p].pc = "read" /\ dec'[p].session = s
      /\ \A q \in Processes \ {p} : dec'[q] = dec[q]
  BY <1>2, <1>4 DEF Deciding, Inv, TypeOK, CallsOK
<1>6. s <= closed
  <2>1. closed \in Int /\ s \in 1 .. closed
    BY <1>2, BoundsAssumption DEF Inv, TypeOK, DataOK, Sessions
  <2>2. QED BY <2>1
<1>7. QED
  BY <1>2, <1>3, <1>4, <1>5, <1>6
     DEF CatchupInv, Admitted, Kept, UpTo, InOrder, Gated, Derived, OnlyRecovers, Stale, Idle,
         Writing, History, Readable

LEMMA NextCatchup ==
  Serial /\ Inv /\ SerialInv /\ CatchupInv /\ [Next]_vars => CatchupInv'
<1> SUFFICES ASSUME Serial, Inv, SerialInv, CatchupInv, [Next]_vars PROVE CatchupInv' OBVIOUS
<1>1. CASE StartRun \/ RefreshStep BY <1>1, RefreshCatchup
<1>2. ASSUME NEW p \in Processes, DecideStep(p) \/ PersistFails(p) \/ CardFails(p) \/ Crash(p)
      PROVE  CatchupInv'
  BY <1>2, BusyCatchup
<1>3. ASSUME NEW p \in Operators, NEW s \in Sessions,
             Recover(p, s) \/ Redecide(p, s) \/ Override(p, s)
      PROVE  CatchupInv'
  BY <1>3, ManualCatchup
<1>4. ASSUME UNCHANGED <<etf, idx, ledger, cards, run, dec, loaded, manual>>,
             closed' \in Int, closed <= closed'
      PROVE  CatchupInv'
  <2>1. UpTo'
    <3>1. ledger.asOf \in Int /\ closed \in Int /\ run.end \in Int
          /\ \A p \in Processes : dec[p].session \in Int
      BY BoundsAssumption DEF Inv, TypeOK, LedgerOK, DataOK, CallsOK, Runs, Calls, Sessions
    <3>2. QED BY <1>4, <3>1 DEF CatchupInv, UpTo, Idle
  <2>2. QED
    BY <1>4, <2>1
       DEF CatchupInv, Admitted, Kept, InOrder, Gated, Derived, OnlyRecovers, Stale, Idle,
           Writing, History, Readable, PriorEntries
<1>5. CASE CloseSession \/ EndContest
  <2>1. closed' \in Int /\ closed <= closed'
    BY <1>5 DEF CloseSession, EndContest, Inv, TypeOK, DataOK, Sessions
  <2>2. QED BY <1>4, <1>5, <2>1 DEF CloseSession, EndContest, spent
<1>6. CASE UNCHANGED vars
  <2>1. closed \in Int BY DEF Inv, TypeOK, DataOK, Sessions
  <2>2. QED BY <1>4, <1>6, <2>1 DEF vars
<1>7. QED BY <1>1, <1>2, <1>3, <1>5, <1>6 DEF Next

LEMMA InitCatchup == Init => CatchupInv
<1> SUFFICES ASSUME Init PROVE CatchupInv OBVIOUS
<1>1. History = NoHistory /\ DOMAIN History = {} /\ ledger.asOf = 0 /\ ~ Readable
  BY DEF Init, Missing, NoHistory, History, Readable
<1>2. \A p \in Processes : Idle(p) /\ dec[p].pc = "idle"
  BY DEF Init, Idle, IdleDec
<1>3. run.stage = "idle" /\ run.todo = {}
  BY DEF Init, IdleRun
<1>4. closed \in Nat /\ Refresh \in Processes /\ Operators \subseteq Processes /\ cards = {}
  BY BoundsAssumption DEF Init, Sessions, Processes
<1>5. QED
  BY <1>1, <1>2, <1>3, <1>4
     DEF CatchupInv, Admitted, Kept, UpTo, InOrder, Gated, Derived, OnlyRecovers, Writing

(***************************************************************************)
(* What that says of the ledger                                             *)
(***************************************************************************)

\* A session of the ETF table between the ledger and the session the refresh is
\* about to record would have been the prior session, and is not in the ledger.
LEMMA PriorIsNewest ==
  ASSUME Inv, CatchupInv, dec[Refresh].pc = "write", Readable
  PROVE  LET s == dec[Refresh].session
             e == dec[Refresh].entry IN
         /\ ~ \E x \in etf : ledger.asOf < x /\ x < s
         /\ \A k \in DOMAIN History :
              k < s /\ (~ \E x \in DOMAIN History : k < x /\ x < s)
                => e.len = NextHoldLen(History[k], e.held)
<1> DEFINE s == dec[Refresh].session
           e == dec[Refresh].entry
           earlier == {x \in etf : x < s}
<1>1. PICK prior \in PriorEntries(ledger, s) : e.len = NextHoldLen(prior, e.held)
  BY DEF CatchupInv, Derived
<1>2. /\ etf \subseteq Int /\ s \in Int /\ DOMAIN History \subseteq etf
      /\ \A k \in DOMAIN History : k <= ledger.asOf
      /\ ledger.asOf \in DOMAIN History
  BY BoundsAssumption
     DEF CatchupInv, Admitted, Inv, TypeOK, DataOK, LedgerOK, CallsOK, Calls, Processes, Sessions
<1> HIDE DEF s, e
<1>3. CASE earlier = {}
  <2>1. \A x \in etf : ~ x < s BY <1>3
  <2>2. QED BY <1>2, <2>1 DEF s, e
<1>4. CASE earlier # {}
  <2>1. PICK x \in Lasts(earlier) \intersect DOMAIN History : prior = History[x]
    BY <1>1, <1>4 DEF PriorEntries, History
  <2>2. x \in etf /\ x < s /\ \A y \in etf : y < s => y <= x
    BY <2>1 DEF Lasts
  <2>3. ~ \E y \in etf : ledger.asOf < y /\ y < s
    BY <1>2, <2>1, <2>2
  <2>4. \A k \in DOMAIN History :
          k < s /\ (~ \E y \in DOMAIN History : k < y /\ y < s) => k = x
    <3>1. ASSUME NEW k \in DOMAIN History, k < s,
                 ~ \E y \in DOMAIN History : k < y /\ y < s
          PROVE  k = x
      <4>1. x \in DOMAIN History BY <2>1
      <4>2. ~ (k < x) BY <2>2, <3>1, <4>1
      <4>3. k <= x
        <5>1. k \in etf BY <1>2
        <5>2. QED BY <2>2, <3>1, <5>1
      <4>4. k \in Int /\ x \in Int BY <1>2, <2>2
      <4>5. QED BY <2>2, <3>1, <4>2, <4>3, <4>4
    <3>2. QED BY <3>1
  <2>5. QED BY <1>1, <2>1, <2>3, <2>4 DEF s, e
<1>5. QED BY <1>3, <1>4

\* While no operator has decided anew, a readable ledger is written by the
\* refresh, and the session recorded is the newest one or a later one.
LEMMA RefreshWrites ==
  ASSUME Inv, SerialInv, CatchupInv, NEW p \in Processes, Persist(p), Readable, manual = 0
  PROVE  /\ p = Refresh /\ dec[Refresh].pc = "write"
         /\ \A k \in DOMAIN History : k <= dec[Refresh].session
         /\ ledger'.asOf = dec[Refresh].session
<1>1. dec[p].pc = "write" /\ ~ Idle(p) BY DEF Persist, Writing, Idle
<1>2. p = Refresh BY <1>1 DEF CatchupInv, OnlyRecovers, Processes
<1>3. ledger.asOf <= dec[Refresh].session BY <1>1, <1>2 DEF CatchupInv, InOrder
<1>4. /\ DOMAIN History \subseteq Int /\ \A k \in DOMAIN History : k <= ledger.asOf
      /\ ledger.asOf \in Int /\ dec[Refresh].session \in Int
  BY <1>2, BoundsAssumption
     DEF Inv, TypeOK, LedgerOK, IsHistory, CallsOK, Calls, Sessions
<1>5. \A k \in DOMAIN History : k <= dec[Refresh].session
  BY <1>3, <1>4
<1>6. /\ DOMAIN History' \subseteq DOMAIN History \union {dec[Refresh].session}
      /\ ledger'.asOf \in DOMAIN History' /\ dec[Refresh].session <= ledger'.asOf
  BY <1>2, PersistIs
<1>7. ledger'.asOf = dec[Refresh].session BY <1>4, <1>5, <1>6
<1>8. QED BY <1>1, <1>2, <1>5, <1>7

\* Every change of the ledger file is a write of a decision or a torn file.
LEMMA LedgerChanges ==
  ASSUME [Next]_vars
  PROVE  ledger' \in {ledger, Torn} \/ \E p \in Processes : Persist(p)
<1>1. ASSUME NEW p \in Processes, DecideStep(p) \/ PersistFails(p) \/ CardFails(p) \/ Crash(p)
      PROVE  ledger' \in {ledger, Torn} \/ Persist(p)
  BY <1>1 DEF DecideStep, ReadPrior, Refuse, LoadHistory, WriteCard, PersistFails, CardFails, Crash
<1>2. StartRun \/ RefreshStep \/ CloseSession \/ EndContest => UNCHANGED ledger
  BY DEF StartRun, RefreshStep, IngestEtf, IngestIdx, GapGate, BuildFeatures, PlanCatchup,
         CloseSession, EndContest
<1>3. ASSUME NEW p \in Operators, NEW s \in Sessions,
             Recover(p, s) \/ Redecide(p, s) \/ Override(p, s)
      PROVE  UNCHANGED ledger
  BY <1>3 DEF Recover, Reseed, Redecide, Override, ManualStart
<1>4. CASE UNCHANGED vars BY <1>4 DEF vars
<1>5. QED BY <1>1, <1>2, <1>3, <1>4 DEF Next

\* Operators' decisions are never taken back.
LEMMA ManualGrows ==
  ASSUME Inv, [Next]_vars, manual' = 0 PROVE manual = 0
<1>1. manual' = manual \/ (manual \in Nat /\ manual' = manual + 1)
  <2>1. ASSUME NEW p \in Processes, DecideStep(p) \/ PersistFails(p) \/ CardFails(p) \/ Crash(p)
        PROVE  manual' = manual
    BY <2>1 DEF DecideStep, ReadPrior, Refuse, LoadHistory, Persist, WriteCard, PersistFails,
                CardFails, Crash, spent
  <2>2. StartRun \/ RefreshStep \/ CloseSession \/ EndContest => manual' = manual
    BY DEF StartRun, RefreshStep, IngestEtf, IngestIdx, GapGate, BuildFeatures, PlanCatchup,
           CloseSession, EndContest, spent
  <2>3. ASSUME NEW p \in Operators, NEW s \in Sessions,
               Recover(p, s) \/ Redecide(p, s) \/ Override(p, s)
        PROVE  manual' = manual \/ manual' = manual + 1
    BY <2>3 DEF Recover, Reseed, Redecide, Override, ManualStart
  <2>4. CASE UNCHANGED vars BY <2>4 DEF vars
  <2>5. manual \in Nat BY DEF Inv, TypeOK
  <2>6. QED BY <2>1, <2>2, <2>3, <2>4, <2>5 DEF Next
<1>2. QED BY <1>1

LEMMA NoSkipStep ==
  ASSUME Inv, SerialInv, CatchupInv, [Next]_vars, Readable, Readable', manual = 0,
         NEW x \in etf \union idx, ledger.asOf < x, x < ledger'.asOf
  PROVE  FALSE
<1>1. PICK p \in Processes : Persist(p)
  <2>1. CASE ledger' = ledger
    BY <2>1, BoundsAssumption DEF Inv, TypeOK, DataOK, LedgerOK, Sessions
  <2>2. CASE ledger' = Torn BY <2>2 DEF Torn, Readable
  <2>3. QED BY <2>1, <2>2, LedgerChanges
<1> DEFINE s == dec[Refresh].session
<1>2. /\ dec[Refresh].pc = "write" /\ ledger'.asOf = s /\ ~ Idle(Refresh)
      /\ Refresh \in Processes
  BY <1>1, RefreshWrites DEF Idle, Processes
<1>3. ~ \E y \in etf : ledger.asOf < y /\ y < s
  BY <1>2, PriorIsNewest
<1>4. x \in idx \ etf /\ s \in idx /\ x < s
  BY <1>2, <1>3 DEF CatchupInv, Admitted
<1>5. Stale = {}
  BY <1>2 DEF CatchupInv, Gated, Inv, TypeOK, CallsOK
<1>6. QED BY <1>4, <1>5 DEF Stale

\* The chain, over the sessions that are recorded.
ChainInv == manual = 0 => Chained(History)

LEMMA ChainStep ==
  ASSUME Inv, SerialInv, CatchupInv, ChainInv, [Next]_vars
  PROVE  ChainInv'
<1>1. SUFFICES ASSUME manual' = 0 PROVE Chained(History')
  BY DEF ChainInv
<1>2. manual = 0 /\ Chained(History)
  BY <1>1, ManualGrows DEF ChainInv
<1>3. CASE ledger' = ledger
  BY <1>2, <1>3 DEF History
<1>4. CASE ledger' = Torn
  BY <1>4 DEF Torn, NoHistory, History, Chained
<1>5. ASSUME NEW p \in Processes, Persist(p) PROVE Chained(History')
  <2> DEFINE s == dec[p].session
             e == dec[p].entry
  <2>1. s \in Sessions /\ e \in Entry /\ History' = Record(History, s, e)
    BY <1>5, PersistIs
  <2>2. IsHistory(History) /\ HasLatest(History)
    BY LedgerHasLatest DEF Inv, TypeOK, LedgerOK
  <2>3. CASE Readable
    <3>1. p = Refresh /\ dec[Refresh].pc = "write" /\ \A k \in DOMAIN History : k <= s
      BY <1>2, <1>5, <2>3, RefreshWrites
    <3>2. \A k \in DOMAIN History :
            k < s /\ (~ \E x \in DOMAIN History : k < x /\ x < s)
              => e.len = NextHoldLen(History[k], e.held)
      BY <2>3, <3>1, PriorIsNewest
    <3> HIDE DEF s, e
    <3>3. QED BY <1>2, <2>1, <2>2, <3>1, <3>2, RecordChained
  <2>4. CASE ~ Readable
    <3>1. DOMAIN History = {} BY <2>4 DEF Inv, TypeOK, LedgerOK
    <3> HIDE DEF s, e
    <3>2. QED BY <1>2, <2>1, <2>2, <3>1, RecordChained
  <2>5. QED BY <2>3, <2>4
<1>6. QED BY <1>3, <1>4, <1>5, LedgerChanges

LEMMA CardsStep ==
  ASSUME Inv, SerialInv, CatchupInv, CardsNeverOvertaken, [Next]_vars
  PROVE  CardsNeverOvertaken'
<1>1. SUFFICES ASSUME Readable', manual' = 0, NEW s \in cards', s \notin DOMAIN History'
               PROVE  s > ledger'.asOf \/ \A k \in DOMAIN History' : s < k
  BY Zenon DEF CardsNeverOvertaken
<1>2. manual = 0 BY <1>1, ManualGrows
<1>3. /\ DOMAIN History \subseteq Int /\ ledger.asOf \in Int /\ cards \subseteq Int /\ etf \subseteq Int
      /\ \A k \in DOMAIN History : k <= ledger.asOf
      /\ \A p \in Processes : dec[p].session \in Int
      /\ Readable <=> DOMAIN History # {}
      /\ Readable => ledger.asOf \in DOMAIN History
  BY BoundsAssumption
     DEF Inv, TypeOK, DataOK, LedgerOK, IsHistory, CallsOK, Calls, Sessions
<1>4. CASE ledger' = ledger
  <2>1. Readable /\ History' = History
    BY <1>1, <1>4 DEF Readable, History
  <2>2. CASE s \in cards
    BY <1>1, <1>2, <1>4, <2>1, <2>2 DEF CardsNeverOvertaken
  <2>3. CASE s \notin cards
    <3>1. PICK p \in Processes : WriteCard(p) /\ s = dec[p].session
      <4>1. ASSUME NEW p \in Processes,
                   DecideStep(p) \/ PersistFails(p) \/ CardFails(p) \/ Crash(p)
            PROVE  cards' = cards \/ WriteCard(p)
        BY <4>1 DEF DecideStep, ReadPrior, Refuse, LoadHistory, Persist, PersistFails,
                    CardFails, Crash
      <4>2. StartRun \/ RefreshStep \/ CloseSession \/ EndContest => cards' = cards
        BY DEF StartRun, RefreshStep, IngestEtf, IngestIdx, GapGate, BuildFeatures, PlanCatchup,
               CloseSession, EndContest
      <4>3. ASSUME NEW p \in Operators, NEW x \in Sessions,
                   Recover(p, x) \/ Redecide(p, x) \/ Override(p, x)
            PROVE  cards' = cards
        BY <4>3 DEF Recover, Reseed, Redecide, Override, ManualStart
      <4>4. UNCHANGED vars => cards' = cards BY DEF vars
      <4>5. \E p \in Processes : WriteCard(p)
        BY <1>1, <2>3, <4>1, <4>2, <4>3, <4>4 DEF Next
      <4>6. PICK p \in Processes : WriteCard(p) BY <4>5
      <4>7. s = dec[p].session BY <1>1, <2>3, <4>6 DEF WriteCard
      <4>8. QED BY <4>6, <4>7
    <3>2. dec[p].pc = "card" /\ ~ Idle(p) BY <3>1 DEF WriteCard, Idle
    <3>3. p = Refresh
      BY <1>1, <1>2, <2>1, <3>1, <3>2 DEF CatchupInv, OnlyRecovers, Processes
    <3>4. ledger.asOf <= s
      BY <3>1, <3>2, <3>3 DEF CatchupInv, InOrder
    <3>5. QED BY <1>1, <1>3, <1>4, <2>1, <3>1, <3>4
  <2>4. QED BY <2>2, <2>3
<1>5. CASE ledger' = Torn
  BY <1>1, <1>5 DEF Torn, Readable
<1>6. ASSUME NEW p \in Processes, Persist(p)
      PROVE  s > ledger'.asOf \/ \A k \in DOMAIN History' : s < k
  <2> DEFINE d == dec[p].session
  <2>1. /\ d \in Sessions /\ dec[p].entry \in Entry
        /\ History' = Record(History, d, dec[p].entry)
        /\ DOMAIN History' \subseteq DOMAIN History \union {d}
        /\ ledger'.asOf \in DOMAIN History'
    BY <1>6, PersistIs
  <2>2. cards' = cards /\ s \in Int /\ d \in Int
    BY <1>1, <1>3, <1>6 DEF Persist
  <2>3. IsHistory(History) /\ HasLatest(History)
    BY LedgerHasLatest DEF Inv, TypeOK, LedgerOK
  <2>4. \A k \in DOMAIN History', j \in DOMAIN History \union {d} : k < j => j \in DOMAIN History'
    <3> HIDE DEF d
    <3>1. QED BY <2>1, <2>3, RecordIs
  <2>5. CASE ~ Readable
    <3>1. DOMAIN History' = {d} BY <1>3, <2>1, <2>5
    <3> HIDE DEF d
    <3>2. QED BY <1>1, <2>1, <2>2, <3>1
  <2>6. CASE Readable
    <3>1. /\ p = Refresh /\ dec[Refresh].pc = "write" /\ ledger'.asOf = d
          /\ \A k \in DOMAIN History : k <= d
      BY <1>2, <1>6, <2>6, RefreshWrites
    <3>2. ~ \E x \in etf : ledger.asOf < x /\ x < d
      BY <2>6, <3>1, PriorIsNewest
    <3>3. s \in etf /\ s # d
      BY <1>1, <2>1, <2>2, <3>1 DEF CatchupInv, Admitted
    <3> HIDE DEF d
    <3>4. CASE s \in DOMAIN History
      <4>1. \A k \in DOMAIN History' : ~ k < s
        BY <1>1, <2>4, <3>4
      <4>2. \A k \in DOMAIN History' : k \in Int /\ k # s
        BY <1>1, <1>3, <2>1, <2>2
      <4>3. QED BY <2>2, <4>1, <4>2
    <3>5. CASE s > ledger.asOf
      BY <1>3, <2>2, <3>1, <3>2, <3>3, <3>5
    <3>6. CASE \A k \in DOMAIN History : s < k
      BY <1>3, <2>1, <2>2, <2>6, <3>1, <3>6
    <3>7. QED
      BY <1>2, <2>2, <2>6, <3>4, <3>5, <3>6 DEF CardsNeverOvertaken
  <2>7. QED BY <2>5, <2>6
<1>7. QED BY <1>4, <1>5, <1>6, LedgerChanges

\* Catch-up never records a session over one that either table knows and the
\* ledger lacks: the prior entry it derives from is that of the last ETF session
\* before, and the gate stops a run whose index table knows a session more.
THEOREM SerialSkipsNothing == Serial => (Spec => NoWitnessedSkip)
<1> SUFFICES ASSUME Serial PROVE Spec => NoWitnessedSkip OBVIOUS
<1>1. Inv /\ SerialInv /\ [Next]_vars => SerialInv'
  BY NextSerial
<1>2. Inv /\ SerialInv /\ CatchupInv /\ [Next]_vars => CatchupInv'
  BY NextCatchup
<1>3. ASSUME Inv, SerialInv, CatchupInv, [Next]_vars
      PROVE  [Readable /\ Readable' /\ manual = 0 =>
                ~ \E x \in etf \union idx : ledger.asOf < x /\ x < ledger'.asOf]_ledger
  BY <1>3, NoSkipStep
<1>4. QED
  BY <1>1, <1>2, <1>3, InitInv, NextInv, SerialInitially, InitCatchup, PTL
     DEF Spec, NoWitnessedSkip

\* Whatever crashes, failed writes, late sessions and repeated slots: each entry
\* of the ledger was derived from the entry before it.
THEOREM SerialChainContinuous == Serial => (Spec => []ChainContinuity)
<1> SUFFICES ASSUME Serial PROVE Spec => []ChainContinuity OBVIOUS
<1>1. Inv /\ SerialInv /\ [Next]_vars => SerialInv'
  BY NextSerial
<1>2. Inv /\ SerialInv /\ CatchupInv /\ [Next]_vars => CatchupInv'
  BY NextCatchup
<1>3. Init => ChainInv
  BY DEF Init, ChainInv, Chained, History, Missing, NoHistory
<1>4. Inv /\ SerialInv /\ CatchupInv /\ ChainInv /\ [Next]_vars => ChainInv'
  BY ChainStep
<1>5. ChainInv => ChainContinuity
  BY DEF ChainInv, Chained, ChainContinuity, Consecutive
<1>6. QED
  BY <1>1, <1>2, <1>3, <1>4, <1>5, InitInv, NextInv, SerialInitially, InitCatchup, PTL DEF Spec

\* A session on a card that the ledger lost is not overtaken: the next decision
\* asks for its entry and is refused.
THEOREM SerialCardsKept == Serial => (Spec => []CardsNeverOvertaken)
<1> SUFFICES ASSUME Serial PROVE Spec => []CardsNeverOvertaken OBVIOUS
<1>1. Inv /\ SerialInv /\ [Next]_vars => SerialInv'
  BY NextSerial
<1>2. Inv /\ SerialInv /\ CatchupInv /\ [Next]_vars => CatchupInv'
  BY NextCatchup
<1>3. Init => CardsNeverOvertaken
  BY DEF Init, CardsNeverOvertaken, Readable, Missing
<1>4. Inv /\ SerialInv /\ CatchupInv /\ CardsNeverOvertaken /\ [Next]_vars => CardsNeverOvertaken'
  BY CardsStep
<1>5. QED
  BY <1>1, <1>2, <1>3, <1>4, InitInv, NextInv, SerialInitially, InitCatchup, PTL DEF Spec

=============================================================================
