---------------------------- MODULE BackfillProofs ----------------------------
(***************************************************************************)
(* For any sessions, quota, number of tasks, attempts, crashes and          *)
(* failures: the quota holds over restarts and midnights, a plan always     *)
(* fits what is left of it, KRX sees a bounded number of requests a day,    *)
(* and nothing in the store is lost or replaced.                            *)
(***************************************************************************)
EXTENDS Backfill, FiniteSetTheorems, WellFoundedInduction, TLAPS

Pending(s) == task[s] \in {"todo", "queued", "sent"}

\* A request is only sent for while attempts are left.
TriesOK == \A s \in Sessions :
  /\ task[s] \notin {"queued", "sent"} => tries[s] = 0
  /\ task[s] = "queued" => tries[s] < MaxAttempts

\* What file and copy know of the charges of today.
LedgerOK ==
  /\ file.date # "today" => charged <= unsaved
  /\ file.date = "today" => charged <= file.used + unsaved /\ file.used <= Quota
  /\ mem.date = "today" => charged <= mem.used + unsaved /\ mem.used <= Quota
  /\ mem.date = "past" => file.date # "today"

\* What waits for its turn fits what the quota has left.
PlanFits == Cardinality(Waiting) <= Remaining

\* Only sessions without a file are asked for.
AskedMissing == \A s \in Sessions : Pending(s) => gz[s] = Absent /\ plain[s] = Absent

\* Where the migration stands.
MigrationOK ==
  /\ job # "migrate" => left = {} /\ cursor = 0
  /\ \A s \in left : plain[s] \in Versions
  /\ cursor # 0 => /\ cursor \notin left /\ plain[cursor] \in Versions
                   /\ gz[cursor] = IF complete THEN plain[cursor] ELSE Torn

\* The requests that sessions in flight may still send.
Unsent == {r \in Sessions \X (1 .. MaxAttempts) : r[1] \in InFlight /\ tries[r[1]] < r[2]}

BudgetOK == seen + Cardinality(Unsent) <= MaxAttempts * (charged + MaxConcurrency)

-----------------------------------------------------------------------------
(* Finite sets of sessions *)

LEMMA SessionSets ==
  ASSUME NEW T \in SUBSET Sessions
  PROVE  IsFiniteSet(T) /\ Cardinality(T) \in Nat
BY StoreAssumption, FS_Subset, FS_CardinalityType

LEMMA SmallerSet ==
  ASSUME NEW S, IsFiniteSet(S), NEW T \in SUBSET S
  PROVE  /\ Cardinality(T) \in Nat /\ Cardinality(S) \in Nat /\ Cardinality(T) <= Cardinality(S)
         /\ T # S => Cardinality(T) < Cardinality(S)
<1>1. IsFiniteSet(T) /\ Cardinality(T) <= Cardinality(S) /\ (Cardinality(S) = Cardinality(T) => S = T)
  BY FS_Subset
<1>2. Cardinality(T) \in Nat /\ Cardinality(S) \in Nat BY <1>1, FS_CardinalityType
<1>3. QED BY <1>1, <1>2

LEMMA LeastExists ==
  ASSUME NEW T \in SUBSET Nat, T # {}
  PROVE  \E x \in T : \A y \in T : x <= y
<1>1. PICK x \in T : \A y \in T : ~ (<<y, x>> \in OpToRel(<, Nat))
  BY NatLessThanWellFounded, WFMin
<1>2. \A y \in T : ~ (y < x) BY <1>1 DEF OpToRel
<1>3. QED BY <1>2

\* The plan schedules no more sessions than the quota has left: the session of
\* the highest rank among them has them all at or before it.
LEMMA ScheduledFits ==
  ASSUME NEW missing \in SUBSET Sessions, Remaining \in Nat
  PROVE  Cardinality(Scheduled(missing)) <= Remaining
<1> DEFINE UpTo(s) == {t \in missing : t <= s}
           Rank(s) == Cardinality(UpTo(s))
           S == Scheduled(missing)
<1>1. \A s \in S : UpTo(s) \in SUBSET Sessions /\ Rank(s) \in Nat /\ Rank(s) <= Remaining
  <2>1. \A s \in S : UpTo(s) \in SUBSET Sessions OBVIOUS
  <2>2. \A s \in S : Rank(s) \in Nat BY <2>1, SessionSets
  <2>3. QED BY <2>1, <2>2 DEF Scheduled
<1>2. S \in SUBSET missing /\ S \in SUBSET Nat BY StoreAssumption DEF Scheduled
<1>3. CASE S = {}
  BY <1>3, FS_EmptySet
<1>4. CASE S # {}
  <2> DEFINE Gaps == {Remaining - Rank(s) : s \in S}
  <2>1. Gaps \in SUBSET Nat /\ Gaps # {}
    <3>1. \A s \in S : Remaining - Rank(s) \in Nat
      <4> SUFFICES ASSUME NEW s \in S PROVE Remaining - Rank(s) \in Nat OBVIOUS
      <4>1. Rank(s) \in Nat /\ Rank(s) <= Remaining BY <1>1
      <4> HIDE DEF Rank
      <4>2. QED BY <4>1
    <3> HIDE DEF Rank, S
    <3>2. QED BY <3>1, <1>4
  <2>2. PICK g \in Gaps : \A h \in Gaps : g <= h BY <2>1, LeastExists
  <2>3. PICK m \in S : g = Remaining - Rank(m) BY <2>2
  <2>4. \A s \in S : Rank(s) <= Rank(m)
    <3> SUFFICES ASSUME NEW s \in S PROVE Rank(s) <= Rank(m) OBVIOUS
    <3>1. g <= Remaining - Rank(s) BY <2>2
    <3>2. Rank(s) \in Nat /\ Rank(m) \in Nat BY <1>1
    <3> HIDE DEF Rank
    <3>3. QED BY <2>3, <3>1, <3>2
  <2>5. ASSUME NEW s \in S, ~ (s <= m) PROVE FALSE
    <3>1. UpTo(m) \in SUBSET UpTo(s) /\ UpTo(m) # UpTo(s)
      <4>1. s \in Nat /\ m \in Nat /\ missing \subseteq Nat BY <1>2, StoreAssumption
      <4>2. s \in UpTo(s) /\ s \notin UpTo(m) BY <1>2, <2>5, <4>1
      <4>3. \A t \in UpTo(m) : t \in UpTo(s) BY <2>5, <4>1
      <4>4. QED BY <4>2, <4>3
    <3>2. IsFiniteSet(UpTo(s)) BY <1>1, SessionSets
    <3>3. Rank(m) < Rank(s) BY <3>1, <3>2, SmallerSet
    <3>4. Rank(s) \in Nat /\ Rank(m) \in Nat /\ Rank(s) <= Rank(m) BY <1>1, <2>4
    <3> HIDE DEF Rank
    <3>5. QED BY <3>3, <3>4
  <2>6. S \in SUBSET UpTo(m) BY <1>2, <2>5
  <2>7. Cardinality(S) <= Rank(m) /\ Cardinality(S) \in Nat
    <3>1. IsFiniteSet(UpTo(m)) BY <1>1, SessionSets
    <3>2. QED BY <2>6, <3>1, SmallerSet
  <2>8. QED BY <1>1, <2>7
<1>5. QED BY <1>3, <1>4

-----------------------------------------------------------------------------
(* Types *)

DataType ==
  /\ file \in Counts /\ mem \in Counts
  /\ gz \in [Sessions -> Versions \union {Absent, Torn}]
  /\ plain \in [Sessions -> Versions \union {Absent}]
  /\ left \subseteq Sessions /\ cursor \in Sessions \union {0} /\ complete \in BOOLEAN
  /\ site \in [Sessions -> 0 .. MaxVersion]
  /\ charged \in Nat /\ unsaved \in Nat /\ seen \in Nat /\ faults \in Nat

RunType ==
  /\ job \in Jobs /\ task \in [Sessions -> Steps]
  /\ tries \in [Sessions -> 0 .. MaxAttempts]
  /\ Cardinality(InFlight) <= MaxConcurrency
  /\ job # "ingest" => task = Idle

LEMMA TypeParts == TypeOK <=> DataType /\ RunType
BY DEF TypeOK, DataType, RunType

LEMMA CountTypes ==
  ASSUME file \in Counts, mem \in Counts
  PROVE  /\ Nothing \in Counts /\ Loaded \in Counts /\ Current \in Counts /\ Looked \in Counts
         /\ Charged \in Counts /\ UsedBefore \in Nat /\ Aged(file) \in Counts /\ Aged(mem) \in Counts
         /\ Remaining \in Nat
<1>1. Nothing \in Counts BY DEF Nothing, Counts, Dates
<1>2. Loaded \in Counts BY <1>1 DEF Loaded
<1>3. Current \in Counts /\ Looked \in Counts BY <1>2 DEF Current, Looked
<1>4. UsedBefore \in Nat BY <1>3 DEF UsedBefore, Counts
<1>5. Charged \in Counts BY <1>4 DEF Charged, Counts, Dates
<1>6. Aged(file) \in Counts /\ Aged(mem) \in Counts BY DEF Aged, Counts, Dates
<1>7. Remaining \in Nat
  <2>1. Current.used \in Nat BY <1>3 DEF Counts
  <2>2. QED BY <2>1, QuotaAssumption DEF Remaining
<1>8. QED BY <1>1, <1>2, <1>3, <1>4, <1>5, <1>6, <1>7

LEMMA DataStep ==
  ASSUME DataType, MigrationOK, Next
  PROVE  DataType'
<1> USE DEF quota, store, migration, server, tally, run
<1>0. faults \in Nat /\ faults + 1 \in Nat BY DEF DataType
<1>1. CASE NewDay BY <1>1, CountTypes DEF NewDay, DataType
<1>2. CASE Load BY <1>2, CountTypes DEF Load, DataType
<1>3. CASE Finish BY <1>3, CountTypes DEF Finish, DataType
<1>4. CASE Migrate BY <1>4 DEF Migrate, Enumerate, DataType
<1>5. CASE MigrateStep \/ MigrateFault
  <2>1. file \in Counts /\ mem \in Counts /\ UNCHANGED <<file, mem, site, charged, unsaved, seen>>
        /\ faults' \in Nat
    BY <1>0, <1>5 DEF MigrateStep, MigrateFault, Fault, DataType
  <2>2. ASSUME NEW s \in Sessions,
               SkipExisting(s) \/ BeginFile(s) \/ FinishFile(s) \/ DropPlain(s)
                 \/ WriteBreaks(s) \/ ReadBackFails(s)
        PROVE  DataType'
    <3> USE DEF DataType
    <3>1. CASE SkipExisting(s) BY <2>1, <3>1 DEF SkipExisting
    <3>2. CASE BeginFile(s) BY <2>1, <3>2 DEF BeginFile
    <3>3. CASE FinishFile(s)
      <4>1. plain[s] \in Versions \union {Absent, Torn} OBVIOUS
      <4>2. gz' \in [Sessions -> Versions \union {Absent, Torn}] BY <3>3, <4>1 DEF FinishFile
      <4>3. QED BY <2>1, <3>3, <4>2 DEF FinishFile
    <3>4. CASE DropPlain(s) BY <2>1, <3>4 DEF DropPlain
    <3>5. CASE WriteBreaks(s) BY <2>1, <3>5 DEF WriteBreaks
    <3>6. CASE ReadBackFails(s) BY <2>1, <3>6 DEF ReadBackFails
    <3>7. QED BY <2>2, <3>1, <3>2, <3>3, <3>4, <3>5, <3>6
  <2>3. QED BY <1>5, <2>2 DEF MigrateStep, MigrateFault
<1>6. CASE MigrateEnd BY <1>6 DEF MigrateEnd, DataType
<1>7. CASE Crash BY <1>0, <1>7, CountTypes DEF Crash, Fault, DataType
<1>8. ASSUME NEW s \in Sessions, Publish(s) PROVE DataType'
  <2>1. site[s] + 1 \in 0 .. MaxVersion BY <1>8, StoreAssumption DEF Publish, DataType
  <2>2. QED BY <1>8, <2>1 DEF Publish, DataType
<1>9. ASSUME NEW s \in Sessions, Task(s) PROVE DataType'
  <2>1. CASE Enter(s)
    <3>1. charged + 1 \in Nat BY DEF DataType
    <3>2. file' \in Counts /\ mem' \in Counts /\ charged' \in Nat /\ unsaved' = unsaved
      BY <2>1, <3>1, CountTypes DEF Enter, DataType
    <3>3. QED BY <2>1, <3>2 DEF Enter, DataType
  <2>2. CASE EnterUnsaved(s)
    <3>1. charged + 1 \in Nat /\ unsaved + 1 \in Nat BY DEF DataType
    <3>2. QED BY <1>0, <2>2, <3>1, CountTypes DEF EnterUnsaved, Fault, DataType
  <2>3. CASE Send(s)
    <3>1. seen + 1 \in Nat BY DEF DataType
    <3>2. QED BY <2>3, <3>1 DEF Send, DataType
  <2>4. CASE Transient(s) \/ Permanent(s) \/ NoRows(s)
    BY <2>4 DEF Transient, Permanent, NoRows, DataType
  <2>5. CASE Rows(s) \/ RowsLost(s)
    <3>1. site[s] \in Versions BY <2>5, StoreAssumption DEF Rows, RowsLost, DataType, Versions
    <3>2. Written(s, site[s]) \in [Sessions -> Versions \union {Absent, Torn}] BY <3>1 DEF Written, DataType
    <3>3. gz' \in {gz, Written(s, site[s])} BY <2>5 DEF Rows, RowsLost
    <3>4. QED BY <1>0, <2>5, <3>2, <3>3 DEF Rows, RowsLost, Fault, DataType
  <2>6. QED BY <1>9, <2>1, <2>2, <2>3, <2>4, <2>5 DEF Task
<1>10. ASSUME NEW first \in Sessions, NEW last \in Sessions, Plan(first, last) PROVE DataType'
  BY <1>10, CountTypes DEF Plan, DataType
<1>11. QED BY <1>1, <1>2, <1>3, <1>4, <1>5, <1>6, <1>7, <1>8, <1>9, <1>10 DEF Next

\* One session moves to another step.
LEMMA Moves ==
  ASSUME task \in [Sessions -> Steps], NEW s \in Sessions, NEW how \in Steps,
         task' = [task EXCEPT ![s] = how]
  PROVE  /\ task' \in [Sessions -> Steps]
         /\ task'[s] = how /\ \A t \in Sessions \ {s} : task'[t] = task[t]
         /\ how # "todo" => Waiting' = Waiting \ {s}
         /\ InFlight' = IF how \in {"queued", "sent"} THEN InFlight \union {s} ELSE InFlight \ {s}
<1>1. task' \in [Sessions -> Steps] /\ task'[s] = how /\ \A t \in Sessions \ {s} : task'[t] = task[t]
  OBVIOUS
<1>2. how # "todo" => Waiting' = Waiting \ {s} BY <1>1 DEF Waiting, In
<1>3. InFlight' = IF how \in {"queued", "sent"} THEN InFlight \union {s} ELSE InFlight \ {s}
  BY <1>1 DEF InFlight, In
<1>4. QED BY <1>1, <1>2, <1>3

LEMMA NothingMoves ==
  ASSUME task' = task
  PROVE  Waiting' = Waiting /\ InFlight' = InFlight
BY DEF Waiting, InFlight, In

LEMMA IdleSets ==
  ASSUME task = Idle
  PROVE  Waiting = {} /\ InFlight = {}
BY DEF Idle, Waiting, InFlight, In

LEMMA IdleType == Idle \in [Sessions -> Steps]
BY DEF Idle, Steps

\* What a session in flight comes to.
Ends(s) ==
  /\ task[s] = "sent" /\ UNCHANGED <<quota, tally, seen, migration, plain, job>>
  /\ \E how \in {"written", "skipped", "pending", "failed"} : End(s, how)
  /\ gz' = gz \/ (gz' = Written(s, site[s]) /\ site[s] > 0)

Resends(s) ==
  /\ task[s] = "sent" /\ tries[s] < MaxAttempts
  /\ task' = [task EXCEPT ![s] = "queued"]
  /\ UNCHANGED <<quota, tally, seen, migration, gz, plain, job, tries>>

\* A session is charged, in the file or in memory only.
Charges(s) ==
  /\ Admitted(s) /\ task' = [task EXCEPT ![s] = "queued"]
  /\ mem' = Charged /\ charged' = charged + 1
  /\ \/ file' = Charged /\ unsaved' = unsaved
     \/ file' = file /\ unsaved' = unsaved + 1
  /\ UNCHANGED <<seen, migration, gz, plain, job, tries>>

Refuses(s) ==
  /\ Admitted(s) /\ Remaining = 0 /\ task' = [task EXCEPT ![s] = "refused"]
  /\ mem' = Looked
  /\ UNCHANGED <<file, tally, seen, migration, gz, plain, job, tries>>

LEMMA TaskShapes ==
  ASSUME NEW s \in Sessions, Task(s)
  PROVE  Ends(s) \/ Resends(s) \/ Send(s) \/ Refuses(s) \/ (Charges(s) /\ Remaining # 0)
<1> USE DEF quota, store, migration, server, tally, run
<1>1. CASE Enter(s) BY <1>1 DEF Enter, Refuses, Charges
<1>2. CASE EnterUnsaved(s) BY <1>2, QuotaAssumption DEF EnterUnsaved, Charges
<1>3. CASE Transient(s)
  <2>1. CASE tries[s] < MaxAttempts BY <1>3, <2>1 DEF Transient, Resends
  <2>2. CASE ~ (tries[s] < MaxAttempts)
    <3>1. End(s, "failed") BY <1>3, <2>2 DEF Transient
    <3>2. \E how \in {"written", "skipped", "pending", "failed"} : End(s, how) BY <3>1
    <3>3. task[s] = "sent" /\ UNCHANGED <<quota, tally, seen, migration, plain, job>> /\ gz' = gz
      BY <1>3 DEF Transient
    <3>4. QED BY <3>2, <3>3 DEF Ends
  <2>3. QED BY <2>1, <2>2
<1>4. CASE Permanent(s)
  <2>1. \E how \in {"written", "skipped", "pending", "failed"} : End(s, how) BY <1>4 DEF Permanent
  <2>2. task[s] = "sent" /\ UNCHANGED <<quota, tally, seen, migration, plain, job>> /\ gz' = gz
    BY <1>4 DEF Permanent
  <2>3. QED BY <2>1, <2>2 DEF Ends
<1>5. CASE NoRows(s)
  <2>1. \E how \in {"written", "skipped", "pending", "failed"} : End(s, how) BY <1>5 DEF NoRows
  <2>2. task[s] = "sent" /\ UNCHANGED <<quota, tally, seen, migration, plain, job>> /\ gz' = gz
    BY <1>5 DEF NoRows
  <2>3. QED BY <2>1, <2>2 DEF Ends
<1>6. CASE Rows(s)
  <2>1. CASE gz[s] = Absent BY <1>6, <2>1 DEF Rows, Ends
  <2>2. CASE gz[s] # Absent BY <1>6, <2>2 DEF Rows, Ends
  <2>3. QED BY <2>1, <2>2
<1>7. CASE RowsLost(s) BY <1>7 DEF RowsLost, Ends
<1>8. QED BY <1>1, <1>2, <1>3, <1>4, <1>5, <1>6, <1>7 DEF Task

\* The steps that leave the tasks alone.
Still == NewDay \/ Load \/ Migrate \/ MigrateStep \/ MigrateFault \/ MigrateEnd

LEMMA StillTasks ==
  ASSUME Still \/ \E s \in Sessions : Publish(s)
  PROVE  UNCHANGED <<task, tries>>
BY DEF Still, NewDay, Load, Migrate, MigrateStep, MigrateFault, MigrateEnd, Publish, run

\* Every step, sorted by what it does to the tasks.
LEMMA StepShapes ==
  ASSUME Next
  PROVE  \/ Still \/ \E s \in Sessions : Publish(s)
         \/ Finish \/ Crash
         \/ \E first, last \in Sessions : Plan(first, last)
         \/ \E s \in Sessions : Ends(s) \/ Resends(s) \/ Send(s) \/ Refuses(s) \/ (Charges(s) /\ Remaining # 0)
BY TaskShapes DEF Next, Still

LEMMA RunStep ==
  ASSUME DataType, RunType, TriesOK, Next
  PROVE  RunType' /\ TriesOK'
<1>0. task \in [Sessions -> Steps] /\ tries \in [Sessions -> 0 .. MaxAttempts]
      /\ IsFiniteSet(InFlight) /\ Cardinality(InFlight) \in Nat
  BY SessionSets DEF RunType, InFlight, In
<1>00. Cardinality({}) <= MaxConcurrency /\ 0 \in 0 .. MaxAttempts
  BY BackfillAssumption, FS_EmptySet
<1>1. CASE Still \/ \E s \in Sessions : Publish(s)
  <2>1. UNCHANGED <<task, tries>> BY <1>1, StillTasks
  <2>2. job' \in Jobs /\ (job' # "ingest" => task' = Idle)
    BY <1>1, <2>1 DEF Still, NewDay, Load, Migrate, MigrateStep, MigrateFault, MigrateEnd, Publish,
       run, Jobs, RunType
  <2>3. QED BY <2>1, <2>2, NothingMoves DEF RunType, TriesOK
<1>2. CASE Finish
  <2>1. task' = Idle /\ tries' = tries /\ job' = "none" BY <1>2 DEF Finish
  <2>2. \A s \in Sessions : tries[s] = 0
    BY <1>2 DEF Finish, InFlight, In, TriesOK
  <2>3. QED BY <1>0, <1>00, <2>1, <2>2, IdleSets, IdleType DEF RunType, TriesOK, Jobs, Idle, InFlight, In
<1>3. CASE Crash
  <2>1. task' = Idle /\ tries' = [s \in Sessions |-> 0] /\ job' = "none" BY <1>3 DEF Crash
  <2>2. QED BY <1>00, <2>1, IdleType DEF RunType, TriesOK, Jobs, Idle, InFlight, In
<1>4. ASSUME NEW first \in Sessions, NEW last \in Sessions, Plan(first, last)
      PROVE  RunType' /\ TriesOK'
  <2>1. task = Idle /\ tries' = tries /\ job' = "ingest" BY <1>4 DEF Plan, RunType
  <2>2. \A s \in Sessions : tries[s] = 0 BY <2>1 DEF TriesOK, Idle
  <2>3. task' \in [Sessions -> Steps] /\ \A s \in Sessions : task'[s] \in {"todo", "none"}
    BY <1>4 DEF Plan, Steps
  <2>4. InFlight' = {} BY <2>3 DEF InFlight, In
  <2>5. QED BY <1>0, <1>00, <2>1, <2>2, <2>3, <2>4 DEF RunType, TriesOK, Jobs
<1>5. ASSUME NEW s \in Sessions, Ends(s) PROVE RunType' /\ TriesOK'
  <2>1. PICK how \in {"written", "skipped", "pending", "failed"} : End(s, how) BY <1>5 DEF Ends
  <2>2. task' = [task EXCEPT ![s] = how] /\ tries' = [tries EXCEPT ![s] = 0] /\ how \in Steps
    BY <2>1 DEF End, Steps
  <2>3. task' \in [Sessions -> Steps] /\ task'[s] = how
        /\ (\A t \in Sessions \ {s} : task'[t] = task[t]) /\ InFlight' = InFlight \ {s}
    BY <1>0, <2>2, Moves
  <2>4. tries' \in [Sessions -> 0 .. MaxAttempts] BY <1>0, <1>00, <2>2
  <2>5. Cardinality(InFlight') <= MaxConcurrency
    <3>1. InFlight' \in SUBSET InFlight BY <2>3
    <3>2. Cardinality(InFlight') \in Nat /\ Cardinality(InFlight') <= Cardinality(InFlight)
      BY <1>0, <3>1, SmallerSet
    <3>3. QED BY <1>0, <3>2, BackfillAssumption DEF RunType
  <2>6. job = "ingest" /\ job' = job BY <1>5 DEF Ends, RunType, Idle
  <2>7. TriesOK' BY <1>0, <2>2, <2>3 DEF TriesOK
  <2>8. QED BY <2>3, <2>4, <2>5, <2>6, <2>7 DEF RunType
<1>6. ASSUME NEW s \in Sessions, Resends(s) PROVE RunType' /\ TriesOK'
  <2>1. task' = [task EXCEPT ![s] = "queued"] /\ tries' = tries /\ task[s] = "sent" /\ "queued" \in Steps
        /\ tries[s] < MaxAttempts
    BY <1>6 DEF Resends, Steps
  <2>2. task' \in [Sessions -> Steps] /\ task'[s] = "queued"
        /\ (\A t \in Sessions \ {s} : task'[t] = task[t]) /\ InFlight' = InFlight
    <3>1. s \in InFlight BY <2>1 DEF InFlight, In
    <3>2. InFlight \union {s} = InFlight BY <3>1
    <3>3. QED BY <1>0, <2>1, <3>2, Moves
  <2>3. job = "ingest" /\ job' = job BY <1>6 DEF Resends, RunType, Idle
  <2>4. TriesOK' BY <2>1, <2>2 DEF TriesOK
  <2>5. QED BY <1>0, <2>1, <2>2, <2>3, <2>4 DEF RunType
<1>7. ASSUME NEW s \in Sessions, Send(s) PROVE RunType' /\ TriesOK'
  <2>1. task' = [task EXCEPT ![s] = "sent"] /\ tries' = [tries EXCEPT ![s] = @ + 1]
        /\ task[s] = "queued" /\ "sent" \in Steps
    BY <1>7 DEF Send, Steps
  <2>2. task' \in [Sessions -> Steps] /\ task'[s] = "sent"
        /\ (\A t \in Sessions \ {s} : task'[t] = task[t]) /\ InFlight' = InFlight
    <3>1. s \in InFlight BY <2>1 DEF InFlight, In
    <3>2. InFlight \union {s} = InFlight BY <3>1
    <3>3. QED BY <1>0, <2>1, <3>2, Moves
  <2>3. tries[s] + 1 \in 0 .. MaxAttempts
    BY <1>0, <2>1, BackfillAssumption DEF TriesOK
  <2>4. tries' \in [Sessions -> 0 .. MaxAttempts] BY <1>0, <2>1, <2>3
  <2>5. job = "ingest" /\ job' = job BY <1>7, <2>1 DEF Send, RunType, Idle
  <2>6. TriesOK' BY <1>0, <2>1, <2>2 DEF TriesOK
  <2>7. QED BY <2>2, <2>4, <2>5, <2>6 DEF RunType
<1>8. ASSUME NEW s \in Sessions, Refuses(s) \/ Charges(s) PROVE RunType' /\ TriesOK'
  <2>1. Admitted(s) /\ tries' = tries /\ job' = job BY <1>8 DEF Refuses, Charges
  <2>2. PICK how \in {"refused", "queued"} : task' = [task EXCEPT ![s] = how]
    BY <1>8 DEF Refuses, Charges
  <2>3. how \in Steps BY DEF Steps
  <2>4. task' \in [Sessions -> Steps] /\ task'[s] = how
        /\ (\A t \in Sessions \ {s} : task'[t] = task[t])
        /\ (InFlight' = InFlight \union {s} \/ InFlight' = InFlight \ {s})
    BY <1>0, <2>2, <2>3, Moves
  <2>5. task[s] = "todo" /\ job = "ingest" /\ Cardinality(InFlight) < MaxConcurrency
    BY <2>1 DEF Admitted, Waiting, In
  <2>6. Cardinality(InFlight') <= MaxConcurrency
    <3>1. s \notin InFlight BY <2>5 DEF InFlight, In
    <3>2. Cardinality(InFlight \union {s}) = Cardinality(InFlight) + 1
      BY <1>0, <3>1, FS_AddElement
    <3>3. InFlight \ {s} = InFlight BY <3>1
    <3>4. QED BY <1>0, <2>4, <2>5, <3>2, <3>3, BackfillAssumption
  <2>7. tries[s] = 0 BY <2>5 DEF TriesOK
  <2>8. TriesOK' BY <2>1, <2>4, <2>7, BackfillAssumption DEF TriesOK
  <2>9. QED BY <1>0, <2>1, <2>4, <2>5, <2>6, <2>8 DEF RunType
<1>9. QED BY <1>1, <1>2, <1>3, <1>4, <1>5, <1>6, <1>7, <1>8, StepShapes

-----------------------------------------------------------------------------
(* The quota *)

LEMMA QuotaRest ==
  ASSUME \/ Migrate \/ MigrateStep \/ MigrateFault \/ MigrateEnd
         \/ \E s \in Sessions : Publish(s) \/ Ends(s) \/ Resends(s) \/ Send(s)
  PROVE  UNCHANGED <<file, mem, charged, unsaved>>
BY DEF Migrate, MigrateStep, MigrateFault, MigrateEnd, Publish, Ends, Resends, Send, quota, tally

LEMMA LedgerStep ==
  ASSUME DataType, LedgerOK, Next
  PROVE  LedgerOK'
<1> USE DEF quota, tally
<1>0. /\ file \in Counts /\ mem \in Counts /\ charged \in Nat /\ unsaved \in Nat
      /\ file.used \in Nat /\ mem.used \in Nat /\ Quota \in Nat
  BY QuotaAssumption DEF DataType, Counts
<1>1. CASE UNCHANGED <<file, mem, charged, unsaved>>
  BY <1>1 DEF LedgerOK
<1>2. CASE NewDay
  <2>1. file'.date # "today" /\ mem'.date # "today"
    BY <1>0, <1>2 DEF NewDay, Aged, Counts, Dates
  <2>2. QED BY <1>2, <2>1 DEF NewDay, LedgerOK
<1>3. CASE Load
  BY <1>0, <1>3 DEF Load, Loaded, Nothing, LedgerOK
<1>4. CASE Finish \/ Crash
  BY <1>0, <1>4 DEF Finish, Crash, Nothing, LedgerOK
<1>5. ASSUME file' = file, charged' = charged, unsaved' = unsaved, mem' = Looked PROVE LedgerOK'
  BY <1>0, <1>5 DEF Looked, Loaded, Nothing, LedgerOK
<1>6. ASSUME NEW s \in Sessions, Charges(s), Remaining # 0 PROVE LedgerOK'
  <2>1. UsedBefore \in Nat /\ UsedBefore + 1 <= Quota
    <3>1. Current.used \in Nat BY <1>0, CountTypes DEF Counts
    <3>2. Current.used < Quota BY <1>0, <1>6, <3>1 DEF Remaining
    <3>3. QED BY <1>0, <3>1, <3>2 DEF UsedBefore
  <2>2. charged <= UsedBefore + unsaved
    <3>1. CASE mem.date = "past" BY <1>0, <3>1 DEF LedgerOK, UsedBefore
    <3>2. CASE mem.date = "today" BY <1>0, <3>2 DEF LedgerOK, UsedBefore, Current
    <3>3. CASE mem.date \notin {"past", "today"}
      BY <1>0, <3>3 DEF LedgerOK, UsedBefore, Current, Loaded, Nothing
    <3>4. QED BY <3>1, <3>2, <3>3
  <2>3. mem'.date = "today" /\ mem'.used = UsedBefore + 1 /\ charged' = charged + 1
    BY <1>6 DEF Charges, Charged
  <2>4. CASE file' = Charged /\ unsaved' = unsaved
    <3>1. file'.date = "today" /\ file'.used = UsedBefore + 1 BY <2>4 DEF Charged
    <3>2. QED BY <1>0, <2>1, <2>2, <2>3, <2>4, <3>1 DEF LedgerOK
  <2>5. CASE file' = file /\ unsaved' = unsaved + 1
    BY <1>0, <2>1, <2>2, <2>3, <2>5 DEF LedgerOK
  <2>6. QED BY <1>6, <2>4, <2>5 DEF Charges
<1>7. ASSUME NEW first \in Sessions, NEW last \in Sessions, Plan(first, last) PROVE LedgerOK'
  BY <1>5, <1>7 DEF Plan
<1>8. ASSUME NEW s \in Sessions, Refuses(s) PROVE LedgerOK'
  BY <1>5, <1>8 DEF Refuses
<1>9. QED
  BY <1>1, <1>2, <1>3, <1>4, <1>6, <1>7, <1>8, StepShapes, QuotaRest DEF Still

LEMMA WithinFromLedger ==
  ASSUME DataType, LedgerOK
  PROVE  WithinQuota
<1>1. charged \in Nat /\ unsaved \in Nat /\ file.used \in Nat /\ Quota \in Nat
  BY QuotaAssumption DEF DataType, Counts
<1>2. QED BY <1>1 DEF LedgerOK, WithinQuota

\* Looking at the file does not change what is left.
LEMMA LookKeepsRemaining ==
  ASSUME file' = file, mem' = Looked
  PROVE  Remaining' = Remaining
<1>1. Loaded' = Loaded BY DEF Loaded
<1>2. Current' = Current BY <1>1 DEF Current, Looked, Loaded
<1>3. QED BY <1>2 DEF Remaining

LEMMA WaitingFinite ==
  IsFiniteSet(Waiting) /\ Cardinality(Waiting) \in Nat
BY SessionSets DEF Waiting, In

LEMMA PlanStep ==
  ASSUME DataType, DataType', RunType, PlanFits, Next
  PROVE  PlanFits'
<1> USE DEF quota, tally
<1>0. /\ Remaining \in Nat /\ Cardinality(Waiting) \in Nat /\ IsFiniteSet(Waiting) /\ Quota \in Nat
      /\ file \in Counts /\ mem \in Counts
  BY CountTypes, WaitingFinite, QuotaAssumption DEF DataType
<1>00. Current.used \in Nat BY <1>0, CountTypes DEF Counts
<1>1. ASSUME file' = file, mem' = mem, Waiting' = Waiting PROVE PlanFits'
  BY <1>1 DEF PlanFits, Remaining, Current, Loaded
<1>2. CASE NewDay
  <2>1. Waiting' = Waiting BY <1>2, NothingMoves DEF NewDay, run
  <2>2. file'.date # "today" /\ mem'.date # "today"
    BY <1>0, <1>2 DEF NewDay, Aged, Counts, Dates
  <2>3. Current'.used = 0 BY <2>2 DEF Current, Loaded, Nothing
  <2>4. Remaining' = Quota BY <1>0, <2>3 DEF Remaining
  <2>5. Remaining <= Quota BY <1>0, <1>00 DEF Remaining
  <2>6. QED BY <1>0, <2>1, <2>4, <2>5 DEF PlanFits
<1>3. ASSUME Waiting' = {} PROVE PlanFits'
  <2>1. Current'.used \in Nat
    BY DEF DataType, Current, Loaded, Nothing, Counts
  <2>2. 0 <= Remaining' BY <1>0, <2>1 DEF Remaining
  <2>3. QED BY <1>3, <2>2, FS_EmptySet DEF PlanFits
<1>4. CASE Load
  <2>1. task' = Idle BY <1>4 DEF Load, RunType
  <2>2. QED BY <1>3, <2>1 DEF Waiting, In, Idle
<1>5. CASE Finish \/ Crash
  <2>1. task' = Idle BY <1>5 DEF Finish, Crash
  <2>2. QED BY <1>3, <2>1 DEF Waiting, In, Idle
<1>6. CASE Migrate \/ MigrateStep \/ MigrateFault \/ MigrateEnd \/ \E s \in Sessions : Publish(s)
  BY <1>1, <1>6, QuotaRest, StillTasks, NothingMoves DEF Still
<1>7. ASSUME NEW first \in Sessions, NEW last \in Sessions, Plan(first, last) PROVE PlanFits'
  <2> DEFINE M == Missing(first, last)
  <2>1. M \in SUBSET Sessions BY DEF Missing
  <2>2. Waiting' = Scheduled(M)
    BY <1>7 DEF Plan, Waiting, In, Missing, Scheduled
  <2>3. Cardinality(Scheduled(M)) <= Remaining BY <1>0, <2>1, ScheduledFits
  <2>4. Remaining' = Remaining BY <1>7, LookKeepsRemaining DEF Plan
  <2>5. QED BY <2>2, <2>3, <2>4 DEF PlanFits
<1>8. ASSUME NEW s \in Sessions, Ends(s) \/ Resends(s) \/ Send(s) PROVE PlanFits'
  <2>1. task[s] # "todo" BY <1>8 DEF Ends, Resends, Send
  <2>2. PICK how \in Steps \ {"todo"} : task' = [task EXCEPT ![s] = how]
    BY <1>8 DEF Ends, Resends, Send, End, Steps
  <2>3. Waiting' = Waiting \ {s} BY <2>2, Moves DEF RunType
  <2>4. Waiting' = Waiting BY <2>1, <2>3 DEF Waiting, In
  <2>5. file' = file /\ mem' = mem BY <1>8, QuotaRest
  <2>6. QED BY <1>1, <2>4, <2>5
<1>9. ASSUME NEW s \in Sessions, Refuses(s) \/ (Charges(s) /\ Remaining # 0) PROVE PlanFits'
  <2>1. s \in Waiting BY <1>9 DEF Refuses, Charges, Admitted
  <2>2. PICK how \in Steps \ {"todo"} : task' = [task EXCEPT ![s] = how]
    BY <1>9 DEF Refuses, Charges, Steps
  <2>3. Waiting' = Waiting \ {s} BY <2>2, Moves DEF RunType
  <2>4. Cardinality(Waiting') = Cardinality(Waiting) - 1
    BY <1>0, <2>1, <2>3, FS_RemoveElement
  <2>5. Remaining # 0
    <3>1. Cardinality(Waiting) # 0 BY <1>0, <2>1, FS_EmptySet
    <3>2. QED BY <1>0, <3>1 DEF PlanFits
  <2>6. Charges(s) BY <1>9, <2>5 DEF Refuses
  <2>7. UsedBefore \in Nat /\ UsedBefore <= Current.used
    BY <1>0, <1>00, CountTypes DEF UsedBefore
  <2>8. Current'.used = UsedBefore + 1 BY <2>6 DEF Charges, Charged, Current
  <2>9. Remaining - 1 <= Remaining' BY <1>0, <1>00, <2>5, <2>7, <2>8 DEF Remaining
  <2>10. QED
    <3>1. Remaining' \in Int BY <1>0, <2>7, <2>8 DEF Remaining
    <3>2. QED BY <1>0, <2>4, <2>9, <3>1 DEF PlanFits
<1>10. QED
  BY <1>2, <1>4, <1>5, <1>6, <1>7, <1>8, <1>9, StepShapes DEF Still

LEMMA RefusedStep ==
  ASSUME DataType, RunType, PlanFits, NoneRefused, Next
  PROVE  NoneRefused'
<1>0. task \in [Sessions -> Steps] BY DEF RunType
<1>1. ASSUME NEW s \in Sessions, NEW how \in Steps \ {"refused"}, task' = [task EXCEPT ![s] = how]
      PROVE  NoneRefused'
  BY <1>0, <1>1 DEF NoneRefused, In
<1>2. CASE Still \/ \E s \in Sessions : Publish(s)
  BY <1>2, StillTasks DEF NoneRefused, In
<1>3. CASE Finish \/ Crash
  BY <1>3 DEF Finish, Crash, Idle, NoneRefused, In
<1>4. CASE \E first, last \in Sessions : Plan(first, last)
  BY <1>4 DEF Plan, NoneRefused, In
<1>5. ASSUME NEW s \in Sessions, Ends(s) \/ Resends(s) \/ Send(s) \/ Charges(s) PROVE NoneRefused'
  <2>1. \E how \in Steps \ {"refused"} : task' = [task EXCEPT ![s] = how]
    BY <1>5 DEF Ends, Resends, Send, Charges, End, Steps
  <2>2. QED BY <1>1, <2>1
<1>6. ASSUME NEW s \in Sessions, Refuses(s) PROVE FALSE
  <2>1. s \in Waiting /\ Remaining = 0 BY <1>6 DEF Refuses, Admitted
  <2>2. Cardinality(Waiting) \in Nat /\ Cardinality(Waiting) # 0
    BY <2>1, WaitingFinite, FS_EmptySet
  <2>3. QED BY <2>1, <2>2 DEF PlanFits
<1>7. QED BY <1>2, <1>3, <1>4, <1>5, <1>6, StepShapes

-----------------------------------------------------------------------------
(* The store *)

LEMMA SentinelsDiffer == Absent \notin Versions /\ Torn \notin Versions /\ Absent # Torn
BY StoreAssumption DEF Absent, Torn, Versions

LEMMA MigrationStill ==
  ASSUME MigrationOK, UNCHANGED <<plain, left, cursor, complete>>,
         cursor = 0 \/ gz' = gz, job' # "migrate" => job # "migrate"
  PROVE  MigrationOK'
BY DEF MigrationOK

LEMMA MigrationStep ==
  ASSUME DataType, RunType, MigrationOK, Next
  PROVE  MigrationOK'
<1> USE DEF store, migration, run
<1>0. plain \in [Sessions -> Versions \union {Absent}] /\ 0 \notin Sessions
      /\ gz \in [Sessions -> Versions \union {Absent, Torn}]
  BY StoreAssumption DEF DataType
<1>1. CASE Finish \/ NewDay \/ Load
  BY <1>1, MigrationStill DEF Finish, NewDay, Load
<1>2. CASE Crash BY <1>2 DEF Crash, MigrationOK
<1>3. CASE Migrate
  <2>1. \A s \in left' : plain'[s] \in Versions BY <1>0, <1>3 DEF Migrate, Enumerate
  <2>2. QED BY <1>3, <2>1 DEF Migrate, Enumerate, MigrationOK
<1>4. CASE MigrateEnd BY <1>4 DEF MigrateEnd, MigrationOK
<1>5. ASSUME NEW s \in Sessions, job = "migrate", job' = job,
             SkipExisting(s) \/ BeginFile(s) \/ FinishFile(s) \/ DropPlain(s)
               \/ WriteBreaks(s) \/ ReadBackFails(s)
      PROVE  MigrationOK'
  <2>1. CASE SkipExisting(s)
    <3>1. \A t \in left' : t \in left /\ t # s /\ plain'[t] = plain[t] BY <1>0, <2>1 DEF SkipExisting, DataType
    <3>2. QED BY <1>5, <2>1, <3>1 DEF SkipExisting, MigrationOK
  <2>2. CASE BeginFile(s)
    <3>1. gz'[s] = Torn BY <1>0, <2>2 DEF BeginFile
    <3>2. plain[s] \in Versions BY <2>2 DEF BeginFile, MigrationOK
    <3>3. QED BY <1>5, <2>2, <3>1, <3>2 DEF BeginFile, MigrationOK
  <2>3. CASE FinishFile(s)
    <3>1. gz'[s] = plain[s] BY <1>0, <2>3 DEF FinishFile
    <3>2. QED BY <1>0, <1>5, <2>3, <3>1 DEF FinishFile, MigrationOK
  <2>4. CASE DropPlain(s)
    <3>1. \A t \in left : t # s => plain'[t] = plain[t] BY <1>0, <2>4 DEF DropPlain, DataType
    <3>2. s \notin left' BY <1>0, <2>4 DEF DropPlain, MigrationOK
    <3>3. QED BY <1>5, <2>4, <3>1, <3>2 DEF DropPlain, MigrationOK
  <2>5. CASE WriteBreaks(s) BY <1>5, <2>5 DEF WriteBreaks, MigrationOK
  <2>6. CASE ReadBackFails(s) BY <1>5, <2>6 DEF ReadBackFails, MigrationOK
  <2>7. QED BY <1>5, <2>1, <2>2, <2>3, <2>4, <2>5, <2>6
<1>6. CASE MigrateStep BY <1>5, <1>6 DEF MigrateStep
<1>7. CASE MigrateFault BY <1>5, <1>7 DEF MigrateFault
<1>8. ASSUME NEW s \in Sessions, Publish(s) PROVE MigrationOK'
  BY <1>8, MigrationStill DEF Publish
<1>9. ASSUME NEW first \in Sessions, NEW last \in Sessions, Plan(first, last) PROVE MigrationOK'
  BY <1>9, MigrationStill DEF Plan
<1>10. ASSUME NEW s \in Sessions, Ends(s) \/ Resends(s) \/ Send(s) \/ Refuses(s) \/ Charges(s)
       PROVE  MigrationOK'
  <2>1. task[s] # "none"
    BY <1>10 DEF Ends, Resends, Send, Refuses, Charges, Admitted, Waiting, In
  <2>2. job = "ingest" BY <2>1 DEF RunType, Idle
  <2>3. cursor = 0 /\ job' = job /\ UNCHANGED <<plain, left, cursor, complete>>
    BY <1>10, <2>2 DEF Ends, Resends, Send, Refuses, Charges, MigrationOK
  <2>4. QED BY <2>2, <2>3, MigrationStill
<1>11. QED
  BY <1>1, <1>2, <1>3, <1>4, <1>6, <1>7, <1>8, <1>9, <1>10, StepShapes DEF Still

\* While an ingest runs, only an answer with rows changes the store, and only
\* where nothing was.
LEMMA AskedStep ==
  ASSUME DataType, RunType, AskedMissing, Next
  PROVE  AskedMissing'
<1> USE DEF store, run
<1>0. task \in [Sessions -> Steps] /\ gz \in [Sessions -> Versions \union {Absent, Torn}]
  BY DEF RunType, DataType
<1>1. ASSUME task' = task, gz' = gz, plain' = plain PROVE AskedMissing'
  BY <1>1 DEF AskedMissing, Pending
<1>2. ASSUME task' = Idle PROVE AskedMissing'
  BY <1>2 DEF AskedMissing, Pending, Idle
<1>3. CASE NewDay \/ Load \/ \E s \in Sessions : Publish(s)
  BY <1>1, <1>3 DEF NewDay, Load, Publish
<1>4. CASE Migrate \/ MigrateStep \/ MigrateFault \/ MigrateEnd
  <2>1. task' = task /\ job # "ingest"
    BY <1>4 DEF Migrate, MigrateStep, MigrateFault, MigrateEnd
  <2>2. QED BY <1>2, <2>1 DEF RunType
<1>5. CASE Finish \/ Crash
  BY <1>2, <1>5 DEF Finish, Crash
<1>6. ASSUME NEW first \in Sessions, NEW last \in Sessions, Plan(first, last) PROVE AskedMissing'
  <2>1. \A s \in Sessions : task'[s] = "todo" => ~ HasSession(s)
    BY <1>6 DEF Plan, Scheduled, Missing
  <2>2. \A s \in Sessions : task'[s] \in {"todo", "none"} /\ gz' = gz /\ plain' = plain
    BY <1>6 DEF Plan
  <2>3. QED BY <2>1, <2>2 DEF AskedMissing, Pending, HasSession
<1>7. ASSUME NEW s \in Sessions, Ends(s) PROVE AskedMissing'
  <2>1. PICK how \in {"written", "skipped", "pending", "failed"} : task' = [task EXCEPT ![s] = how]
    BY <1>7 DEF Ends, End
  <2>2. plain' = plain /\ \A t \in Sessions \ {s} : gz'[t] = gz[t] BY <1>0, <1>7 DEF Ends, Written
  <2>3. task'[s] = how /\ \A t \in Sessions \ {s} : task'[t] = task[t] BY <1>0, <2>1
  <2>4. QED BY <2>2, <2>3 DEF AskedMissing, Pending
<1>8. ASSUME NEW s \in Sessions, Resends(s) \/ Send(s) \/ Refuses(s) \/ Charges(s) PROVE AskedMissing'
  <2>1. PICK how \in Steps : task' = [task EXCEPT ![s] = how]
    BY <1>8 DEF Resends, Send, Refuses, Charges, Steps
  <2>2. gz' = gz /\ plain' = plain BY <1>8 DEF Resends, Send, Refuses, Charges
  <2>3. Pending(s) BY <1>8 DEF Resends, Send, Refuses, Charges, Admitted, Waiting, In, Pending
  <2>4. \A t \in Sessions \ {s} : task'[t] = task[t] BY <1>0, <2>1
  <2>5. QED BY <2>2, <2>3, <2>4 DEF AskedMissing, Pending
<1>9. QED BY <1>3, <1>4, <1>5, <1>6, <1>7, <1>8, StepShapes DEF Still

Kept == \A s \in Sessions : Contents(s) # {} => Contents(s)' = Contents(s)

LEMMA KeptStep ==
  ASSUME DataType, AskedMissing, MigrationOK, Next
  PROVE  Kept
<1> USE DEF store, run
<1>0. plain \in [Sessions -> Versions \union {Absent}]
      /\ gz \in [Sessions -> Versions \union {Absent, Torn}] /\ 0 \notin Sessions
  BY StoreAssumption DEF DataType
<1>1. ASSUME gz' = gz, plain' = plain PROVE Kept
  BY <1>1 DEF Kept, Contents
<1>2. ASSUME NEW s \in Sessions,
             \A t \in Sessions \ {s} : gz'[t] = gz[t] /\ plain'[t] = plain[t],
             Contents(s) # {} => Contents(s)' = Contents(s)
      PROVE  Kept
  BY <1>2 DEF Kept, Contents
<1>3. CASE NewDay \/ Load \/ Migrate \/ MigrateEnd \/ Finish \/ Crash
  BY <1>1, <1>3 DEF NewDay, Load, Migrate, Enumerate, MigrateEnd, Finish, Crash
<1>4. ASSUME NEW s \in Sessions,
             SkipExisting(s) \/ BeginFile(s) \/ FinishFile(s) \/ DropPlain(s)
               \/ WriteBreaks(s) \/ ReadBackFails(s)
      PROVE  Kept
  <2>1. CASE SkipExisting(s)
    <3>1. CASE plain' = plain BY <1>1, <2>1, <3>1 DEF SkipExisting
    <3>2. CASE plain' # plain
      <4>1. gz[s] = plain[s] /\ gz[s] # Absent /\ gz' = gz /\ plain' = [plain EXCEPT ![s] = Absent]
        BY <2>1, <3>2 DEF SkipExisting, Same
      <4>2. QED BY <1>0, <1>2, <4>1, SentinelsDiffer DEF Contents
    <3>3. QED BY <3>1, <3>2
  <2>2. CASE BeginFile(s)
    <3>1. gz[s] = Absent /\ gz' = [gz EXCEPT ![s] = Torn] /\ plain' = plain BY <2>2 DEF BeginFile
    <3>2. QED BY <1>0, <1>2, <3>1, SentinelsDiffer DEF Contents
  <2>3. CASE FinishFile(s)
    <3>1. gz[s] = Torn /\ gz' = [gz EXCEPT ![s] = plain[s]] /\ plain' = plain
      BY <1>0, <2>3 DEF FinishFile, MigrationOK
    <3>2. QED BY <1>0, <1>2, <3>1, SentinelsDiffer DEF Contents
  <2>4. CASE DropPlain(s)
    <3>1. CASE plain' = plain BY <1>1, <2>4, <3>1 DEF DropPlain
    <3>2. CASE plain' # plain
      <4>1. gz[s] = plain[s] /\ gz' = gz /\ plain' = [plain EXCEPT ![s] = Absent]
        BY <1>0, <2>4, <3>2 DEF DropPlain, MigrationOK
      <4>2. QED BY <1>0, <1>2, <4>1, SentinelsDiffer DEF Contents
    <3>3. QED BY <3>1, <3>2
  <2>5. CASE WriteBreaks(s) BY <1>1, <2>5 DEF WriteBreaks
  <2>6. CASE ReadBackFails(s)
    <3>1. gz[s] = plain[s] /\ gz' \in {gz, [gz EXCEPT ![s] = Absent]} /\ plain' = plain
      BY <1>0, <2>6 DEF ReadBackFails, MigrationOK
    <3>2. CASE gz' = gz BY <1>1, <3>1, <3>2
    <3>3. CASE gz' = [gz EXCEPT ![s] = Absent]
      BY <1>0, <1>2, <3>1, <3>3, SentinelsDiffer DEF Contents
    <3>4. QED BY <3>1, <3>2, <3>3
  <2>7. QED BY <1>4, <2>1, <2>2, <2>3, <2>4, <2>5, <2>6
<1>5. CASE MigrateStep \/ MigrateFault BY <1>4, <1>5 DEF MigrateStep, MigrateFault
<1>6. CASE \E s \in Sessions : Publish(s) BY <1>1, <1>6 DEF Publish
<1>7. CASE \E first, last \in Sessions : Plan(first, last) BY <1>1, <1>7 DEF Plan
<1>8. ASSUME NEW s \in Sessions, Ends(s) PROVE Kept
  <2>1. CASE gz' = gz BY <1>1, <1>8, <2>1 DEF Ends
  <2>2. CASE gz' # gz
    <3>1. gz' = Written(s, site[s]) /\ plain' = plain /\ gz[s] = Absent /\ plain[s] = Absent
      BY <1>8, <2>2 DEF Ends, AskedMissing, Pending
    <3>2. Contents(s) = {} BY <3>1, SentinelsDiffer DEF Contents
    <3>3. \A t \in Sessions \ {s} : gz'[t] = gz[t] BY <1>0, <3>1 DEF Written
    <3>4. QED BY <1>2, <3>1, <3>2, <3>3
  <2>3. QED BY <2>1, <2>2
<1>9. ASSUME NEW s \in Sessions, Resends(s) \/ Send(s) \/ Refuses(s) \/ Charges(s) PROVE Kept
  BY <1>1, <1>9 DEF Resends, Send, Refuses, Charges
<1>10. QED BY <1>3, <1>5, <1>6, <1>7, <1>8, <1>9, StepShapes DEF Still

-----------------------------------------------------------------------------
(* The requests of a day *)

LEMMA Times ==
  ASSUME NEW k \in Nat, NEW a \in Nat, NEW b \in Nat, a <= b
  PROVE  k * a \in Nat /\ k * a <= k * b
OBVIOUS

LEMMA TimesNext ==
  ASSUME NEW k \in Nat, NEW a \in Nat
  PROVE  k * (a + 1) = k * a + k
OBVIOUS

LEMMA AttemptsOf ==
  ASSUME NEW T \in SUBSET Sessions
  PROVE  /\ IsFiniteSet(T \X (1 .. MaxAttempts))
         /\ Cardinality(T \X (1 .. MaxAttempts)) = Cardinality(T) * MaxAttempts
<1>1. IsFiniteSet(1 .. MaxAttempts) /\ Cardinality(1 .. MaxAttempts) = MaxAttempts
  BY FS_Interval, BackfillAssumption
<1>2. IsFiniteSet(T) BY SessionSets
<1>3. QED BY <1>1, <1>2, FS_Product

LEMMA UnsentFinite ==
  /\ Unsent \in SUBSET (InFlight \X (1 .. MaxAttempts))
  /\ IsFiniteSet(Unsent) /\ Cardinality(Unsent) \in Nat
<1>1. Unsent \in SUBSET (InFlight \X (1 .. MaxAttempts)) BY DEF Unsent
<1>2. IsFiniteSet(InFlight \X (1 .. MaxAttempts)) BY AttemptsOf DEF InFlight, In
<1>3. QED BY <1>1, <1>2, FS_Subset, FS_CardinalityType

LEMMA BudgetShrinks ==
  ASSUME DataType, BudgetOK, Unsent' \in SUBSET Unsent, seen' = seen, charged' = charged
  PROVE  BudgetOK'
<1>1. Cardinality(Unsent') <= Cardinality(Unsent) /\ Cardinality(Unsent') \in Nat
      /\ Cardinality(Unsent) \in Nat
  BY UnsentFinite, SmallerSet
<1>2. MaxAttempts * (charged + MaxConcurrency) \in Nat /\ seen \in Nat
  <2>1. charged + MaxConcurrency \in Nat BY BackfillAssumption DEF DataType
  <2>2. QED BY <2>1, BackfillAssumption, Times DEF DataType
<1> DEFINE bound == MaxAttempts * (charged + MaxConcurrency)
<1>3. seen + Cardinality(Unsent) <= bound BY DEF BudgetOK
<1>4. bound' = bound BY BackfillAssumption
<1> HIDE DEF bound
<1>5. seen + Cardinality(Unsent') <= bound
  BY <1>1, <1>2, <1>3 DEF bound
<1>6. QED BY <1>5 DEF BudgetOK, bound

\* A request that is sent leaves one less to send.
LEMMA BudgetSend ==
  ASSUME DataType, RunType, TriesOK, BudgetOK, NEW s \in Sessions, Send(s)
  PROVE  BudgetOK'
<1> DEFINE r == <<s, tries[s] + 1>>
<1>0. task \in [Sessions -> Steps] /\ tries \in [Sessions -> 0 .. MaxAttempts]
  BY DEF RunType
<1>1. task[s] = "queued" /\ task' = [task EXCEPT ![s] = "sent"] /\ "sent" \in Steps
      /\ tries' = [tries EXCEPT ![s] = tries[s] + 1] /\ seen' = seen + 1 /\ charged' = charged
  BY DEF Send, Steps, tally
<1>2. s \in InFlight /\ InFlight' = InFlight
  <2>1. s \in InFlight BY <1>1 DEF InFlight, In
  <2>2. InFlight \union {s} = InFlight BY <2>1
  <2>3. QED BY <1>0, <1>1, <2>1, <2>2, Moves
<1>3. tries[s] \in Nat /\ tries[s] + 1 \in 1 .. MaxAttempts
  BY <1>0, <1>1, BackfillAssumption DEF TriesOK
<1>4. r \in Unsent BY <1>2, <1>3 DEF Unsent
<1>5. \A t \in Sessions : tries[t] \in Nat /\ tries'[t] = IF t = s THEN tries[s] + 1 ELSE tries[t]
  BY <1>0, <1>1
<1>6. Unsent' \in SUBSET (Unsent \ {r})
  <2>1. ASSUME NEW q \in Unsent' PROVE q \in Unsent \ {r}
    <3>1. q \in Sessions \X (1 .. MaxAttempts) /\ q[1] \in InFlight /\ tries'[q[1]] < q[2]
      BY <1>2, <2>1 DEF Unsent
    <3>2. q[2] \in Nat /\ tries[q[1]] < q[2] BY <1>5, <3>1
    <3>3. q # r BY <1>3, <1>5, <3>1
    <3>4. QED BY <3>1, <3>2, <3>3 DEF Unsent
  <2>2. QED BY <2>1
<1>7. Cardinality(Unsent \ {r}) = Cardinality(Unsent) - 1 /\ IsFiniteSet(Unsent \ {r})
  BY <1>4, UnsentFinite, FS_RemoveElement
<1>8. Cardinality(Unsent') \in Nat /\ Cardinality(Unsent') <= Cardinality(Unsent) - 1
  BY <1>6, <1>7, SmallerSet
<1> DEFINE bound == MaxAttempts * (charged + MaxConcurrency)
<1>9. bound \in Nat /\ seen \in Nat /\ bound' = bound
  <2>1. charged + MaxConcurrency \in Nat BY BackfillAssumption DEF DataType
  <2>2. QED BY <1>1, <2>1, BackfillAssumption, Times DEF DataType
<1>10. seen + Cardinality(Unsent) <= bound BY DEF BudgetOK
<1> HIDE DEF bound
<1>11. seen' + Cardinality(Unsent') <= bound'
  BY <1>1, <1>8, <1>9, <1>10, UnsentFinite
<1>12. QED BY <1>11 DEF BudgetOK, bound

\* A charge pays for MaxAttempts requests.
LEMMA BudgetCharge ==
  ASSUME DataType, RunType, TriesOK, BudgetOK, NEW s \in Sessions, Charges(s)
  PROVE  BudgetOK'
<1> DEFINE paid == {s} \X (1 .. MaxAttempts)
           bound == MaxAttempts * (charged + MaxConcurrency)
<1>0. task \in [Sessions -> Steps] BY DEF RunType
<1>1. task[s] = "todo" /\ task' = [task EXCEPT ![s] = "queued"] /\ "queued" \in Steps
      /\ tries' = tries /\ seen' = seen /\ charged' = charged + 1
  BY DEF Charges, Admitted, Waiting, In, Steps
<1>2. InFlight' = InFlight \union {s} BY <1>0, <1>1, Moves
<1>3. Unsent' \in SUBSET (Unsent \union paid)
  <2>1. ASSUME NEW q \in Unsent' PROVE q \in Unsent \union paid
    <3>1. q \in Sessions \X (1 .. MaxAttempts) /\ q[1] \in InFlight \union {s} /\ tries[q[1]] < q[2]
      BY <1>1, <1>2, <2>1 DEF Unsent
    <3>2. QED BY <3>1 DEF Unsent
  <2>2. QED BY <2>1
<1>4. IsFiniteSet(paid) /\ Cardinality(paid) = MaxAttempts
  <2>1. Cardinality({s}) = 1 /\ {s} \in SUBSET Sessions BY FS_Singleton
  <2>2. IsFiniteSet(paid) /\ Cardinality(paid) = Cardinality({s}) * MaxAttempts BY <2>1, AttemptsOf
  <2> HIDE DEF paid
  <2>3. QED BY <2>1, <2>2, BackfillAssumption
<1>5. /\ IsFiniteSet(Unsent \union paid)
      /\ Cardinality(Unsent \union paid) <= Cardinality(Unsent) + MaxAttempts
  <2>1. /\ IsFiniteSet(Unsent \union paid)
        /\ Cardinality(Unsent \union paid)
             = Cardinality(Unsent) + MaxAttempts - Cardinality(Unsent \intersect paid)
    BY <1>4, UnsentFinite, FS_Union
  <2>2. Unsent \intersect paid \in SUBSET Unsent OBVIOUS
  <2>3. Cardinality(Unsent \intersect paid) \in Nat BY <2>2, UnsentFinite, SmallerSet
  <2> HIDE DEF paid
  <2>4. QED BY <2>1, <2>3, UnsentFinite, BackfillAssumption
<1>6. Cardinality(Unsent') \in Nat /\ Cardinality(Unsent \union paid) \in Nat
      /\ Cardinality(Unsent') <= Cardinality(Unsent \union paid)
  BY <1>3, <1>5, SmallerSet
<1>7. bound \in Nat /\ bound' = bound + MaxAttempts
  <2> DEFINE sum == charged + MaxConcurrency
  <2>1. sum \in Nat /\ sum' = sum + 1 BY <1>1, BackfillAssumption DEF DataType
  <2> HIDE DEF sum
  <2>2. MaxAttempts * sum \in Nat BY <2>1, BackfillAssumption, Times
  <2>3. MaxAttempts * (sum + 1) = MaxAttempts * sum + MaxAttempts
    BY <2>1, BackfillAssumption, TimesNext
  <2>4. QED BY <2>1, <2>2, <2>3 DEF sum
<1>8. seen + Cardinality(Unsent) <= bound BY DEF BudgetOK
<1>9. seen \in Nat BY DEF DataType
<1> HIDE DEF bound, paid
<1>10. seen' + Cardinality(Unsent') <= bound'
  BY <1>1, <1>5, <1>6, <1>7, <1>8, <1>9, UnsentFinite, BackfillAssumption
<1>11. QED BY <1>10 DEF BudgetOK, bound

\* At midnight only the sessions in flight are left to pay for.
LEMMA BudgetMidnight ==
  ASSUME DataType, RunType, NewDay
  PROVE  BudgetOK'
<1>1. Unsent' = Unsent /\ seen' = 0 /\ charged' = 0
  BY NothingMoves DEF NewDay, run, Unsent
<1>2. Cardinality(InFlight) \in Nat /\ Cardinality(InFlight) <= MaxConcurrency
  BY SessionSets DEF RunType, InFlight, In
<1>3. Cardinality(Unsent) \in Nat /\ Cardinality(Unsent) <= MaxAttempts * Cardinality(InFlight)
  <2>1. InFlight \in SUBSET Sessions BY DEF InFlight, In
  <2>2. IsFiniteSet(InFlight \X (1 .. MaxAttempts))
        /\ Cardinality(InFlight \X (1 .. MaxAttempts)) = MaxAttempts * Cardinality(InFlight)
    BY <1>2, <2>1, AttemptsOf, BackfillAssumption
  <2>3. QED BY <2>2, UnsentFinite, SmallerSet
<1>4. MaxAttempts * Cardinality(InFlight) <= MaxAttempts * MaxConcurrency
      /\ MaxAttempts * Cardinality(InFlight) \in Nat
  BY <1>2, BackfillAssumption, Times
<1>5. MaxAttempts * MaxConcurrency \in Nat BY BackfillAssumption, Times
<1>6. Cardinality(Unsent) <= MaxAttempts * MaxConcurrency BY <1>3, <1>4, <1>5
<1>7. charged' + MaxConcurrency = MaxConcurrency BY <1>1, BackfillAssumption
<1>8. seen' + Cardinality(Unsent') <= MaxAttempts * (charged' + MaxConcurrency)
  BY <1>1, <1>3, <1>6, <1>7
<1>9. QED BY <1>8 DEF BudgetOK

LEMMA BudgetStep ==
  ASSUME DataType, RunType, TriesOK, BudgetOK, Next
  PROVE  BudgetOK'
<1> USE DEF run, server, tally, quota
<1>0. task \in [Sessions -> Steps] BY DEF RunType
<1>1. ASSUME InFlight' = InFlight, tries' = tries, seen' = seen, charged' = charged PROVE BudgetOK'
  <2>1. Unsent' = Unsent BY <1>1 DEF Unsent
  <2>2. QED BY <1>1, <2>1, BudgetShrinks
<1>2. ASSUME InFlight' = {}, seen' = seen, charged' = charged PROVE BudgetOK'
  <2>1. Unsent' = {} BY <1>2 DEF Unsent
  <2>2. QED BY <1>2, <2>1, BudgetShrinks
<1>3. CASE Load \/ Migrate \/ MigrateStep \/ MigrateFault \/ MigrateEnd \/ \E s \in Sessions : Publish(s)
  <2>1. task' = task /\ tries' = tries BY <1>3, StillTasks DEF Still
  <2>2. seen' = seen /\ charged' = charged
    BY <1>3 DEF Load, Migrate, MigrateStep, MigrateFault, MigrateEnd, Publish
  <2>3. QED BY <1>1, <2>1, <2>2, NothingMoves
<1>4. CASE Finish \/ Crash
  <2>1. task' = Idle /\ seen' = seen /\ charged' = charged BY <1>4 DEF Finish, Crash
  <2>2. InFlight' = {} BY <2>1 DEF Idle, InFlight, In
  <2>3. QED BY <1>2, <2>1, <2>2
<1>5. CASE \E first, last \in Sessions : Plan(first, last)
  <2>1. seen' = seen /\ charged' = charged /\ \A s \in Sessions : task'[s] \in {"todo", "none"}
    BY <1>5 DEF Plan
  <2>2. InFlight' = {} BY <2>1 DEF InFlight, In
  <2>3. QED BY <1>2, <2>1, <2>2
<1>6. ASSUME NEW s \in Sessions, Ends(s) PROVE BudgetOK'
  <2>1. PICK how \in {"written", "skipped", "pending", "failed"} : End(s, how) BY <1>6 DEF Ends
  <2>2. task' = [task EXCEPT ![s] = how] /\ tries' = [tries EXCEPT ![s] = 0] /\ how \in Steps
    BY <2>1 DEF End, Steps
  <2>3. InFlight' = InFlight \ {s} BY <1>0, <2>2, Moves
  <2>4. \A t \in Sessions \ {s} : tries'[t] = tries[t] BY <2>2 DEF RunType
  <2>5. Unsent' \in SUBSET Unsent BY <2>3, <2>4 DEF Unsent
  <2>6. seen' = seen /\ charged' = charged BY <1>6 DEF Ends
  <2>7. QED BY <2>5, <2>6, BudgetShrinks
<1>7. ASSUME NEW s \in Sessions, Resends(s) PROVE BudgetOK'
  <2>1. task' = [task EXCEPT ![s] = "queued"] /\ "queued" \in Steps BY <1>7 DEF Resends, Steps
  <2>2. InFlight' = InFlight \union {s} BY <1>0, <2>1, Moves
  <2>3. s \in InFlight BY <1>7 DEF Resends, InFlight, In
  <2>4. InFlight' = InFlight BY <2>2, <2>3
  <2>5. QED BY <1>1, <1>7, <2>4 DEF Resends
<1>8. ASSUME NEW s \in Sessions, Refuses(s) PROVE BudgetOK'
  <2>1. task' = [task EXCEPT ![s] = "refused"] /\ "refused" \in Steps BY <1>8 DEF Refuses, Steps
  <2>2. InFlight' = InFlight \ {s} BY <1>0, <2>1, Moves
  <2>3. s \notin InFlight BY <1>8 DEF Refuses, Admitted, Waiting, InFlight, In
  <2>4. InFlight' = InFlight BY <2>2, <2>3
  <2>5. QED BY <1>1, <1>8, <2>4 DEF Refuses
<1>9. QED
  BY <1>3, <1>4, <1>5, <1>6, <1>7, <1>8, StepShapes, BudgetSend, BudgetCharge, BudgetMidnight DEF Still

LEMMA BudgetLimits ==
  ASSUME DataType, WithinQuota, BudgetOK
  PROVE  RequestsBounded
<1> DEFINE paid == charged + MaxConcurrency
           most == Quota + unsaved + MaxConcurrency
<1>1. paid \in Nat /\ most \in Nat /\ paid <= most
  BY QuotaAssumption, BackfillAssumption DEF DataType, WithinQuota
<1>2. seen + Cardinality(Unsent) <= MaxAttempts * paid BY DEF BudgetOK
<1>3. seen \in Nat /\ Cardinality(Unsent) \in Nat BY UnsentFinite DEF DataType
<1> HIDE DEF paid, most
<1>4. MaxAttempts * paid \in Nat /\ MaxAttempts * paid <= MaxAttempts * most
      /\ MaxAttempts * most \in Nat
  BY <1>1, BackfillAssumption, Times
<1>5. seen <= MaxAttempts * most BY <1>2, <1>3, <1>4
<1>6. QED BY <1>5 DEF RequestsBounded, most

-----------------------------------------------------------------------------
(* The inductive invariant *)

IInv ==
  /\ TypeOK /\ TriesOK /\ LedgerOK /\ PlanFits /\ NoneRefused
  /\ AskedMissing /\ MigrationOK /\ BudgetOK

LEMMA InvInit == Init => IInv
<1> SUFFICES ASSUME Init PROVE IInv OBVIOUS
<1>1. task = Idle /\ tries = [s \in Sessions |-> 0] /\ job = "none" BY DEF Init
<1>2. Waiting = {} /\ InFlight = {} BY <1>1, IdleSets
<1>3. Cardinality(Waiting) = 0 /\ Cardinality(InFlight) = 0 BY <1>2, FS_EmptySet
<1>4. DataType
  <2>1. Nothing \in Counts BY DEF Nothing, Counts, Dates
  <2>2. QED BY <2>1 DEF Init, DataType
<1>5. RunType BY <1>1, <1>3, IdleType, BackfillAssumption DEF RunType, Jobs
<1>6. TriesOK BY <1>1 DEF TriesOK, Idle
<1>7. LedgerOK BY DEF Init, LedgerOK, Nothing
<1>8. PlanFits
  <2>1. Remaining \in Nat BY <1>4, CountTypes DEF DataType
  <2>2. QED BY <1>3, <2>1 DEF PlanFits
<1>9. NoneRefused /\ AskedMissing BY <1>1 DEF NoneRefused, AskedMissing, In, Pending, Idle
<1>10. MigrationOK BY DEF Init, MigrationOK
<1>11. BudgetOK
  <2>1. Unsent = {} BY <1>2 DEF Unsent
  <2>2. Cardinality(Unsent) = 0 BY <2>1, FS_EmptySet
  <2>3. seen = 0 /\ charged = 0 BY DEF Init
  <2>4. MaxAttempts * MaxConcurrency \in Nat BY BackfillAssumption, Times
  <2>5. charged + MaxConcurrency = MaxConcurrency BY <2>3, BackfillAssumption
  <2>6. QED BY <2>2, <2>3, <2>4, <2>5 DEF BudgetOK
<1>12. QED BY <1>4, <1>5, <1>6, <1>7, <1>8, <1>9, <1>10, <1>11, TypeParts DEF IInv

LEMMA InvStep == IInv /\ [Next]_vars => IInv'
<1> SUFFICES ASSUME IInv, [Next]_vars PROVE IInv' OBVIOUS
<1>1. DataType /\ RunType BY TypeParts DEF IInv
<1>2. CASE Next
  <2>1. DataType' BY <1>1, <1>2, DataStep DEF IInv
  <2>2. RunType' /\ TriesOK' BY <1>1, <1>2, RunStep DEF IInv
  <2>3. TypeOK' BY <2>1, <2>2 DEF TypeOK, DataType, RunType
  <2>4. LedgerOK' BY <1>1, <1>2, LedgerStep DEF IInv
  <2>5. PlanFits' BY <1>1, <1>2, <2>1, PlanStep DEF IInv
  <2>6. NoneRefused' BY <1>1, <1>2, RefusedStep DEF IInv
  <2>7. AskedMissing' BY <1>1, <1>2, AskedStep DEF IInv
  <2>8. MigrationOK' BY <1>1, <1>2, MigrationStep DEF IInv
  <2>9. BudgetOK' BY <1>1, <1>2, BudgetStep DEF IInv
  <2>10. QED BY <2>2, <2>3, <2>4, <2>5, <2>6, <2>7, <2>8, <2>9 DEF IInv
<1>3. CASE UNCHANGED vars
  BY <1>3 DEF vars, quota, store, migration, server, tally, run, IInv, TypeOK, TriesOK, LedgerOK,
       PlanFits, NoneRefused, AskedMissing, MigrationOK, BudgetOK, Unsent, Waiting, InFlight, In,
       Pending, Remaining, Current, Loaded
<1>4. QED BY <1>2, <1>3

LEMMA InvAlways == Spec => []IInv
BY InvInit, InvStep, PTL DEF Spec

-----------------------------------------------------------------------------
(* Theorems *)

\* Every run keeps the types, the semaphore and the limit of attempts.
THEOREM BackfillTyped == Spec => []TypeOK
<1>1. IInv => TypeOK BY DEF IInv
<1>2. QED BY <1>1, InvAlways, PTL

\* Whatever restarts, midnights and failures there are, a day's charges stay
\* within the quota and the charges that failed to be saved.  LedgerOK says
\* what the file and a process's copy of it know of the charges of today.
THEOREM QuotaRespected == Spec => []WithinQuota
<1>1. IInv => WithinQuota BY TypeParts, WithinFromLedger DEF IInv
<1>2. QED BY <1>1, InvAlways, PTL

\* No planned session is refused: PlanFits, what waits fits what is left, holds
\* from the plan on, since sessions pass the semaphore one by one and the lock
\* keeps other processes from charging.
THEOREM NothingRefused == Spec => []NoneRefused
<1>1. IInv => NoneRefused BY DEF IInv
<1>2. QED BY <1>1, InvAlways, PTL

\* The requests KRX sees in a day: BudgetOK counts those that sessions in flight
\* may still send as if they had been.
THEOREM RequestsLimited == Spec => []RequestsBounded
<1>1. IInv => RequestsBounded BY TypeParts, WithinFromLedger, BudgetLimits DEF IInv
<1>2. QED BY <1>1, InvAlways, PTL

\* No step of an ingest, a migration or a crash loses or replaces what the store
\* holds of a session: MigrationOK says that a compressed file has its content
\* before the plain file goes, AskedMissing that an answer finds no file.
THEOREM StoreIsWriteOnce == Spec => ContentKept
<1>1. IInv /\ [Next]_vars => [\A s \in Sessions : Contents(s) # {} => Contents(s)' = Contents(s)]_vars
  <2> SUFFICES ASSUME IInv, Next
               PROVE  \A s \in Sessions : Contents(s) # {} => Contents(s)' = Contents(s)
    OBVIOUS
  <2>1. Kept BY TypeParts, KeptStep DEF IInv
  <2>2. QED BY <2>1 DEF Kept
<1>2. QED BY <1>1, InvAlways, PTL DEF Spec, ContentKept
=============================================================================
