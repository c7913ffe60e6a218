------------------------------ MODULE Backfill ------------------------------
(***************************************************************************)
(* `mt-etf ingest`, also as the first step of every refresh, and            *)
(* `mt-etf storage-migrate`.  The data lock lets one of them run at a time. *)
(* An ingest loads the quota file, plans the sessions that are missing, as  *)
(* many as the quota allows, and starts a task for each; MaxConcurrency     *)
(* of them get past the semaphore.  The tasks share one thread: a task runs *)
(* from one await to the next without the others.  The process may stop     *)
(* anywhere and midnight may fall anywhere.                                 *)
(***************************************************************************)
EXTENDS QuotaLedger, BronzeStore

CONSTANTS
  MaxConcurrency,  \* settings.max_concurrency
  MaxAttempts,     \* requests of one fetch_session
  Legacy,          \* sessions that may start with a plain file
  MaxFaults        \* bound: crashes and I/O failures

ASSUME BackfillAssumption ==
  /\ MaxConcurrency \in Nat \ {0} /\ MaxAttempts \in Nat \ {0} /\ MaxFaults \in Nat
  /\ Legacy \subseteq Sessions

VARIABLES
  site,     \* publication KRX answers with for a session, 0 for no rows
  job,      \* holder of the data lock
  task,     \* where the ingest is with each session
  tries,    \* requests sent for it
  charged,  \* sessions charged to the quota today
  unsaved,  \* charges of today that failed to reach the file
  seen,     \* requests KRX has received today
  faults

quota  == <<file, mem>>
server == <<site, seen>>
tally  == <<charged, unsaved>>
run    == <<job, task, tries>>
vars   == <<quota, store, migration, server, tally, run, faults>>

Jobs  == {"none", "loaded", "ingest", "migrate"}
Steps == {"none", "todo", "queued", "sent", "written", "skipped", "pending", "failed", "refused"}

In(steps) == {s \in Sessions : task[s] \in steps}
Waiting   == In({"todo"})
InFlight  == In({"queued", "sent"})

Idle == [s \in Sessions |-> "none"]

\* The coroutine of a session returns.
End(s, how) == task' = [task EXCEPT ![s] = how] /\ tries' = [tries EXCEPT ![s] = 0]

Fault == faults < MaxFaults /\ faults' = faults + 1

-----------------------------------------------------------------------------
(* The world *)

\* KRX publishes a session, or corrects it.
Publish(s) ==
  /\ site[s] < MaxVersion
  /\ site' = [site EXCEPT ![s] = @ + 1]
  /\ UNCHANGED <<quota, store, migration, seen, tally, run, faults>>

\* Midnight in Seoul.
NewDay ==
  /\ file' = Aged(file) /\ mem' = Aged(mem)
  /\ charged' = 0 /\ unsaved' = 0 /\ seen' = 0
  /\ UNCHANGED <<store, migration, site, run, faults>>

-----------------------------------------------------------------------------
(* The plan *)

\* cmd_ingest constructs the ledger.
Load ==
  /\ job = "none"
  /\ job' = "loaded" /\ mem' = Loaded
  /\ UNCHANGED <<file, store, migration, server, tally, task, tries, faults>>

Missing(first, last) == {s \in Sessions : first <= s /\ s <= last /\ ~HasSession(s)}

\* Variants named Bad... are faulty versions of the definition after them.
BadScheduled(missing) == missing

\* The oldest missing sessions, as many as the quota has left.
Scheduled(missing) == {s \in missing : Cardinality({t \in missing : t <= s}) <= Remaining}

\* Plan the sessions from first to last and create the tasks.  The rest of the
\* plan is deferred to a later run.
Plan(first, last) ==
  /\ job = "loaded"
  /\ job' = "ingest" /\ mem' = Looked
  /\ task' = [s \in Sessions |-> IF s \in Scheduled(Missing(first, last)) THEN "todo" ELSE "none"]
  /\ UNCHANGED <<file, store, migration, server, tally, tries, faults>>

-----------------------------------------------------------------------------
(* One task *)

\* Tasks pass the semaphore in the order they were created.
Admitted(s) ==
  /\ job = "ingest" /\ s \in Waiting /\ \A t \in Waiting : s <= t
  /\ Cardinality(InFlight) < MaxConcurrency

\* Check the quota and consume it, then call the provider.
Enter(s) ==
  /\ Admitted(s)
  /\ IF Remaining = 0
       THEN /\ task' = [task EXCEPT ![s] = "refused"] /\ mem' = Looked
            /\ UNCHANGED <<file, tally>>
       ELSE /\ task' = [task EXCEPT ![s] = "queued"]
            /\ mem' = Charged /\ file' = Charged
            /\ charged' = charged + 1 /\ UNCHANGED unsaved
  /\ UNCHANGED <<store, migration, server, job, tries, faults>>

\* A ledger that cannot be written is ignored; the count in memory stands.
EnterUnsaved(s) ==
  /\ Admitted(s) /\ Remaining > 0 /\ Fault
  /\ task' = [task EXCEPT ![s] = "queued"]
  /\ mem' = Charged /\ UNCHANGED file
  /\ charged' = charged + 1 /\ unsaved' = unsaved + 1
  /\ UNCHANGED <<store, migration, server, job, tries>>

\* The rate limiter lets a request through.
Send(s) ==
  /\ task[s] = "queued"
  /\ task' = [task EXCEPT ![s] = "sent"]
  /\ tries' = [tries EXCEPT ![s] = @ + 1]
  /\ seen' = seen + 1
  /\ UNCHANGED <<quota, store, migration, site, tally, job, faults>>

\* A timeout, a 429 or a 5xx is tried again.
BadTransient(s) ==
  /\ task[s] = "sent"
  /\ task' = [task EXCEPT ![s] = "queued"]
  /\ UNCHANGED <<quota, store, migration, server, tally, job, tries, faults>>

Transient(s) ==
  /\ task[s] = "sent"
  /\ IF tries[s] < MaxAttempts
       THEN task' = [task EXCEPT ![s] = "queued"] /\ UNCHANGED tries
       ELSE End(s, "failed")
  /\ UNCHANGED <<quota, store, migration, server, tally, job, faults>>

Permanent(s) ==
  /\ task[s] = "sent"
  /\ End(s, "failed")
  /\ UNCHANGED <<quota, store, migration, server, tally, job, faults>>

BadNoRows(s) ==
  /\ task[s] = "sent" /\ site[s] = 0
  /\ gz' = Written(s, Torn)
  /\ End(s, "written")
  /\ UNCHANGED <<quota, plain, migration, server, tally, job, faults>>

\* KRX answers with no rows: not published yet, and not recorded.
NoRows(s) ==
  /\ task[s] = "sent" /\ site[s] = 0
  /\ End(s, "pending")
  /\ UNCHANGED <<quota, store, migration, server, tally, job, faults>>

Rows(s) ==
  /\ task[s] = "sent" /\ site[s] > 0
  /\ gz' = Written(s, site[s])
  /\ End(s, IF gz[s] = Absent THEN "written" ELSE "skipped")
  /\ UNCHANGED <<quota, plain, migration, server, tally, job, faults>>

\* The file cannot be written, or only its directory cannot be synced.
RowsLost(s) ==
  /\ task[s] = "sent" /\ site[s] > 0 /\ Fault
  /\ gz' \in {gz, Written(s, site[s])}
  /\ End(s, "failed")
  /\ UNCHANGED <<quota, plain, migration, server, tally, job>>

\* All tasks are gathered and the process ends.
Finish ==
  /\ job = "ingest" /\ Waiting = {} /\ InFlight = {}
  /\ job' = "none" /\ mem' = Nothing /\ task' = Idle
  /\ UNCHANGED <<file, store, migration, server, tally, tries, faults>>

-----------------------------------------------------------------------------
(* storage-migrate, and crashes *)

Migrate ==
  /\ job = "none" /\ job' = "migrate"
  /\ Enumerate
  /\ UNCHANGED <<quota, server, tally, task, tries, faults>>

MigrateStep ==
  /\ job = "migrate"
  /\ \E s \in Sessions : SkipExisting(s) \/ BeginFile(s) \/ FinishFile(s) \/ DropPlain(s)
  /\ UNCHANGED <<quota, server, tally, run, faults>>

MigrateFault ==
  /\ job = "migrate" /\ Fault
  /\ \E s \in Sessions : WriteBreaks(s) \/ ReadBackFails(s)
  /\ UNCHANGED <<quota, server, tally, run>>

MigrateEnd ==
  /\ job = "migrate" /\ left = {} /\ cursor = 0
  /\ job' = "none"
  /\ UNCHANGED <<quota, store, migration, server, tally, task, tries, faults>>

\* The process dies; its lock and what it had in memory are gone.
Crash ==
  /\ job # "none" /\ Fault
  /\ job' = "none" /\ mem' = Nothing /\ task' = Idle
  /\ tries' = [s \in Sessions |-> 0]
  /\ left' = {} /\ cursor' = 0 /\ complete' = FALSE
  /\ UNCHANGED <<file, store, server, tally>>

-----------------------------------------------------------------------------
Init ==
  /\ site \in [Sessions -> 0 .. MaxVersion]
  /\ plain \in [Sessions -> {Absent} \union Versions] /\ gz \in [Sessions -> {Absent} \union Versions]
  /\ \A s \in Sessions :
       /\ plain[s] <= site[s] /\ gz[s] <= site[s]
       /\ plain[s] # Absent => s \in Legacy
  /\ left = {} /\ cursor = 0 /\ complete = FALSE
  /\ file = Nothing /\ mem = Nothing
  /\ job = "none" /\ task = Idle /\ tries = [s \in Sessions |-> 0]
  /\ charged = 0 /\ unsaved = 0 /\ seen = 0 /\ faults = 0

Task(s) ==
  \/ Enter(s) \/ EnterUnsaved(s) \/ Send(s) \/ Transient(s) \/ Permanent(s)
  \/ NoRows(s) \/ Rows(s) \/ RowsLost(s)

Next ==
  \/ NewDay \/ Load \/ Finish \/ Migrate \/ MigrateStep \/ MigrateFault \/ MigrateEnd \/ Crash
  \/ \E s \in Sessions : Publish(s) \/ Task(s)
  \/ \E first, last \in Sessions : Plan(first, last)

Spec == Init /\ [][Next]_vars

-----------------------------------------------------------------------------
(* Fairness.  A timer starts an ingest again and again, and that of a refresh *)
(* asks for every session missing (module DailyRefresh); a task that can go   *)
(* on does; a request comes to an end, if only by its timeout; KRX publishes  *)
(* every session and answers one of the requests for it that never stop.      *)

PlanAll == \E first, last \in Sessions :
             (\A s \in Sessions : first <= s /\ s <= last) /\ Plan(first, last)

FairTask(s) ==
  /\ WF_vars(Enter(s)) /\ WF_vars(Send(s))
  /\ WF_vars(Transient(s) \/ Permanent(s) \/ NoRows(s) \/ Rows(s))
  /\ SF_vars(Rows(s))

Fairness ==
  /\ WF_vars(NewDay) /\ SF_vars(Load) /\ SF_vars(PlanAll) /\ WF_vars(Finish)
  /\ WF_vars(MigrateStep) /\ WF_vars(MigrateEnd)
  /\ \A s \in Sessions : WF_vars(Publish(s)) /\ FairTask(s)

FairSpec == Spec /\ Fairness

-----------------------------------------------------------------------------
(* Properties *)

\* Types; the semaphore holds, no session is asked for more than MaxAttempts
\* times, and only an ingest has tasks.
TypeOK ==
  /\ file \in Counts /\ mem \in Counts
  /\ gz \in [Sessions -> Versions \union {Absent, Torn}]
  /\ plain \in [Sessions -> Versions \union {Absent}]
  /\ left \subseteq Sessions /\ cursor \in Sessions \union {0} /\ complete \in BOOLEAN
  /\ site \in [Sessions -> 0 .. MaxVersion]
  /\ job \in Jobs /\ task \in [Sessions -> Steps]
  /\ tries \in [Sessions -> 0 .. MaxAttempts]
  /\ charged \in Nat /\ unsaved \in Nat /\ seen \in Nat /\ faults \in Nat
  /\ Cardinality(InFlight) <= MaxConcurrency
  /\ job # "ingest" => task = Idle

\* The processes of a day, crashed ones included, never charge more sessions
\* than the quota; only a charge that failed to reach the file may be charged
\* again.  This is what the file is kept for, across restarts and a midnight
\* under a running ingest.
WithinQuota == charged <= Quota + unsaved

\* No task finds the quota gone: what was planned still fits when its turn
\* comes, so `failed` holds only what KRX or the disk refused, as the comment
\* at the end of run_backfill demands.
NoneRefused == In({"refused"}) = {}

\* What KRX sees in a day: every charge may cost MaxAttempts requests, and the
\* sessions in flight at midnight were charged to the day before.
RequestsBounded == seen <= MaxAttempts * (Quota + unsaved + MaxConcurrency)

Contents(s) == {gz[s], plain[s]} \intersect Versions

\* Write-once: what the store holds of a session is neither lost nor replaced,
\* by a later publication, a migration or a crash in the middle of one.
ContentKept == [][\A s \in Sessions : Contents(s) # {} => Contents(s)' = Contents(s)]_vars

\* A session KRX has published reaches the store, whatever the days it was
\* empty, failed, deferred by the quota or lost in a crash.
PublishedArrives == \A s \in Sessions : site[s] > 0 ~> Contents(s) # {}
=============================================================================
