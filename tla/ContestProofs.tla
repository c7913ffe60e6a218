---------------------------- MODULE ContestProofs ----------------------------
(***************************************************************************)
(* Proofs about the two ways the contest's public ranking enters the        *)
(* system.                                                                  *)
(*                                                                          *)
(* LeaderboardArchive: for any number of overlapping archivers, of          *)
(* publications and of crashes, the archive directory implements            *)
(* AppendOnlyArchive; and as long as no two runs overlap, it keeps no       *)
(* content twice.                                                           *)
(*                                                                          *)
(* ContestWeek: for any vehicles, any calendar of weekends, any end of the  *)
(* contest, and any number of timer runs, manual runs and faults.           *)
(***************************************************************************)
EXTENDS LeaderboardArchive, ContestWeek, TLAPS

(***************************************************************************)
(* The archive                                                              *)
(***************************************************************************)

Calls == [pc : {"done", "fetch", "locate", "install", "evaluate", "stage", "rename"},
          base : Dates, body : Files, name : Seconds, staged : Files]

LEMMA DoneType == Done \in Calls /\ Done.pc = "done"
<1>1. 0 \in Dates /\ 0 \in Seconds
  BY ArchiveAssumption DEF Dates, Seconds
<1>2. NoFiles \in [{} -> Versions] BY DEF NoFiles
<1>3. NoFiles \in Files BY <1>2 DEF Files
<1>4. QED BY <1>1, <1>3 DEF Done, Calls

THEOREM InitType == ArchiveInit => ArchiveTypeOK
<1> SUFFICES ASSUME ArchiveInit PROVE ArchiveTypeOK OBVIOUS
<1>1. 0 \in Versions /\ 0 \in Seconds /\ 0 \in 0 .. MaxCrashes
  BY ArchiveAssumption DEF Versions, Seconds
<1>2. site.base \in 0 .. published /\ site.body \in [Endpoints -> 0 .. published]
  BY DEF ArchiveInit
<1>3. original \in [Dates -> Bodies \union {NoBody}]
      /\ revisions \in [Dates -> SUBSET [name : Seconds, body : Bodies]]
  BY DEF ArchiveInit, Archive!Init
<1>4. call \in [Archivers -> Calls] /\ \A p \in Archivers : call[p].pc = "done"
  BY DoneType DEF ArchiveInit
<1>5. QED
  BY <1>1, <1>2, <1>3, <1>4 DEF ArchiveInit, ArchiveTypeOK, Calls

\* The world outside an archiver's call.
Outside ==
  /\ site.base \in 0 .. published /\ site.body \in [Endpoints -> 0 .. published]
  /\ published \in Versions /\ clock \in Seconds /\ crashes \in 0 .. MaxCrashes
  /\ overlapped \in {"never", "once"}

\* What the call of p has established.
CallOK(p) ==
  /\ call[p].pc \in {"done", "fetch"} \/ call[p].body \in Bodies
  /\ call[p].pc \in {"evaluate", "stage", "rename"} => original[call[p].base] # NoBody
  /\ call[p].pc \in {"stage", "rename"} => original[call[p].base] # call[p].body

DiskOK ==
  /\ original \in [Dates -> Bodies \union {NoBody}]
  /\ revisions \in [Dates -> SUBSET [name : Seconds, body : Bodies]]
  /\ leftover \in [Dates -> SUBSET Files]

LEMMA TypeParts ==
  ArchiveTypeOK <=> Outside /\ DiskOK /\ call \in [Archivers -> Calls] /\ \A p \in Archivers : CallOK(p)
BY DEF ArchiveTypeOK, Outside, DiskOK, CallOK, Calls

\* Originals that are there stay there: the other calls keep what they know.
LEMMA OthersKeep ==
  ASSUME ArchiveTypeOK, NEW p \in Archivers,
         \A d \in Dates : original[d] # NoBody => original'[d] = original[d],
         call' \in [Archivers -> Calls],
         \A q \in Archivers \ {p} : call'[q] = call[q],
         CallOK(p)'
  PROVE  \A q \in Archivers : CallOK(q)'
<1> SUFFICES ASSUME NEW q \in Archivers, q # p PROVE CallOK(q)' BY DEF CallOK
<1>1. call'[q] = call[q] /\ call[q].base \in Dates /\ CallOK(q)
  BY TypeParts DEF Calls
<1>2. QED BY <1>1 DEF CallOK

LEMMA KeepsType ==
  ASSUME ArchiveTypeOK, NEW p \in Archivers, Outside', DiskOK',
         \A d \in Dates : original[d] # NoBody => original'[d] = original[d],
         call' \in [Archivers -> Calls],
         \A q \in Archivers \ {p} : call'[q] = call[q],
         CallOK(p)'
  PROVE  ArchiveTypeOK'
<1>1. \A q \in Archivers : CallOK(q)' BY OthersKeep
<1>2. QED BY <1>1 DEF ArchiveTypeOK, Outside, DiskOK, CallOK, Calls

LEMMA FilesGrow ==
  ASSUME NEW D \in SUBSET Endpoints, NEW g \in [D -> Versions]
  PROVE  g \in Files
BY DEF Files

LEMMA FilesAre ==
  ASSUME NEW f \in Files
  PROVE  DOMAIN f \in SUBSET Endpoints /\ f \in [DOMAIN f -> Versions]
         /\ (DOMAIN f = Endpoints => f \in Bodies)
BY DEF Files, Bodies

LEMMA StepType ==
  ASSUME ArchiveTypeOK, NEW p \in Archivers,
         Start(p) \/ ArchiveStep(p) \/ FetchFails(p) \/ ArchiverCrash(p)
  PROVE  ArchiveTypeOK'
<1> USE DEF At, Goto, Stop, Answer
<1>0. call \in [Archivers -> Calls] /\ call[p] \in Calls /\ CallOK(p) /\ Outside /\ DiskOK
  BY TypeParts
<1>1. CASE Start(p)
  <2>1. call' \in [Archivers -> Calls] /\ (\A q \in Archivers \ {p} : call'[q] = call[q])
        /\ call'[p].pc = "fetch"
    BY <1>0, <1>1, DoneType DEF Start, Calls
  <2>2. CallOK(p)' BY <2>1 DEF CallOK
  <2>3. QED
    BY <1>0, <1>1, <2>1, <2>2, KeepsType DEF Start, Outside, DiskOK, world, disk
<1>2. ASSUME NEW e \in Endpoints, Fetch(p, e) PROVE ArchiveTypeOK'
  <2> DEFINE body == [x \in DOMAIN call[p].body \union {e} |->
                        IF x = e THEN site.body[e] ELSE call[p].body[x]]
  <2>1. call[p].body \in Files BY <1>0 DEF Calls
  <2>2. site.body[e] \in Versions /\ site.base \in Dates
    BY <1>0, ArchiveAssumption DEF Outside, Versions, Dates
  <2>3. DOMAIN body \in SUBSET Endpoints /\ body \in [DOMAIN body -> Versions]
    BY <2>1, <2>2, FilesAre
  <2>4. body \in Files /\ (DOMAIN body = Endpoints => body \in Bodies)
    BY <2>3, FilesGrow, FilesAre
  <2> HIDE DEF body
  <2>5. call' = [call EXCEPT ![p].body = body,
                             ![p].base = IF e = "total" THEN site.base ELSE @,
                             ![p].pc = IF DOMAIN body = Endpoints THEN "locate" ELSE @]
    BY <1>2 DEF Fetch, body
  <2>6. call' \in [Archivers -> Calls] /\ (\A q \in Archivers \ {p} : call'[q] = call[q])
    BY <1>0, <2>2, <2>4, <2>5 DEF Calls
  <2>7. call'[p].body = body /\ call[p].pc = "fetch"
        /\ call'[p].pc = (IF DOMAIN body = Endpoints THEN "locate" ELSE "fetch")
    <3>1. call[p].pc = "fetch" BY <1>2 DEF Fetch
    <3>2. QED BY <1>0, <2>5, <3>1 DEF Calls
  <2>8. CallOK(p)' BY <2>4, <2>7 DEF CallOK
  <2>9. QED
    BY <1>0, <1>2, <2>6, <2>8, KeepsType DEF Fetch, Outside, DiskOK, world, disk
<1>3. CASE FetchFails(p)
  <2>1. call' \in [Archivers -> Calls] /\ (\A q \in Archivers \ {p} : call'[q] = call[q])
        /\ call'[p].pc = "done"
    BY <1>0, <1>3, DoneType DEF FetchFails
  <2>2. CallOK(p)' BY <2>1 DEF CallOK
  <2>3. QED
    BY <1>0, <1>3, <2>1, <2>2, KeepsType DEF FetchFails, Outside, DiskOK, world, disk
<1>4. CASE Locate(p)
  <2>1. call' \in [Archivers -> Calls] /\ (\A q \in Archivers \ {p} : call'[q] = call[q])
        /\ call'[p].body = call[p].body /\ call'[p].base = call[p].base
        /\ call'[p].pc = (IF original[call[p].base] = NoBody THEN "install" ELSE "evaluate")
    BY <1>0, <1>4 DEF Locate, Calls
  <2>2. CallOK(p)' BY <1>0, <1>4, <2>1 DEF Locate, CallOK, disk
  <2>3. QED
    BY <1>0, <1>4, <2>1, <2>2, KeepsType DEF Locate, Outside, DiskOK, world, disk
<1>5. CASE InstallOriginal(p)
  <2>1. call[p].pc = "install" /\ call[p].body \in Bodies /\ call[p].base \in Dates
    BY <1>0, <1>5 DEF InstallOriginal, CallOK, Calls
  <2>2. CASE original[call[p].base] = NoBody
    <3>1. call' \in [Archivers -> Calls] /\ (\A q \in Archivers \ {p} : call'[q] = call[q])
          /\ call'[p].pc = "done"
      BY <1>0, <1>5, <2>2, DoneType DEF InstallOriginal
    <3>2. original' = [original EXCEPT ![call[p].base] = call[p].body]
      BY <1>5, <2>2 DEF InstallOriginal
    <3>3. DiskOK' /\ \A d \in Dates : original[d] # NoBody => original'[d] = original[d]
      BY <1>0, <1>5, <2>1, <2>2, <3>2 DEF InstallOriginal, DiskOK
    <3>4. CallOK(p)' BY <3>1 DEF CallOK
    <3>5. QED
      BY <1>0, <1>5, <3>1, <3>3, <3>4, KeepsType DEF InstallOriginal, Outside, world
  <2>3. CASE original[call[p].base] # NoBody
    <3>1. call' \in [Archivers -> Calls] /\ (\A q \in Archivers \ {p} : call'[q] = call[q])
          /\ call'[p].body = call[p].body /\ call'[p].base = call[p].base
          /\ call'[p].pc = "evaluate"
      BY <1>0, <1>5, <2>3 DEF InstallOriginal, Calls
    <3>2. UNCHANGED original BY <1>5, <2>3 DEF InstallOriginal
    <3>3. CallOK(p)' BY <2>1, <2>3, <3>1, <3>2 DEF CallOK
    <3>4. QED
      BY <1>0, <1>5, <3>1, <3>2, <3>3, KeepsType
         DEF InstallOriginal, Outside, DiskOK, world
  <2>4. QED BY <2>2, <2>3
<1>6. CASE Evaluate(p)
  <2>1. call[p].pc = "evaluate" /\ call[p].body \in Bodies /\ original[call[p].base] # NoBody
    BY <1>0, <1>6 DEF Evaluate, CallOK
  <2>2. CASE call' = [call EXCEPT ![p] = Done]
    <3>1. call' \in [Archivers -> Calls] /\ (\A q \in Archivers \ {p} : call'[q] = call[q])
          /\ call'[p].pc = "done"
      BY <1>0, <2>2, DoneType
    <3>2. CallOK(p)' BY <3>1 DEF CallOK
    <3>3. QED
      BY <1>0, <1>6, <3>1, <3>2, KeepsType DEF Evaluate, Outside, DiskOK, world, disk
  <2>3. CASE call' = [call EXCEPT ![p].pc = "stage", ![p].name = clock] /\ ~ Matches(p)
    <3>1. call' \in [Archivers -> Calls] /\ (\A q \in Archivers \ {p} : call'[q] = call[q])
          /\ call'[p].body = call[p].body /\ call'[p].base = call[p].base
          /\ call'[p].pc = "stage"
      BY <1>0, <2>3 DEF Calls, Outside
    <3>2. CallOK(p)'
      BY <1>6, <2>1, <2>3, <3>1 DEF CallOK, Matches, Evaluate, disk
    <3>3. QED
      BY <1>0, <1>6, <3>1, <3>2, KeepsType DEF Evaluate, Outside, DiskOK, world, disk
  <2>4. QED BY <1>6, <2>2, <2>3 DEF Evaluate
<1>7. ASSUME NEW e \in Endpoints, StageFile(p, e) PROVE ArchiveTypeOK'
  <2> DEFINE staged == [x \in DOMAIN call[p].staged \union {e} |-> call[p].body[x]]
  <2>1. call[p].pc = "stage" /\ call[p].body \in Bodies /\ call[p].staged \in Files
    BY <1>0, <1>7 DEF StageFile, CallOK, Calls
  <2>2. DOMAIN staged \in SUBSET Endpoints /\ staged \in [DOMAIN staged -> Versions]
    BY <2>1, FilesAre DEF Bodies
  <2>3. staged \in Files BY <2>2, FilesGrow
  <2> HIDE DEF staged
  <2>4. call' = [call EXCEPT ![p].staged = staged,
                             ![p].pc = IF DOMAIN staged = Endpoints THEN "rename" ELSE @]
    BY <1>7 DEF StageFile, staged
  <2>5. call' \in [Archivers -> Calls] /\ (\A q \in Archivers \ {p} : call'[q] = call[q])
        /\ call'[p].body = call[p].body /\ call'[p].base = call[p].base
        /\ call'[p].pc \in {"stage", "rename"}
    BY <1>0, <2>1, <2>3, <2>4 DEF Calls
  <2>6. CallOK(p)' BY <1>0, <1>7, <2>1, <2>5 DEF CallOK, StageFile, disk
  <2>7. QED
    BY <1>0, <1>7, <2>5, <2>6, KeepsType DEF StageFile, Outside, DiskOK, world, disk
<1>8. CASE InstallRevision(p)
  <2>1. call[p].body \in Bodies /\ call[p].base \in Dates /\ call[p].name \in Seconds
    BY <1>0, <1>8 DEF InstallRevision, CallOK, Calls
  <2>2. call' \in [Archivers -> Calls] /\ (\A q \in Archivers \ {p} : call'[q] = call[q])
        /\ call'[p].pc = "done"
    BY <1>0, <1>8, DoneType DEF InstallRevision
  <2>3. DiskOK'
    BY <1>0, <1>8, <2>1 DEF InstallRevision, DiskOK
  <2>4. CallOK(p)' BY <2>2 DEF CallOK
  <2>5. QED
    BY <1>0, <1>8, <2>2, <2>3, <2>4, KeepsType DEF InstallRevision, Outside, world
<1>9. CASE ArchiverCrash(p)
  <2>1. call[p].staged \in Files /\ call[p].base \in Dates
    BY <1>0 DEF Calls
  <2>2. call' \in [Archivers -> Calls] /\ (\A q \in Archivers \ {p} : call'[q] = call[q])
        /\ call'[p].pc = "done"
    BY <1>0, <1>9, DoneType DEF ArchiverCrash
  <2>3. DiskOK' BY <1>0, <1>9, <2>1 DEF ArchiverCrash, DiskOK
  <2>4. CallOK(p)' BY <2>2 DEF CallOK
  <2>5. crashes' \in 0 .. MaxCrashes
    BY <1>0, <1>9, ArchiveAssumption DEF ArchiverCrash, Outside
  <2>6. QED
    BY <1>0, <1>9, <2>2, <2>3, <2>4, <2>5, KeepsType DEF ArchiverCrash, Outside, world
<1>10. QED
  BY <1>1, <1>2, <1>3, <1>4, <1>5, <1>6, <1>7, <1>8, <1>9 DEF ArchiveStep

LEMMA NextType == ArchiveTypeOK /\ [ArchiveNext]_archiveVars => ArchiveTypeOK'
<1> SUFFICES ASSUME ArchiveTypeOK, [ArchiveNext]_archiveVars PROVE ArchiveTypeOK' OBVIOUS
<1>0. call \in [Archivers -> Calls] /\ (\A p \in Archivers : CallOK(p)) /\ Outside /\ DiskOK
  BY TypeParts
<1>1. ASSUME NEW p \in Archivers, Start(p) \/ ArchiveStep(p) \/ FetchFails(p) \/ ArchiverCrash(p)
      PROVE  ArchiveTypeOK'
  BY <1>1, StepType
<1>2. ASSUME Outside', UNCHANGED <<disk, call>> PROVE ArchiveTypeOK'
  BY <1>0, <1>2 DEF ArchiveTypeOK, Outside, DiskOK, CallOK, Calls, disk
<1>3. ASSUME NEW base \in Dates, NEW changed \in SUBSET Endpoints, Publish(base, changed)
      PROVE  ArchiveTypeOK'
  <2>1. published \in Nat /\ published' = published + 1 /\ published' \in Versions
    BY <1>0, <1>3, ArchiveAssumption DEF Publish, Outside, Versions
  <2>2. site' = [base |-> base,
                 body |-> [e \in Endpoints |-> IF e \in changed \/ base # site.base
                                                 THEN published + 1 ELSE site.body[e]]]
    BY <1>3 DEF Publish
  <2>3. site'.body \in [Endpoints -> 0 .. published']
    BY <1>0, <2>1, <2>2 DEF Outside
  <2>4. site'.base \in 0 .. published'
    BY <1>0, <1>3, <2>1, <2>2 DEF Publish, Outside
  <2>5. Outside' BY <1>0, <1>3, <2>1, <2>3, <2>4 DEF Publish, Outside
  <2>6. QED BY <1>2, <1>3, <2>5 DEF Publish
<1>4. CASE Tick
  <2>1. Outside' BY <1>0, <1>4, ArchiveAssumption DEF Tick, Outside, Seconds
  <2>2. QED BY <1>2, <1>4, <2>1 DEF Tick
<1>5. CASE UNCHANGED archiveVars
  <2>1. Outside' BY <1>0, <1>5 DEF archiveVars, Outside
  <2>2. QED BY <1>2, <1>5, <2>1 DEF archiveVars, disk
<1>6. QED BY <1>1, <1>3, <1>4, <1>5 DEF ArchiveNext

\* What a run has established holds when it renames: the date directory a
\* revision goes to exists and its content differs.
THEOREM ArchiveTypeCorrect == ArchiveSpec => []ArchiveTypeOK
BY InitType, NextType, PTL DEF ArchiveSpec

\* archive_leaderboard never replaces, rewrites or removes what it archived,
\* whatever runs overlap or crash: every step adds one original or one revision
\* of an unused name, or leaves the archive as it is.
THEOREM ArchiveIsAppendOnly == ArchiveSpec => AppendOnly
<1>1. ArchiveInit => Archive!Init BY DEF ArchiveInit
<1>2. ASSUME ArchiveTypeOK, [ArchiveNext]_archiveVars
      PROVE  [Archive!Next]_<<original, revisions>>
  <2>0. call \in [Archivers -> Calls] /\ (\A p \in Archivers : CallOK(p)) /\ Outside /\ DiskOK
    BY <1>2, TypeParts
  <2>1. ASSUME NEW p \in Archivers, InstallOriginal(p)
        PROVE  [Archive!Next]_<<original, revisions>>
    <3>1. call[p].body \in Bodies /\ call[p].base \in Dates
      BY <2>0, <2>1 DEF InstallOriginal, At, CallOK, Calls
    <3>2. CASE original[call[p].base] = NoBody
      <4>1. Archive!KeepOriginal(call[p].base, call[p].body)
        BY <2>1, <3>2 DEF InstallOriginal, Archive!KeepOriginal
      <4>2. QED BY <3>1, <4>1 DEF Archive!Next
    <3>3. CASE original[call[p].base] # NoBody
      BY <2>1, <3>3 DEF InstallOriginal
    <3>4. QED BY <3>2, <3>3
  <2>2. ASSUME NEW p \in Archivers, InstallRevision(p)
        PROVE  [Archive!Next]_<<original, revisions>>
    <3>1. /\ call[p].body \in Bodies /\ call[p].base \in Dates /\ call[p].name \in Seconds
          /\ original[call[p].base] \notin {NoBody, call[p].body}
      BY <2>0, <2>2 DEF InstallRevision, At, CallOK, Calls
    <3>2. CASE ~ Taken(p, call[p].name)
      <4>1. Archive!KeepRevision(call[p].base, call[p].name, call[p].body)
        BY <2>2, <3>1, <3>2 DEF InstallRevision, Taken, Archive!KeepRevision
      <4>2. QED BY <3>1, <4>1 DEF Archive!Next
    <3>3. CASE Taken(p, call[p].name)
      BY <2>2, <3>3 DEF InstallRevision
    <3>4. QED BY <3>2, <3>3
  <2>3. ASSUME NEW p \in Archivers,
               Start(p) \/ FetchFails(p) \/ Locate(p) \/ Evaluate(p) \/ ArchiverCrash(p)
        PROVE  UNCHANGED <<original, revisions>>
    BY <2>3 DEF Start, FetchFails, Locate, Evaluate, ArchiverCrash, disk
  <2>4. ASSUME NEW p \in Archivers, NEW e \in Endpoints, Fetch(p, e) \/ StageFile(p, e)
        PROVE  UNCHANGED <<original, revisions>>
    BY <2>4 DEF Fetch, StageFile, disk
  <2>5. ASSUME NEW base \in Dates, NEW changed \in SUBSET Endpoints, Publish(base, changed) \/ Tick
        PROVE  UNCHANGED <<original, revisions>>
    BY <2>5 DEF Publish, Tick, disk
  <2>6. Tick => UNCHANGED <<original, revisions>>
    BY DEF Tick, disk
  <2>7. UNCHANGED archiveVars => UNCHANGED <<original, revisions>>
    BY DEF archiveVars
  <2>8. QED
    BY <1>2, <2>1, <2>2, <2>3, <2>4, <2>5, <2>6, <2>7 DEF ArchiveNext, ArchiveStep
<1>3. QED
  BY <1>1, <1>2, ArchiveTypeCorrect, PTL DEF ArchiveSpec, AppendOnly, Archive!Spec

-----------------------------------------------------------------------------
(* Without overlapping runs *)

\* As long as no run started beside another one there is one run at a time, ...
Alone ==
  \A p, q \in Archivers : p # q => call[p].pc = "done" \/ call[q].pc = "done"

\* ... and the content it is about to install as a revision is none of those kept.
NewContent(p) ==
  call[p].pc \in {"stage", "rename"} =>
    \A r \in revisions[call[p].base] : r.body # call[p].body

OnceInv ==
  overlapped = "never" =>
    /\ Alone /\ \A p \in Archivers : NewContent(p)
    /\ \A d \in Dates : \A r, s \in revisions[d] : r.body = s.body => r = s

LEMMA InitOnce == ArchiveInit => OnceInv
BY DEF ArchiveInit, Archive!Init, OnceInv, Alone, NewContent, Done

\* A step of one run that neither adds a revision nor brings it to the staging.
LEMMA QuietKeepsOnce ==
  ASSUME OnceInv, NEW p \in Archivers, call[p].pc # "done", UNCHANGED <<revisions, overlapped>>,
         \A q \in Archivers \ {p} : call'[q] = call[q],
         NewContent(p)'
  PROVE  OnceInv'
<1> SUFFICES ASSUME overlapped = "never"
             PROVE  /\ Alone' /\ \A q \in Archivers : NewContent(q)'
                    /\ \A d \in Dates : \A r, s \in revisions'[d] : r.body = s.body => r = s
  BY DEF OnceInv
<1>1. \A q \in Archivers \ {p} : call[q].pc = "done" BY DEF OnceInv, Alone
<1>2. \A q \in Archivers \ {p} : call'[q].pc = "done" BY <1>1
<1>3. Alone' BY <1>2 DEF Alone
<1>4. \A q \in Archivers : NewContent(q)' BY <1>2 DEF NewContent
<1>5. QED BY <1>3, <1>4 DEF OnceInv

LEMMA StartKeepsOnce ==
  ASSUME ArchiveTypeOK, OnceInv, NEW p \in Archivers, Start(p)
  PROVE  OnceInv'
<1>0. call \in [Archivers -> Calls] BY TypeParts
<1>1. /\ \A q \in Archivers \ {p} : call'[q] = call[q]
      /\ call'[p].pc = "fetch" /\ UNCHANGED revisions
      /\ overlapped' = IF \E q \in Archivers \ {p} : ~ At(q, "done") THEN "once" ELSE overlapped
  BY <1>0, DoneType DEF Start, disk, Calls
<1>2. CASE \E q \in Archivers \ {p} : ~ At(q, "done")
  BY <1>1, <1>2 DEF OnceInv
<1>3. CASE ~ \E q \in Archivers \ {p} : ~ At(q, "done")
  <2>1. UNCHANGED overlapped BY <1>1, <1>3
  <2>2. \A q \in Archivers \ {p} : call'[q].pc = "done" BY <1>1, <1>3 DEF At
  <2>3. Alone' BY <2>2 DEF Alone
  <2>4. \A q \in Archivers : NewContent(q)' BY <1>1, <2>2 DEF NewContent
  <2>5. QED BY <1>1, <2>1, <2>3, <2>4 DEF OnceInv
<1>4. QED BY <1>2, <1>3

LEMMA InstallKeepsOnce ==
  ASSUME ArchiveTypeOK, OnceInv, NEW p \in Archivers, InstallRevision(p)
  PROVE  OnceInv'
<1>0. call \in [Archivers -> Calls] /\ call[p] \in Calls BY TypeParts
<1>1. /\ \A q \in Archivers \ {p} : call'[q] = call[q]
      /\ call'[p].pc = "done" /\ call[p].pc = "rename" /\ UNCHANGED overlapped
  BY <1>0, DoneType DEF InstallRevision, At, Stop, Answer, world
<1>2. NewContent(p)' BY <1>1 DEF NewContent
<1>3. CASE UNCHANGED revisions BY <1>1, <1>2, <1>3, QuietKeepsOnce
<1>4. CASE revisions' = [revisions EXCEPT ![call[p].base] =
               @ \union {[name |-> call[p].name, body |-> call[p].body]}]
  <2> SUFFICES ASSUME overlapped = "never"
               PROVE  /\ Alone' /\ \A q \in Archivers : NewContent(q)'
                      /\ \A d \in Dates : \A r, s \in revisions'[d] : r.body = s.body => r = s
    BY <1>1 DEF OnceInv
  <2>1. \A q \in Archivers : call'[q].pc = "done" BY <1>1 DEF OnceInv, Alone
  <2>2. Alone' /\ \A q \in Archivers : NewContent(q)' BY <2>1 DEF Alone, NewContent
  <2>3. \A r \in revisions[call[p].base] : r.body # call[p].body
    BY <1>1 DEF OnceInv, NewContent
  <2>4. ASSUME NEW d \in Dates, NEW r \in revisions'[d], NEW s \in revisions'[d], r.body = s.body
        PROVE  r = s
    <3> DEFINE new == [name |-> call[p].name, body |-> call[p].body]
    <3>1. revisions \in [Dates -> SUBSET [name : Seconds, body : Bodies]] BY DEF ArchiveTypeOK
    <3>2. r \in revisions[d] \union {x \in {new} : d = call[p].base}
          /\ s \in revisions[d] \union {x \in {new} : d = call[p].base}
      BY <1>4, <2>4, <3>1
    <3>3. new.body = call[p].body OBVIOUS
    <3> HIDE DEF new
    <3>4. QED BY <2>3, <2>4, <3>2, <3>3 DEF OnceInv
  <2>5. QED BY <2>2, <2>4
<1>5. QED BY <1>3, <1>4 DEF InstallRevision

LEMMA StepKeepsOnce ==
  ASSUME ArchiveTypeOK, OnceInv, NEW p \in Archivers,
         Start(p) \/ ArchiveStep(p) \/ FetchFails(p) \/ ArchiverCrash(p)
  PROVE  OnceInv'
<1> USE DEF At, Goto, Stop, Answer, world, disk
<1>0. call \in [Archivers -> Calls] /\ call[p] \in Calls BY TypeParts
<1>1. CASE Start(p) BY <1>1, StartKeepsOnce
<1>2. CASE InstallRevision(p) BY <1>2, InstallKeepsOnce
<1>3. ASSUME NEW e \in Endpoints, Fetch(p, e) PROVE OnceInv'
  <2>1. call[p].pc = "fetch" /\ UNCHANGED <<revisions, overlapped>>
        /\ (\A q \in Archivers \ {p} : call'[q] = call[q])
        /\ call'[p].pc \in {"fetch", "locate"}
    BY <1>0, <1>3 DEF Fetch, Calls
  <2>2. NewContent(p)' BY <2>1 DEF NewContent
  <2>3. QED BY <2>1, <2>2, QuietKeepsOnce
<1>4. CASE FetchFails(p) \/ ArchiverCrash(p)
  <2>1. call[p].pc # "done" /\ UNCHANGED <<revisions, overlapped>>
        /\ (\A q \in Archivers \ {p} : call'[q] = call[q])
        /\ call'[p].pc = "done"
    BY <1>0, <1>4, DoneType DEF FetchFails, ArchiverCrash, Calls
  <2>2. NewContent(p)' BY <2>1 DEF NewContent
  <2>3. QED BY <2>1, <2>2, QuietKeepsOnce
<1>5. CASE Locate(p) \/ InstallOriginal(p)
  <2>1. call[p].pc # "done" /\ UNCHANGED <<revisions, overlapped>>
        /\ (\A q \in Archivers \ {p} : call'[q] = call[q])
        /\ call'[p].pc \in {"done", "install", "evaluate"}
    BY <1>0, <1>5, DoneType DEF Locate, InstallOriginal, Calls
  <2>2. NewContent(p)' BY <2>1 DEF NewContent
  <2>3. QED BY <2>1, <2>2, QuietKeepsOnce
<1>6. CASE Evaluate(p)
  <2>1. call[p].pc = "evaluate" /\ UNCHANGED <<revisions, overlapped>>
        /\ \A q \in Archivers \ {p} : call'[q] = call[q]
    BY <1>0, <1>6 DEF Evaluate, Calls
  <2>2. CASE call' = [call EXCEPT ![p] = Done]
    <3>1. NewContent(p)' BY <1>0, <2>2, DoneType DEF NewContent
    <3>2. QED BY <2>1, <3>1, QuietKeepsOnce
  <2>3. CASE ~ Matches(p) /\ call' = [call EXCEPT ![p].pc = "stage", ![p].name = clock]
    <3>1. call'[p].base = call[p].base /\ call'[p].body = call[p].body BY <1>0, <2>3 DEF Calls
    <3>2. \A r \in revisions[call[p].base] : r.body # call[p].body
      BY <2>3 DEF Matches, Children
    <3>3. NewContent(p)' BY <2>1, <3>1, <3>2 DEF NewContent
    <3>4. QED BY <2>1, <3>3, QuietKeepsOnce
  <2>4. QED BY <1>6, <2>2, <2>3 DEF Evaluate
<1>7. ASSUME NEW e \in Endpoints, StageFile(p, e) PROVE OnceInv'
  <2>1. call[p].pc = "stage" /\ UNCHANGED <<revisions, overlapped>>
        /\ (\A q \in Archivers \ {p} : call'[q] = call[q])
        /\ call'[p].base = call[p].base /\ call'[p].body = call[p].body
    BY <1>0, <1>7 DEF StageFile, Calls
  <2>2. overlapped = "never" => NewContent(p)' BY <2>1 DEF OnceInv, NewContent
  <2>3. CASE overlapped = "never" BY <2>1, <2>2, <2>3, QuietKeepsOnce
  <2>4. CASE overlapped # "never" BY <2>1, <2>4 DEF OnceInv
  <2>5. QED BY <2>3, <2>4
<1>8. QED BY <1>1, <1>2, <1>3, <1>4, <1>5, <1>6, <1>7 DEF ArchiveStep

LEMMA NextOnce == ArchiveTypeOK /\ OnceInv /\ [ArchiveNext]_archiveVars => OnceInv'
<1> SUFFICES ASSUME ArchiveTypeOK, OnceInv, [ArchiveNext]_archiveVars PROVE OnceInv' OBVIOUS
<1>1. ASSUME NEW p \in Archivers, Start(p) \/ ArchiveStep(p) \/ FetchFails(p) \/ ArchiverCrash(p)
      PROVE  OnceInv'
  BY <1>1, StepKeepsOnce
<1>2. ASSUME UNCHANGED <<call, revisions, overlapped>> PROVE OnceInv'
  BY <1>2 DEF OnceInv, Alone, NewContent
<1>3. ASSUME NEW base \in Dates, NEW changed \in SUBSET Endpoints, Publish(base, changed)
      PROVE  OnceInv'
  BY <1>2, <1>3 DEF Publish, disk
<1>4. CASE Tick BY <1>2, <1>4 DEF Tick, disk
<1>5. CASE UNCHANGED archiveVars BY <1>2, <1>5 DEF archiveVars
<1>6. QED BY <1>1, <1>3, <1>4, <1>5 DEF ArchiveNext

\* While no two runs of contest-archive have overlapped, no content is kept twice under
\* one date: whatever crashes, re-publications and changes of the published files.
THEOREM SerialRunsStoreOnce == ArchiveSpec => []StoredOnce
<1>1. OnceInv => StoredOnce BY DEF OnceInv, StoredOnce
<1>2. QED BY <1>1, InitOnce, NextOnce, ArchiveTypeCorrect, PTL DEF ArchiveSpec

(***************************************************************************)
(* The contest week                                                         *)
(***************************************************************************)

Actions == Decided \union {None, "CONTEST_OVER", "NO_DATA", "NEEDS_CONFIRMATION"}
Tasks == [pc : {"idle", "decide", "card", "state"}, entered : BOOLEAN, card : Cards]

\* A decision names a vehicle.
Named(c) == c.action \in Decided => c.target \in Vehicles

Typed ==
  /\ day \in 0 .. LastSession /\ phase \in {"trading", "evening", "weekend"} /\ mode \in Modes
  /\ held \in Vehicles /\ mixed \in BOOLEAN /\ rises \in BOOLEAN \X BOOLEAN
  /\ overnight \in BOOLEAN /\ strayed \in BOOLEAN
  /\ board \in {"absent", "unlisted", "unclear", "clear"}
  /\ priced \in BOOLEAN /\ listed \in BOOLEAN
  /\ fired \in 0 .. Timers /\ ready \in 0 .. Timers
  /\ card \in Cards /\ Named(card) /\ newest \in Actions
  /\ state \in [asOf : 0 .. LastSession, alias : Aliases]
  /\ state.asOf <= day /\ (state.asOf = 0 <=> state.alias = None)
  /\ fade \in Fades /\ fader \in [pc : {"idle", "card"}, card : Fades]
  /\ task \in Tasks /\ Named(task.card)
  /\ phase = "weekend" => day > 0
  /\ task.pc # "idle" => day > 0 /\ phase # "trading"
  /\ task.pc = "state" => task.card.action \in Decided
  /\ manual \in 0 .. MaxManual /\ faults \in 0 .. MaxFaults /\ split \in BOOLEAN

HasData(c) == c.action \notin {None, "NO_DATA"}

\* The newest card file is that of the day, if the day has a card.
NewestIsCard ==
  /\ card # NoCard => card.action # None /\ newest = card.action
  /\ task.pc = "card" => task.card.action # None

\* From the first timer run that finds ranking and prices, the week has a card with
\* data, or a run that is going to write one.
RetriesDecide ==
  /\ ready < Timers => board # "absent" /\ priced
  /\ phase = "weekend" /\ ready < Timers /\ ready < fired /\ faults = 0 =>
       /\ task.pc \in {"idle", "state"} => HasData(card)
       /\ task.pc = "card" => HasData(task.card)

\* A decision in progress read the ranking and the state that are still there.
DecidedOnCurrent ==
  task.pc = "card" /\ task.card.action \in Decided
    => board # "absent" /\ task.card.current = Current

\* A switch is recorded as the position of its session, unless a crash came between.
SwitchIsRecorded ==
  card.action = "SWITCH" /\ task.pc # "state" /\ ~ split => state.asOf = day

\* The state knows the holding once its session is over.
StateIsHeld ==
  state.alias # None /\ state.asOf # day /\ ~ split /\ ~ strayed /\ ~ overnight
    => state.alias = held

\* Fade cards that order something, or are about to.
Orders == {"FADE", "KEEP_INVERSE", "RETURN_LONG", "HOLD_LONG"}
FadeOnBase ==
  /\ fade \in Orders \/ (fader.pc = "card" /\ fader.card \in Orders)
       => state.asOf = day \/ state.alias = Base
  /\ "KEEP_INVERSE" \in {fade, fader.card} => mode = "open_only"
  /\ overnight => mode = "open_only"


(***************************************************************************)
(* The operators                                                            *)
(***************************************************************************)

LEMMA ConstantsTyped ==
  /\ None \notin Vehicles /\ Base \in Vehicles /\ Inverse \in Vehicles
  /\ LastSession \in Nat /\ Timers \in Nat /\ Timers > 0 /\ MaxManual \in Nat /\ MaxFaults \in Nat
  /\ NoCard \in Cards /\ Named(NoCard) /\ NoCard.action = None
  /\ Idle \in Tasks /\ Idle.pc = "idle" /\ Named(Idle.card)
  /\ NoFader \in [pc : {"idle", "card"}, card : Fades] /\ NoFader.pc = "idle" /\ NoFader.card = None
<1>1. NoCard \in Cards /\ NoCard.action = None /\ None \notin Decided
  BY DEF NoCard, Cards, Aliases, Decided, None
<1>2. Idle \in Tasks /\ Idle.pc = "idle" /\ Idle.card = NoCard
  BY <1>1 DEF Idle, Tasks
<1>3. QED BY <1>1, <1>2, WeekAssumption DEF Named, NoFader, Fades

\* A card of decide_week: it names what it must, with data there it is not NO_DATA,
\* and a decision is about the current holding that the ranking or the state gives.
LEMMA DecideWeekIs ==
  ASSUME Typed, NEW entered \in BOOLEAN, NEW illiquid \in SUBSET Vehicles,
         NEW rival \in Vehicles \union {None}, NEW c \in DecideWeek(entered, illiquid, rival)
  PROVE  /\ c \in Cards /\ Named(c) /\ c.action # None
         /\ board # "absent" /\ priced => c.action # "NO_DATA"
         /\ c.action \in Decided => board # "absent" /\ c.current = Current
<1> DEFINE eligible == Eligible(illiquid, rival)
<1>1. Current \in Aliases /\ state.alias \in Aliases
  BY DEF Typed, Current, Aliases
<1>2. eligible \subseteq Vehicles
  BY <1>1, WeekAssumption DEF Eligible, Aliases
<1> HIDE DEF eligible
<1>3. Remaining \in Nat
  BY WeekAssumption DEF Typed, Remaining
<1>4. \A x \in Outdated : x \in Aliases
  BY <1>1 DEF Outdated, Aliases
<1>5. \A x \in Choices(eligible) : x[1] \in Decided /\ x[2] \in eligible
  BY DEF Choices, Decided
<1>6. \A act \in Actions, cur, tgt \in Aliases :
        /\ Card(act, cur, tgt) \in Cards /\ Card(act, cur, tgt).action = act
        /\ Card(act, cur, tgt).current = cur /\ Card(act, cur, tgt).target = tgt
  BY DEF Card, Cards, Actions
<1>7. None \in Aliases /\ Vehicles \subseteq Aliases BY DEF Aliases
<1>8. CASE Remaining = 0
  <2>1. ~ (Remaining > 0) BY <1>8
  <2>2. c = Card("CONTEST_OVER", state.alias, None)
    BY <1>8, <2>1 DEF DecideWeek
  <2>3. "CONTEST_OVER" \in Actions BY DEF Actions
  <2>4. QED BY <1>1, <1>6, <1>7, <2>2, <2>3 DEF Named, Decided, None
<1>9. CASE Remaining > 0 /\ (board = "absent" \/ ~ priced)
  <2>1. Remaining # 0 BY <1>9
  <2>2. PICK a \in Outdated : c = Card("NO_DATA", a, a)
    BY <1>9, <2>1, Zenon DEF DecideWeek
  <2>3. "NO_DATA" \in Actions BY DEF Actions
  <2>4. QED BY <1>4, <1>6, <1>9, <2>2, <2>3 DEF Named, Decided, None
<1>10. CASE Remaining > 0 /\ board # "absent" /\ priced /\ (~ KnowsEquity(entered) \/ eligible = {})
  <2>1. Remaining # 0 BY <1>10
  <2>2. c = Card("NEEDS_CONFIRMATION", Current, Current)
    BY <1>10, <2>1 DEF DecideWeek, eligible
  <2>3. "NEEDS_CONFIRMATION" \in Actions BY DEF Actions
  <2>4. QED BY <1>1, <1>6, <2>2, <2>3 DEF Named, Decided, None
<1>11. CASE Remaining > 0 /\ board # "absent" /\ priced /\ KnowsEquity(entered) /\ eligible # {}
  <2>1. Remaining # 0 BY <1>11
  <2>2. PICK x \in Choices(eligible) : c = Card(x[1], Current, x[2])
    BY <1>11, <2>1, Zenon DEF DecideWeek, eligible
  <2>3. x[1] \in Decided /\ x[1] \in Actions /\ x[2] \in Vehicles /\ x[2] \in Aliases
    BY <1>2, <1>5, <1>7 DEF Actions
  <2>4. QED BY <1>1, <1>6, <1>11, <2>2, <2>3 DEF Named, Decided, None
<1>12. QED BY <1>3, <1>8, <1>9, <1>10, <1>11

\* A fade card orders something only on the base, and to keep an inverse only when
\* the mode holds one overnight.
LEMMA FadeCardIs ==
  ASSUME Typed, NEW bar \in BOOLEAN, NEW prevBar \in BOOLEAN
  PROVE  /\ FadeCard(bar, prevBar) \in Fades
         /\ FadeCard(bar, prevBar) \in Orders => state.alias = Base
         /\ FadeCard(bar, prevBar) = "KEEP_INVERSE" => mode = "open_only"
<1>1. Remaining \in Nat
  BY WeekAssumption DEF Typed, Remaining
<1>2. \A rose, prevRose \in BOOLEAN :
        /\ FadeRule(rose, prevRose) \in Fades
        /\ FadeRule(rose, prevRose) = "KEEP_INVERSE" => mode = "open_only"
  <2> SUFFICES ASSUME NEW rose \in BOOLEAN, NEW prevRose \in BOOLEAN
               PROVE  /\ FadeRule(rose, prevRose) \in Fades
                      /\ FadeRule(rose, prevRose) = "KEEP_INVERSE" => mode = "open_only"
    OBVIOUS
  <2>1. CASE mode = "open_only" /\ prevRose /\ rose BY <2>1 DEF FadeRule, Fades
  <2>2. CASE mode = "open_only" /\ prevRose /\ ~ rose BY <2>2 DEF FadeRule, Fades
  <2>3. CASE ~ (mode = "open_only" /\ prevRose) BY <2>3 DEF FadeRule, Fades
  <2>4. QED BY <2>1, <2>2, <2>3
<1>3. rises[2] \in BOOLEAN /\ (prevBar /\ rises[1]) \in BOOLEAN BY Zenon DEF Typed
<1>4. CASE Remaining = 0 BY <1>4 DEF FadeCard, Fades, Orders
<1>5. CASE Remaining > 0 /\ state.alias # Base BY <1>1, <1>5 DEF FadeCard, Fades, Orders
<1>6. CASE Remaining > 0 /\ state.alias = Base /\ ~ bar BY <1>1, <1>6 DEF FadeCard, Fades, Orders
<1>7. CASE Remaining > 0 /\ state.alias = Base /\ bar
  <2>1. FadeCard(bar, prevBar) = FadeRule(rises[2], prevBar /\ rises[1])
    BY <1>1, <1>7 DEF FadeCard
  <2>2. QED BY <1>2, <1>3, <1>7, <2>1
<1>8. QED BY <1>1, <1>4, <1>5, <1>6, <1>7

\* What a run starts with.
LEMMA BeginIs ==
  ASSUME NEW force \in BOOLEAN, NEW entered \in BOOLEAN, Begin(force, entered)
  PROVE  /\ task' \in Tasks /\ task'.pc \in {"idle", "decide"} /\ Named(task'.card)
         /\ task'.pc = "idle" => card # NoCard /\ ~ force
<1>1. CASE card # NoCard /\ ~ force
  BY <1>1, ConstantsTyped DEF Begin
<1>2. CASE ~ (card # NoCard /\ ~ force)
  <2>1. task' = [Idle EXCEPT !.pc = "decide", !.entered = entered] BY <1>2 DEF Begin
  <2>2. task' \in Tasks /\ task'.pc = "decide" /\ task'.card = Idle.card
    BY <2>1, ConstantsTyped DEF Tasks
  <2>3. QED BY <2>2, ConstantsTyped
<1>3. QED BY <1>1, <1>2

\* What the operator holds next, by the cards of the day.
LEMMA OrderedIs ==
  /\ Typed => Ordered \in Vehicles
  /\ card.action = "SWITCH" => Ordered = card.target
  /\ card.action # "SWITCH" =>
       /\ fade = "RETURN_LONG" => Ordered = Base
       /\ fade = "FADE" /\ mode # "open_only" => Ordered = Base
       /\ fade \notin {"RETURN_LONG", "KEEP_INVERSE", "FADE"} => Ordered = held
<1>1. CASE card.action = "SWITCH"
  BY <1>1 DEF Ordered, Typed, Named, Decided
<1>2. CASE card.action # "SWITCH"
  <2>1. CASE fade = "RETURN_LONG" BY <1>2, <2>1, ConstantsTyped DEF Ordered
  <2>2. CASE fade = "KEEP_INVERSE" BY <1>2, <2>2, ConstantsTyped DEF Ordered
  <2>3. CASE fade = "FADE" BY <1>2, <2>3, ConstantsTyped DEF Ordered
  <2>4. CASE fade \notin {"RETURN_LONG", "KEEP_INVERSE", "FADE"} BY <1>2, <2>4 DEF Ordered, Typed
  <2>5. QED BY <1>2, <2>1, <2>2, <2>3, <2>4
<1>3. QED BY <1>1, <1>2

(***************************************************************************)
(* Types                                                                    *)
(***************************************************************************)

LEMMA TypedInitially == Init => Typed
<1> SUFFICES ASSUME Init PROVE Typed OBVIOUS
<1>1. state \in [asOf : 0 .. LastSession, alias : Aliases] /\ state.asOf = 0 /\ state.alias = None
  BY ConstantsTyped DEF Init, NoState, Aliases
<1>2. newest \in Actions /\ fade \in Fades BY DEF Init, Actions, Fades
<1>3. Named(card) /\ task \in Tasks /\ Named(task.card) /\ task.pc = "idle" /\ card \in Cards
      /\ fader \in [pc : {"idle", "card"}, card : Fades]
  BY ConstantsTyped DEF Init
<1>4. day \in 0 .. LastSession /\ fired \in 0 .. Timers /\ ready \in 0 .. Timers
      /\ manual \in 0 .. MaxManual /\ faults \in 0 .. MaxFaults /\ held \in Vehicles
  BY ConstantsTyped DEF Init
<1>5. state.asOf <= day /\ (state.asOf = 0 <=> state.alias = None) /\ phase = "evening"
  BY <1>1 DEF Init
<1>6. rises \in BOOLEAN \X BOOLEAN BY DEF Init
<1>7. /\ mode \in Modes /\ mixed \in BOOLEAN /\ overnight \in BOOLEAN /\ strayed \in BOOLEAN
      /\ board = "absent" /\ priced \in BOOLEAN /\ listed \in BOOLEAN /\ split \in BOOLEAN
  BY DEF Init
<1>8. QED BY <1>1, <1>2, <1>3, <1>4, <1>5, <1>6, <1>7 DEF Typed

LEMMA TypedPreserved == Typed /\ [Next]_vars => Typed'
<1> SUFFICES ASSUME Typed, [Next]_vars PROVE Typed' OBVIOUS
<1>1. CASE Open
  <2>1. day' = day + 1 /\ day' \in 0 .. LastSession /\ day' - 1 = day /\ state.asOf <= day'
    BY <1>1, ConstantsTyped DEF Open, Typed
  <2>2. /\ held' \in Vehicles /\ strayed' \in BOOLEAN /\ faults' \in 0 .. MaxFaults
    <3>1. CASE held' = Ordered /\ strayed' = (strayed /\ card.action # "SWITCH") /\ faults' = faults
      <4>1. (strayed /\ card.action # "SWITCH") \in BOOLEAN BY Zenon
      <4>2. QED BY <3>1, <4>1, OrderedIs DEF Typed
    <3>2. CASE \E v \in Vehicles \ {Ordered} :
                 held' = v /\ strayed' = TRUE /\ faults < MaxFaults /\ faults' = faults + 1
      BY <3>2, ConstantsTyped DEF Typed
    <3>3. QED BY <1>1, <3>1, <3>2, Zenon DEF Open
  <2>3. mixed' \in BOOLEAN /\ overnight' \in BOOLEAN /\ split' \in BOOLEAN
    BY <1>1, Zenon DEF Open
  <2>4. /\ phase' = "trading" /\ board' = "absent" /\ priced' = FALSE /\ ready' = Timers
        /\ card' = NoCard /\ fade' = None /\ task' = Idle
        /\ UNCHANGED <<mode, rises, listed, fired, newest, state, task, fader, manual>>
    BY <1>1 DEF Open
  <2>5. fade' \in Fades /\ ready' \in 0 .. Timers
    BY <2>4, ConstantsTyped DEF Fades
  <2>6. QED BY <2>1, <2>2, <2>3, <2>4, <2>5, ConstantsTyped DEF Typed
<1>2. CASE Close
  <2>1. rises' \in BOOLEAN \X BOOLEAN
    <3>1. PICK up \in BOOLEAN : rises' = <<rises[2], up>> BY <1>2, Zenon DEF Close
    <3>2. QED BY <3>1 DEF Typed
  <2>2. QED BY <1>2, <2>1 DEF Close, Typed, inputs, weekly, fading
<1>3. CASE Weekend
  <2>1. day > 0 BY <1>3, WeekAssumption DEF Weekend
  <2>2. QED BY <1>3, <2>1, ConstantsTyped DEF Weekend, Typed, inputs, fading
<1>4. ASSUME NEW ranking \in {"absent", "unlisted", "unclear", "clear"}, NEW prices \in BOOLEAN,
             Arrive(ranking, prices)
      PROVE  Typed'
  <2>1. listed' \in BOOLEAN BY <1>4, Zenon DEF Arrive
  <2>2. ready' \in {fired, 0, Timers} BY <1>4 DEF Arrive
  <2>3. ready' \in 0 .. Timers BY <2>2, ConstantsTyped DEF Typed
  <2>4. QED BY <1>4, <2>1, <2>3 DEF Arrive, Typed, market, weekly, fading
<1>5. CASE TimerRun
  <2>1. Forces \in BOOLEAN /\ FALSE \in BOOLEAN BY Zenon DEF Forces
  <2>2. task' \in Tasks /\ task'.pc \in {"idle", "decide"} /\ Named(task'.card)
    BY <1>5, <2>1, BeginIs DEF TimerRun
  <2>3. fired' \in 0 .. Timers /\ phase # "trading" BY <1>5, ConstantsTyped DEF TimerRun, Typed
  <2>4. day > 0 BY <1>5 DEF TimerRun, Typed
  <2>5. QED BY <1>5, <2>2, <2>3, <2>4 DEF TimerRun, Typed, market, inputs, fading
<1>6. ASSUME NEW force \in BOOLEAN, NEW entered \in BOOLEAN, ManualRun(force, entered)
      PROVE  Typed'
  <2>1. task' \in Tasks /\ task'.pc \in {"idle", "decide"} /\ Named(task'.card)
    BY <1>6, BeginIs DEF ManualRun
  <2>2. manual' \in 0 .. MaxManual BY <1>6, ConstantsTyped DEF ManualRun, Typed
  <2>3. QED BY <1>6, <2>1, <2>2 DEF ManualRun, Typed, market, inputs, fading
<1>7. ASSUME NEW illiquid \in SUBSET Vehicles, NEW rival \in Vehicles \union {None},
             Decide(illiquid, rival)
      PROVE  Typed'
  <2>1. task.entered \in BOOLEAN BY DEF Typed, Tasks
  <2>2. PICK c \in DecideWeek(task.entered, illiquid, rival) :
          task' = [task EXCEPT !.pc = "card", !.card = c]
    BY <1>7, Zenon DEF Decide
  <2>3. c \in Cards /\ Named(c) BY <2>1, <2>2, DecideWeekIs
  <2>4. task' \in Tasks /\ task'.pc = "card" /\ task'.card = c /\ task.pc = "decide"
    BY <1>7, <2>2, <2>3 DEF Typed, Tasks, Decide
  <2>5. QED BY <1>7, <2>3, <2>4 DEF Decide, Typed, market, inputs, fading
<1>8. CASE WriteCard
  <2>1. task.card \in Cards /\ task.pc = "card" BY <1>8 DEF WriteCard, Typed, Tasks
  <2>2. newest' \in Actions BY <1>8, <2>1 DEF WriteCard, Cards, Actions
  <2>3. CASE task.card.action \in Decided
    <3>1. task' \in Tasks /\ task'.pc = "state" /\ task'.card = task.card
      BY <1>8, <2>3 DEF WriteCard, Typed, Tasks
    <3>2. QED BY <1>8, <2>1, <2>2, <2>3, <3>1 DEF WriteCard, Typed, market, inputs, fading
  <2>4. CASE task.card.action \notin Decided
    BY <1>8, <2>1, <2>2, <2>4, ConstantsTyped DEF WriteCard, Typed, market, inputs, fading
  <2>5. QED BY <2>3, <2>4
<1>9. CASE WriteState
  <2>1. task.card.target \in Vehicles /\ day > 0 /\ day \in 0 .. LastSession
    BY <1>9 DEF WriteState, Typed, Named
  <2>2. state' \in [asOf : 0 .. LastSession, alias : Aliases] /\ state'.asOf = day
        /\ state'.alias \in Vehicles
    BY <1>9, <2>1 DEF WriteState, Aliases
  <2>3. strayed' \in BOOLEAN BY <1>9, Zenon DEF WriteState
  <2>4. state'.alias # None /\ state'.asOf # 0 /\ day <= day
    BY <2>1, <2>2, ConstantsTyped
  <2>5. QED BY <1>9, <2>1, <2>2, <2>3, <2>4, ConstantsTyped DEF WriteState, Typed, inputs, fading
<1>10. CASE Crash
  <2>1. split' \in BOOLEAN BY <1>10, Zenon DEF Crash
  <2>2. faults' \in 0 .. MaxFaults BY <1>10, ConstantsTyped DEF Crash, Typed
  <2>3. QED BY <1>10, <2>1, <2>2, ConstantsTyped DEF Crash, Typed, market, inputs, fading
<1>11. ASSUME NEW bar \in BOOLEAN, NEW prevBar \in BOOLEAN, ReadFade(bar, prevBar)
       PROVE  Typed'
  <2>1. fader' \in [pc : {"idle", "card"}, card : Fades]
    BY <1>11, FadeCardIs DEF ReadFade
  <2>2. QED BY <1>11, <2>1 DEF ReadFade, Typed, market, inputs, weekly
<1>12. CASE WriteFade
  BY <1>12, ConstantsTyped DEF WriteFade, Typed, market, inputs, weekly
<1>13. CASE UNCHANGED vars
  BY <1>13 DEF vars, Typed, market, inputs, weekly, fading
<1>14. QED
  BY <1>1, <1>2, <1>3, <1>4, <1>5, <1>6, <1>7, <1>8, <1>9, <1>10, <1>11, <1>12, <1>13 DEF Next

(***************************************************************************)
(* The parts of the invariant                                               *)
(***************************************************************************)

Inv == /\ Typed /\ NewestIsCard /\ RetriesDecide /\ DecidedOnCurrent
       /\ SwitchIsRecorded /\ StateIsHeld /\ FadeOnBase

LEMMA Initially == Init => Inv
<1> SUFFICES ASSUME Init PROVE Inv OBVIOUS
<1>1. NewestIsCard BY ConstantsTyped DEF Init, NewestIsCard
<1>2. RetriesDecide BY ConstantsTyped DEF Init, RetriesDecide
<1>3. DecidedOnCurrent BY ConstantsTyped DEF Init, DecidedOnCurrent
<1>4. SwitchIsRecorded BY ConstantsTyped DEF Init, SwitchIsRecorded, None
<1>5. StateIsHeld BY DEF Init, StateIsHeld, NoState
<1>6. FadeOnBase BY ConstantsTyped DEF Init, FadeOnBase, Orders, None
<1>7. QED BY <1>1, <1>2, <1>3, <1>4, <1>5, <1>6, TypedInitially DEF Inv

\* A step of the weekly command other than writing: a run begins.
LEMMA RunBegins ==
  ASSUME Typed, TimerRun \/ \E force, entered \in BOOLEAN : ManualRun(force, entered)
  PROVE  /\ task.pc = "idle" /\ task'.pc \in {"idle", "decide"}
         /\ TimerRun /\ task'.pc = "idle" => card # NoCard /\ newest # "NO_DATA"
         /\ UNCHANGED <<market, inputs, newest, card, state, split, fading, faults>>
<1>1. CASE TimerRun
  <2>1. Forces \in BOOLEAN /\ FALSE \in BOOLEAN BY Zenon DEF Forces
  <2>2. task'.pc \in {"idle", "decide"} /\ (task'.pc = "idle" => card # NoCard /\ ~ Forces)
    BY <1>1, <2>1, BeginIs DEF TimerRun
  <2>3. QED BY <1>1, <2>2, ConstantsTyped DEF TimerRun, Forces
<1>2. CASE (\E force, entered \in BOOLEAN : ManualRun(force, entered)) /\ ~ TimerRun
  <2>1. PICK force \in BOOLEAN, entered \in BOOLEAN : ManualRun(force, entered) BY <1>2
  <2>2. task'.pc \in {"idle", "decide"} BY <2>1, BeginIs DEF ManualRun
  <2>3. QED BY <1>2, <2>1, <2>2, ConstantsTyped DEF ManualRun
<1>3. QED BY <1>1, <1>2

\* What a decision leaves for the card.
LEMMA Decides ==
  ASSUME Typed, NEW illiquid \in SUBSET Vehicles, NEW rival \in Vehicles \union {None},
         Decide(illiquid, rival)
  PROVE  /\ task.pc = "decide" /\ task'.pc = "card" /\ task'.card.action # None
         /\ board # "absent" /\ priced => task'.card.action # "NO_DATA"
         /\ task'.card.action \in Decided => board # "absent" /\ task'.card.current = Current
         /\ UNCHANGED <<market, inputs, fired, newest, card, state, manual, split, fading, faults>>
<1>1. task.entered \in BOOLEAN BY DEF Typed, Tasks
<1>2. PICK c \in DecideWeek(task.entered, illiquid, rival) :
        task' = [task EXCEPT !.pc = "card", !.card = c]
  BY Zenon DEF Decide
<1>3. task'.pc = "card" /\ task'.card = c BY <1>2 DEF Typed, Tasks
<1>4. QED BY <1>1, <1>2, <1>3, DecideWeekIs DEF Decide

\* What writing a card changes.
LEMMA Writes ==
  ASSUME Typed, WriteCard
  PROVE  /\ task.pc = "card" /\ card' = task.card /\ newest' = task.card.action
         /\ task.card.action \in Decided => task'.pc = "state" /\ task'.card = task.card
         /\ task.card.action \notin Decided => task'.pc = "idle"
         /\ UNCHANGED <<market, inputs, fired, state, manual, split, fading, faults>>
BY ConstantsTyped DEF WriteCard, Typed, Tasks

LEMMA NewestPreserved == Typed /\ NewestIsCard /\ [Next]_vars => NewestIsCard'
<1> SUFFICES ASSUME Typed, NewestIsCard, [Next]_vars PROVE NewestIsCard' OBVIOUS
<1>1. CASE Open BY <1>1, ConstantsTyped DEF Open, NewestIsCard
<1>2. CASE TimerRun \/ \E force, entered \in BOOLEAN : ManualRun(force, entered)
  BY <1>2, RunBegins DEF NewestIsCard
<1>3. ASSUME NEW illiquid \in SUBSET Vehicles, NEW rival \in Vehicles \union {None},
             Decide(illiquid, rival)
      PROVE  NewestIsCard'
  BY <1>3, Decides DEF NewestIsCard
<1>4. CASE WriteCard BY <1>4, Writes DEF NewestIsCard
<1>5. CASE WriteState BY <1>5, ConstantsTyped DEF WriteState, NewestIsCard
<1>6. CASE Crash BY <1>6, ConstantsTyped DEF Crash, NewestIsCard
<1>7. ASSUME UNCHANGED <<card, newest, task>> PROVE NewestIsCard'
  BY <1>7 DEF NewestIsCard
<1>8. CASE Close \/ Weekend BY <1>7, <1>8 DEF Close, Weekend, weekly
<1>9. ASSUME NEW ranking, NEW prices, Arrive(ranking, prices) PROVE NewestIsCard'
  BY <1>7, <1>9 DEF Arrive, weekly
<1>10. ASSUME NEW bar, NEW prevBar, ReadFade(bar, prevBar) PROVE NewestIsCard'
  BY <1>7, <1>10 DEF ReadFade, weekly
<1>11. CASE WriteFade BY <1>7, <1>11 DEF WriteFade, weekly
<1>12. CASE UNCHANGED vars BY <1>7, <1>12 DEF vars, weekly
<1>13. QED
  BY <1>1, <1>2, <1>3, <1>4, <1>5, <1>6, <1>8, <1>9, <1>10, <1>11, <1>12 DEF Next

LEMMA RetriesPreserved == Typed /\ NewestIsCard /\ RetriesDecide /\ [Next]_vars => RetriesDecide'
<1> SUFFICES ASSUME Typed, NewestIsCard, RetriesDecide, [Next]_vars PROVE RetriesDecide' OBVIOUS
<1>0. fired \in Nat /\ ready \in Nat /\ Timers \in Nat /\ faults \in Nat
  BY ConstantsTyped DEF Typed
<1>1. CASE Open BY <1>0, <1>1 DEF Open, RetriesDecide
<1>2. CASE Close BY <1>2 DEF Close, RetriesDecide, inputs, weekly
<1>3. CASE Weekend
  <2>1. fired' = 0 /\ UNCHANGED <<inputs, card, task, faults>> BY <1>3 DEF Weekend
  <2>2. QED BY <1>0, <2>1 DEF RetriesDecide, inputs
<1>4. ASSUME NEW ranking \in {"absent", "unlisted", "unclear", "clear"}, NEW prices \in BOOLEAN,
             Arrive(ranking, prices)
      PROVE  RetriesDecide'
  <2>1. /\ board' = ranking /\ priced' = prices /\ fired' = fired /\ phase' = phase
        /\ ready' = IF ranking # "absent" /\ prices /\ phase = "weekend" THEN fired
                    ELSE IF ranking # "absent" /\ prices THEN 0 ELSE Timers
    BY <1>4 DEF Arrive, market, weekly
  <2>2. CASE ranking # "absent" /\ prices BY <1>0, <2>1, <2>2 DEF RetriesDecide
  <2>3. CASE ~ (ranking # "absent" /\ prices) BY <1>0, <2>1, <2>3 DEF RetriesDecide
  <2>4. QED BY <2>2, <2>3
<1>5. CASE TimerRun
  <2>1. /\ task'.pc \in {"idle", "decide"}
        /\ task'.pc = "idle" => card # NoCard /\ newest # "NO_DATA"
        /\ UNCHANGED <<market, inputs, newest, card, state, split, fading, faults>>
    BY <1>5, RunBegins
  <2>2. task'.pc = "idle" => HasData(card)
    BY <2>1 DEF NewestIsCard, HasData
  <2>3. HasData(card)' <=> HasData(card) BY <2>1 DEF HasData
  <2>4. QED BY <2>1, <2>2, <2>3 DEF RetriesDecide, inputs
<1>6. CASE \E force, entered \in BOOLEAN : ManualRun(force, entered)
  <2>1. /\ task.pc = "idle" /\ task'.pc \in {"idle", "decide"}
        /\ UNCHANGED <<market, inputs, newest, card, state, split, fading, faults>>
    BY <1>6, RunBegins
  <2>2. fired' = fired BY <1>6 DEF ManualRun
  <2>3. HasData(card)' <=> HasData(card) BY <2>1 DEF HasData
  <2>4. QED BY <2>1, <2>2, <2>3 DEF RetriesDecide, inputs, market
<1>7. ASSUME NEW illiquid \in SUBSET Vehicles, NEW rival \in Vehicles \union {None},
             Decide(illiquid, rival)
      PROVE  RetriesDecide'
  <2>1. /\ task'.pc = "card" /\ task'.card.action # None
        /\ board # "absent" /\ priced => task'.card.action # "NO_DATA"
        /\ UNCHANGED <<market, inputs, fired, newest, card, state, manual, split, fading, faults>>
    BY <1>7, Decides
  <2>2. board # "absent" /\ priced => HasData(task'.card) BY <2>1 DEF HasData
  <2>3. QED BY <2>1, <2>2 DEF RetriesDecide, inputs, market, HasData
<1>8. CASE WriteCard
  <2>1. /\ task.pc = "card" /\ card' = task.card /\ task'.pc \in {"idle", "state"}
        /\ UNCHANGED <<market, inputs, fired, state, manual, split, fading, faults>>
    BY <1>8, Writes
  <2>2. HasData(task.card) => HasData(card)' BY <2>1 DEF HasData
  <2>3. QED BY <2>1, <2>2 DEF RetriesDecide, inputs, market
<1>9. CASE WriteState
  <2>1. /\ task.pc = "state" /\ task'.pc = "idle" /\ phase' = phase /\ faults' = faults
        /\ fired' = fired /\ card' = card /\ UNCHANGED inputs
    BY <1>9, ConstantsTyped DEF WriteState
  <2>2. HasData(card)' <=> HasData(card) BY <2>1 DEF HasData
  <2>3. QED BY <2>1, <2>2 DEF RetriesDecide, inputs
<1>10. CASE Crash
  <2>1. faults' # 0 BY <1>0, <1>10 DEF Crash
  <2>2. QED BY <1>10, <2>1 DEF Crash, RetriesDecide, inputs
<1>11. ASSUME UNCHANGED <<ready, board, priced, phase, fired, faults, task, card>>
       PROVE  RetriesDecide'
  BY <1>11 DEF RetriesDecide, HasData
<1>12. ASSUME NEW bar, NEW prevBar, ReadFade(bar, prevBar) PROVE RetriesDecide'
  BY <1>11, <1>12 DEF ReadFade, market, inputs, weekly
<1>13. CASE WriteFade BY <1>11, <1>13 DEF WriteFade, market, inputs, weekly
<1>14. CASE UNCHANGED vars BY <1>11, <1>14 DEF vars, market, inputs, weekly
<1>15. QED
  BY <1>1, <1>2, <1>3, <1>4, <1>5, <1>6, <1>7, <1>8, <1>9, <1>10, <1>12, <1>13, <1>14 DEF Next

LEMMA DecidedPreserved == Typed /\ DecidedOnCurrent /\ [Next]_vars => DecidedOnCurrent'
<1> SUFFICES ASSUME Typed, DecidedOnCurrent, [Next]_vars PROVE DecidedOnCurrent' OBVIOUS
<1>1. CASE Open BY <1>1, ConstantsTyped DEF Open, DecidedOnCurrent
<1>2. ASSUME NEW ranking \in {"absent", "unlisted", "unclear", "clear"}, NEW prices \in BOOLEAN,
             Arrive(ranking, prices)
      PROVE  DecidedOnCurrent'
  BY <1>2 DEF Arrive, DecidedOnCurrent, Current, Shown, market, weekly
<1>3. CASE TimerRun \/ \E force, entered \in BOOLEAN : ManualRun(force, entered)
  BY <1>3, RunBegins DEF DecidedOnCurrent
<1>4. ASSUME NEW illiquid \in SUBSET Vehicles, NEW rival \in Vehicles \union {None},
             Decide(illiquid, rival)
      PROVE  DecidedOnCurrent'
  BY <1>4, Decides DEF DecidedOnCurrent, Current, Shown, market, inputs
<1>5. CASE WriteCard BY <1>5, Writes DEF DecidedOnCurrent
<1>6. CASE WriteState BY <1>6, ConstantsTyped DEF WriteState, DecidedOnCurrent
<1>7. CASE Crash BY <1>7, ConstantsTyped DEF Crash, DecidedOnCurrent
<1>8. ASSUME UNCHANGED <<task, board, held, state>> PROVE DecidedOnCurrent'
  BY <1>8 DEF DecidedOnCurrent, Current, Shown
<1>9. CASE Close \/ Weekend BY <1>8, <1>9 DEF Close, Weekend, weekly, inputs
<1>10. ASSUME NEW bar, NEW prevBar, ReadFade(bar, prevBar) PROVE DecidedOnCurrent'
  BY <1>8, <1>10 DEF ReadFade, market, inputs, weekly
<1>11. CASE WriteFade BY <1>8, <1>11 DEF WriteFade, market, inputs, weekly
<1>12. CASE UNCHANGED vars BY <1>8, <1>12 DEF vars, market, inputs, weekly
<1>13. QED
  BY <1>1, <1>2, <1>3, <1>4, <1>5, <1>6, <1>7, <1>9, <1>10, <1>11, <1>12 DEF Next

LEMMA SwitchPreserved == Typed /\ SwitchIsRecorded /\ [Next]_vars => SwitchIsRecorded'
<1> SUFFICES ASSUME Typed, SwitchIsRecorded, [Next]_vars PROVE SwitchIsRecorded' OBVIOUS
<1>1. CASE Open BY <1>1, ConstantsTyped DEF Open, SwitchIsRecorded, None
<1>2. CASE TimerRun \/ \E force, entered \in BOOLEAN : ManualRun(force, entered)
  BY <1>2, RunBegins DEF SwitchIsRecorded, market
<1>3. ASSUME NEW illiquid \in SUBSET Vehicles, NEW rival \in Vehicles \union {None},
             Decide(illiquid, rival)
      PROVE  SwitchIsRecorded'
  BY <1>3, Decides DEF SwitchIsRecorded, market
<1>4. CASE WriteCard BY <1>4, Writes DEF SwitchIsRecorded, Decided
<1>5. CASE WriteState BY <1>5 DEF WriteState, SwitchIsRecorded
<1>6. CASE Crash
  <2>1. split' = (split \/ task.pc = "state") /\ UNCHANGED <<card, state, day>>
    BY <1>6 DEF Crash, market
  <2>2. ~ split' => ~ split /\ task.pc # "state" BY <2>1 DEF Typed
  <2>3. QED BY <2>1, <2>2 DEF SwitchIsRecorded
<1>7. ASSUME UNCHANGED <<card, task, split, state, day>> PROVE SwitchIsRecorded'
  BY <1>7 DEF SwitchIsRecorded
<1>8. CASE Close \/ Weekend BY <1>7, <1>8 DEF Close, Weekend, weekly
<1>9. ASSUME NEW ranking, NEW prices, Arrive(ranking, prices) PROVE SwitchIsRecorded'
  BY <1>7, <1>9 DEF Arrive, market, weekly
<1>10. ASSUME NEW bar, NEW prevBar, ReadFade(bar, prevBar) PROVE SwitchIsRecorded'
  BY <1>7, <1>10 DEF ReadFade, market, weekly
<1>11. CASE WriteFade BY <1>7, <1>11 DEF WriteFade, market, weekly
<1>12. CASE UNCHANGED vars BY <1>7, <1>12 DEF vars, market, weekly
<1>13. QED
  BY <1>1, <1>2, <1>3, <1>4, <1>5, <1>6, <1>8, <1>9, <1>10, <1>11, <1>12 DEF Next

LEMMA FadePreserved == Typed /\ FadeOnBase /\ [Next]_vars => FadeOnBase'
<1> SUFFICES ASSUME Typed, FadeOnBase, [Next]_vars PROVE FadeOnBase' OBVIOUS
<1>1. CASE Open
  <2>1. fade' = None /\ fader' = NoFader /\ mode' = mode /\ (overnight' => mode = "open_only")
    BY <1>1, Zenon DEF Open
  <2>2. None \notin Orders /\ None # "KEEP_INVERSE" BY DEF Orders, None
  <2>3. QED BY <2>1, <2>2, ConstantsTyped DEF FadeOnBase
<1>2. CASE WriteState
  <2>1. state'.asOf = day /\ day' = day /\ UNCHANGED <<fade, fader, mode, overnight>>
    BY <1>2 DEF WriteState, fading
  <2>2. QED BY <2>1 DEF FadeOnBase
<1>3. ASSUME NEW bar \in BOOLEAN, NEW prevBar \in BOOLEAN, ReadFade(bar, prevBar)
      PROVE  FadeOnBase'
  <2>1. /\ fader'.card = FadeCard(bar, prevBar) /\ fade' = fade
        /\ UNCHANGED <<state, day, mode, overnight>>
    BY <1>3 DEF ReadFade, market, weekly
  <2>2. QED BY <2>1, FadeCardIs DEF FadeOnBase
<1>4. CASE WriteFade
  <2>1. /\ fader.pc = "card" /\ fade' = fader.card /\ fader' = NoFader
        /\ UNCHANGED <<state, day, mode, overnight>>
    BY <1>4 DEF WriteFade, market, weekly
  <2>2. QED BY <2>1, ConstantsTyped DEF FadeOnBase, None
<1>5. ASSUME UNCHANGED <<fade, fader, state, day, mode, overnight>> PROVE FadeOnBase'
  BY <1>5 DEF FadeOnBase
<1>6. CASE Close \/ Weekend BY <1>5, <1>6 DEF Close, Weekend, weekly, fading
<1>7. ASSUME NEW ranking, NEW prices, Arrive(ranking, prices) PROVE FadeOnBase'
  BY <1>5, <1>7 DEF Arrive, market, weekly, fading
<1>8. CASE TimerRun \/ \E force, entered \in BOOLEAN : ManualRun(force, entered)
  BY <1>5, <1>8, RunBegins DEF market, fading
<1>9. ASSUME NEW illiquid \in SUBSET Vehicles, NEW rival \in Vehicles \union {None},
             Decide(illiquid, rival)
      PROVE  FadeOnBase'
  BY <1>5, <1>9, Decides DEF market, fading
<1>10. CASE WriteCard BY <1>5, <1>10, Writes DEF market, fading
<1>11. CASE Crash BY <1>5, <1>11 DEF Crash, market, fading
<1>12. CASE UNCHANGED vars BY <1>5, <1>12 DEF vars, market, weekly, fading
<1>13. QED
  BY <1>1, <1>2, <1>3, <1>4, <1>6, <1>7, <1>8, <1>9, <1>10, <1>11, <1>12 DEF Next

\* The new holding is the recorded one: the state was written this session and the
\* cards ask for it, or it was written before and no card of the session moves away.
LEMMA HeldPreserved ==
  Typed /\ SwitchIsRecorded /\ FadeOnBase /\ StateIsHeld /\ [Next]_vars => StateIsHeld'
<1> SUFFICES ASSUME Typed, SwitchIsRecorded, FadeOnBase, StateIsHeld, [Next]_vars
             PROVE  StateIsHeld'
  OBVIOUS
<1>1. CASE Open
  <2> SUFFICES ASSUME state'.alias # None, state'.asOf # day', ~ split', ~ strayed', ~ overnight'
               PROVE  state'.alias = held'
    BY DEF StateIsHeld
  <2>1. state' = state /\ mode' = mode BY <1>1 DEF Open
  <2>2. held' = Ordered /\ strayed' = (strayed /\ card.action # "SWITCH")
    BY <1>1, Zenon DEF Open
  <2>3. split' = (split \/ (state.asOf = day /\ Ordered # state.alias /\ ~ overnight'))
    BY <1>1, Zenon DEF Open
  <2>4. ~ split /\ (state.asOf = day => Ordered = state.alias)
    BY <2>3 DEF Typed
  <2>5. CASE state.asOf = day
    BY <2>1, <2>2, <2>4, <2>5
  <2>6. CASE state.asOf # day
    <3>1. card.action # "SWITCH"
      BY <1>1, <2>4, <2>6, ConstantsTyped DEF Open, SwitchIsRecorded
    <3>2. ~ strayed BY <2>2, <3>1 DEF Typed
    <3>3. overnight' = (/\ mode = "open_only" /\ card.action # "SWITCH"
                        /\ fade \in {"FADE", "KEEP_INVERSE"} \/ (overnight /\ fade # "RETURN_LONG"))
      BY <1>1, Zenon DEF Open
    <3>4. ~ (mode = "open_only" /\ (fade \in {"FADE", "KEEP_INVERSE"} \/ (overnight /\ fade # "RETURN_LONG")))
      BY <3>1, <3>3
    <3>5. CASE fade = "RETURN_LONG" \/ fade = "FADE"
      <4>1. state.alias = Base BY <2>6, <3>5 DEF FadeOnBase, Orders
      <4>2. Ordered = Base BY <3>1, <3>4, <3>5, OrderedIs
      <4>3. QED BY <2>1, <2>2, <4>1, <4>2
    <3>6. CASE fade = "KEEP_INVERSE"
      BY <3>4, <3>6 DEF FadeOnBase
    <3>7. CASE fade \notin {"RETURN_LONG", "KEEP_INVERSE", "FADE"}
      <4>1. ~ overnight BY <3>4, <3>7 DEF FadeOnBase
      <4>2. state.alias = held BY <2>1, <2>4, <2>6, <3>2, <4>1 DEF StateIsHeld
      <4>3. Ordered = held BY <3>1, <3>7, OrderedIs
      <4>4. QED BY <2>1, <2>2, <4>2, <4>3
    <3>8. QED BY <3>5, <3>6, <3>7
  <2>7. QED BY <2>5, <2>6
<1>2. CASE WriteState BY <1>2 DEF WriteState, StateIsHeld
<1>3. CASE Crash
  <2>1. ~ split' => ~ split BY <1>3 DEF Crash, Typed
  <2>2. UNCHANGED <<state, day, strayed, overnight, held>> BY <1>3 DEF Crash, market
  <2>3. QED BY <2>1, <2>2 DEF StateIsHeld
<1>4. ASSUME UNCHANGED <<state, day, split, strayed, overnight, held>> PROVE StateIsHeld'
  BY <1>4 DEF StateIsHeld
<1>5. CASE Close \/ Weekend BY <1>4, <1>5 DEF Close, Weekend, weekly
<1>6. ASSUME NEW ranking, NEW prices, Arrive(ranking, prices) PROVE StateIsHeld'
  BY <1>4, <1>6 DEF Arrive, market, weekly
<1>7. CASE TimerRun \/ \E force, entered \in BOOLEAN : ManualRun(force, entered)
  BY <1>4, <1>7, RunBegins DEF market
<1>8. ASSUME NEW illiquid \in SUBSET Vehicles, NEW rival \in Vehicles \union {None},
             Decide(illiquid, rival)
      PROVE  StateIsHeld'
  BY <1>4, <1>8, Decides DEF market
<1>9. CASE WriteCard BY <1>4, <1>9, Writes DEF market
<1>10. ASSUME NEW bar, NEW prevBar, ReadFade(bar, prevBar) PROVE StateIsHeld'
  BY <1>4, <1>10 DEF ReadFade, market, weekly
<1>11. CASE WriteFade BY <1>4, <1>11 DEF WriteFade, market, weekly
<1>12. CASE UNCHANGED vars BY <1>4, <1>12 DEF vars, market, weekly
<1>13. QED
  BY <1>1, <1>2, <1>3, <1>5, <1>6, <1>7, <1>8, <1>9, <1>10, <1>11, <1>12 DEF Next

LEMMA InvHolds == Spec => []Inv
<1>1. Inv /\ [Next]_vars => Inv'
  BY TypedPreserved, NewestPreserved, RetriesPreserved, DecidedPreserved, SwitchPreserved,
     FadePreserved, HeldPreserved DEF Inv
<1>2. QED BY Initially, <1>1, PTL DEF Spec

(***************************************************************************)
(* The theorems                                                             *)
(***************************************************************************)

\* The files and processes of the week keep their types, however the two commands,
\* the operator and the faults interleave.
THEOREM WeekTyped == Spec => []TypeOK
<1> DEFINE actions == {c.action : c \in Cards}
<1>1. ASSUME Typed PROVE TypeOK
  <2>1. newest \in actions
    <3>1. newest \in Actions /\ None \in Aliases BY <1>1 DEF Typed, Aliases
    <3>2. Card(newest, None, None) \in Cards /\ Card(newest, None, None).action = newest
      BY <3>1 DEF Card, Cards, Actions
    <3>3. QED BY <3>2
  <2>2. state.asOf \in 0 .. day
    BY <1>1, ConstantsTyped DEF Typed
  <2>3. state \in [asOf : 0 .. day, alias : Aliases]
    BY <1>1, <2>2 DEF Typed
  <2>4. QED BY <1>1, <2>1, <2>3 DEF Typed, TypeOK, Named, Tasks
<1>2. QED BY <1>1, InvHolds, PTL DEF Inv

\* The retries of a weekend decide: with the ranking and the prices there before the
\* last of them, the week has a card with data when they are over.
THEOREM RetriesEndWithCard == Spec => []WeekendDecides
<1>1. Inv => WeekendDecides
  <2> SUFFICES ASSUME Inv, phase = "weekend", fired = Timers, task = Idle, ready < Timers, faults = 0
               PROVE  card.action \notin {None, "NO_DATA"}
    BY DEF WeekendDecides
  <2>1. QED BY ConstantsTyped DEF Inv, RetriesDecide, HasData
<1>2. QED BY <1>1, InvHolds, PTL

\* What a decided card calls the current holding is what the operator holds.
THEOREM CardNamesHolding == Spec => CurrentIsHeld
<1> DEFINE Step == /\ card' # card /\ card'.action \in Decided /\ card'.current # None
                   /\ Shown \/ (~ split /\ ~ strayed /\ state.asOf # day /\ ~ overnight)
                   => card'.current = held
<1>1. ASSUME Inv, [Next]_vars PROVE [Step]_vars
  <2> SUFFICES ASSUME card' # card, card'.action \in Decided, card'.current # None,
                      Shown \/ (~ split /\ ~ strayed /\ state.asOf # day /\ ~ overnight)
               PROVE  card'.current = held
    OBVIOUS
  <2>1. card' # NoCard
    BY ConstantsTyped DEF Decided, None
  <2>2. WriteCard
    BY <1>1, <2>1, RunBegins, Decides
       DEF Inv, Next, Open, Close, Weekend, Arrive, WriteState, Crash, ReadFade, WriteFade, vars, weekly
  <2>3. task.pc = "card" /\ card' = task.card BY <1>1, <2>2, Writes DEF Inv
  <2>4. card'.current = Current BY <1>1, <2>3 DEF Inv, DecidedOnCurrent
  <2>5. CASE Shown BY <2>4, <2>5 DEF Current
  <2>6. CASE ~ Shown
    <3>1. state.alias = card'.current BY <2>4, <2>6 DEF Current
    <3>2. QED BY <1>1, <2>6, <3>1 DEF Inv, StateIsHeld
  <2>7. QED BY <2>5, <2>6
<1>2. QED BY <1>1, InvHolds, PTL DEF Spec, CurrentIsHeld

\* A fade is ordered only on top of the base holding.
THEOREM FadesOnBase == Spec => FadeOnHeldBase
<1> DEFINE Step == /\ fade' # fade /\ fade' = "FADE" /\ ~ split /\ ~ strayed
                   /\ state.asOf # day /\ card.action # "SWITCH" /\ ~ overnight
                   => held = Base
<1>1. ASSUME Inv, [Next]_vars PROVE [Step]_vars
  <2> SUFFICES ASSUME fade' # fade, fade' = "FADE", ~ split, ~ strayed, state.asOf # day, ~ overnight
               PROVE  held = Base
    OBVIOUS
  <2>1. WriteFade
    BY <1>1, RunBegins, Decides
       DEF Inv, Next, Open, Close, Weekend, Arrive, WriteCard, WriteState, Crash, ReadFade, vars,
           fading, None
  <2>2. fader.pc = "card" /\ fader.card = "FADE" BY <2>1 DEF WriteFade
  <2>3. state.alias = Base BY <1>1, <2>2 DEF Inv, FadeOnBase, Orders
  <2>4. QED BY <1>1, <2>3, ConstantsTyped DEF Inv, StateIsHeld
<1>2. QED BY <1>1, InvHolds, PTL DEF Spec, FadeOnHeldBase

=============================================================================
