------------------------- MODULE LeaderboardArchive -------------------------
(***************************************************************************)
(* `mt-etf contest-archive`: fetch the public ranking files, which the      *)
(* contest site overwrites, and keep them under their base date.  The       *)
(* command takes no lock, so a timer run and a hand-started run may overlap.*)
(* Every directory is staged beside its place and renamed into it.          *)
(*                                                                          *)
(* The identifying content of a file is the number of the publication that  *)
(* last changed it: the request time, which is not part of the identity, is *)
(* left out, so a holiday re-publication of the same rows is no step here.  *)
(***************************************************************************)
EXTENDS Integers, FiniteSets

CONSTANTS
  Archivers,       \* processes running contest-archive
  NoBody,          \* stands for a date directory that does not exist
  MaxPublication,  \* bound: changes of the published files
  MaxClock,        \* bound: seconds that name revisions
  MaxCrashes       \* bound: crashes

Endpoints == {"total", "purchases"}
Dates     == 0 .. MaxPublication
Versions  == 0 .. MaxPublication
Seconds   == 0 .. MaxClock
Bodies    == [Endpoints -> Versions]

ASSUME ArchiveAssumption ==
  /\ NoBody \notin Bodies
  /\ MaxPublication \in Nat /\ MaxClock \in Nat /\ MaxCrashes \in Nat

VARIABLES
  site,      \* the published files: [base, body]
  published, \* number of the last publication
  clock,     \* the current second
  original,  \* <baseDt>/<endpoint>.json, or NoBody
  revisions, \* <baseDt>/revisions/<instant>/: sets of [name, body]
  leftover,  \* staging directories of crashed runs under <baseDt>/revisions
  call,      \* the call each archiver is in
  stored,    \* contents answered for: [base, body] of the runs that returned 0
  crashes,
  overlapped \* have two runs been under way together?  For the properties only

archiveVars == <<site, published, clock, original, revisions, leftover, call, stored,
                 crashes, overlapped>>
disk == <<original, revisions, leftover>>
world == <<site, published, clock, overlapped>>

NoFiles == [e \in {} |-> 0]

Done == [pc |-> "done", base |-> 0, body |-> NoFiles, name |-> 0, staged |-> NoFiles]

Archive == INSTANCE AppendOnlyArchive WITH Names <- Seconds

-----------------------------------------------------------------------------
(* The contest site and the clock *)

\* The files are rebuilt, for the same base date or for the next one.
Publish(base, changed) ==
  /\ published < MaxPublication
  /\ changed # {} /\ base \in {site.base, site.base + 1}
  /\ published' = published + 1
  /\ site' = [base |-> base,
              body |-> [e \in Endpoints |-> IF e \in changed \/ base # site.base
                                              THEN published + 1 ELSE site.body[e]]]
  /\ UNCHANGED <<clock, disk, call, stored, crashes, overlapped>>

Tick ==
  /\ clock < MaxClock
  /\ clock' = clock + 1
  /\ UNCHANGED <<site, published, disk, call, stored, crashes, overlapped>>

-----------------------------------------------------------------------------
(* contest-archive *)

At(p, pc)   == call[p].pc = pc
Goto(p, pc) == call' = [call EXCEPT ![p].pc = pc]

Stop(p) == call' = [call EXCEPT ![p] = Done]

\* The command answers `written`, `unchanged` or `revision_stored`.
Answer(p) ==
  /\ Stop(p)
  /\ stored' = stored \union {[base |-> call[p].base, body |-> call[p].body]}

Start(p) ==
  /\ At(p, "done")
  /\ call' = [call EXCEPT ![p] = [Done EXCEPT !.pc = "fetch"]]
  /\ overlapped' = IF \E q \in Archivers \ {p} : ~ At(q, "done") THEN "once" ELSE overlapped
  /\ UNCHANGED <<site, published, clock, disk, stored, crashes>>

\* One file per request, etfRankTotal first: it names the base date.
Fetch(p, e) ==
  /\ At(p, "fetch")
  /\ e \notin DOMAIN call[p].body /\ (e = "total" \/ "total" \in DOMAIN call[p].body)
  /\ LET body == [x \in DOMAIN call[p].body \union {e} |->
                    IF x = e THEN site.body[e] ELSE call[p].body[x]] IN
     call' = [call EXCEPT ![p].body = body,
                          ![p].base = IF e = "total" THEN site.base ELSE @,
                          ![p].pc = IF DOMAIN body = Endpoints THEN "locate" ELSE @]
  /\ UNCHANGED <<world, disk, stored, crashes>>

\* Any failed request fails the run: no partial set is archived.
FetchFails(p) ==
  /\ At(p, "fetch") /\ Stop(p)
  /\ UNCHANGED <<world, disk, stored, crashes>>

Locate(p) ==
  /\ At(p, "locate")
  /\ Goto(p, IF original[call[p].base] = NoBody THEN "install" ELSE "evaluate")
  /\ UNCHANGED <<world, disk, stored, crashes>>

\* Variants named Bad... are faulty versions of the definition after them.
BadInstallOriginal(p) ==
  /\ At(p, "install")
  /\ original' = [original EXCEPT ![call[p].base] = call[p].body]
  /\ Answer(p)
  /\ UNCHANGED <<world, revisions, leftover, crashes>>

\* Stage the files beside the date directories, then rename; a rename onto a
\* directory that has appeared meanwhile fails.
InstallOriginal(p) ==
  /\ At(p, "install")
  /\ IF original[call[p].base] = NoBody
       THEN original' = [original EXCEPT ![call[p].base] = call[p].body] /\ Answer(p)
       ELSE Goto(p, "evaluate") /\ UNCHANGED <<original, stored>>
  /\ UNCHANGED <<world, revisions, leftover, crashes>>

\* The directories under <baseDt>/revisions: revisions, and the staging
\* directories of running and of crashed archivers.
Children(d) ==
  {r.body : r \in revisions[d]} \union leftover[d] \union
  {call[q].staged : q \in {q \in Archivers : call[q].base = d}}

BadMatches(p) == call[p].body = original[call[p].base]
Matches(p) ==
  call[p].body = original[call[p].base] \/ call[p].body \in Children(call[p].base)

Taken(p, name) == name \in {r.name : r \in revisions[call[p].base]}

Evaluate(p) ==
  /\ At(p, "evaluate")
  /\ \/ Matches(p) /\ Answer(p)
     \/ ~ Matches(p) /\ Taken(p, clock) /\ Stop(p) /\ UNCHANGED stored
     \/ /\ ~ Matches(p) /\ ~ Taken(p, clock)
        /\ call' = [call EXCEPT ![p].pc = "stage", ![p].name = clock]
        /\ UNCHANGED stored
  /\ UNCHANGED <<world, disk, crashes>>

StageFile(p, e) ==
  /\ At(p, "stage") /\ e \notin DOMAIN call[p].staged
  /\ LET staged == [x \in DOMAIN call[p].staged \union {e} |-> call[p].body[x]] IN
     call' = [call EXCEPT ![p].staged = staged,
                          ![p].pc = IF DOMAIN staged = Endpoints THEN "rename" ELSE @]
  /\ UNCHANGED <<world, disk, stored, crashes>>

InstallRevision(p) ==
  /\ At(p, "rename")
  /\ IF Taken(p, call[p].name)
       THEN Stop(p) /\ UNCHANGED <<revisions, stored>>
       ELSE /\ revisions' = [revisions EXCEPT ![call[p].base] =
                 @ \union {[name |-> call[p].name, body |-> call[p].body]}]
            /\ Answer(p)
  /\ UNCHANGED <<world, original, leftover, crashes>>

\* A staging directory stays where the crash left it.
ArchiverCrash(p) ==
  /\ ~ At(p, "done") /\ crashes < MaxCrashes
  /\ crashes' = crashes + 1
  /\ leftover' = [leftover EXCEPT ![call[p].base] =
       @ \union {f \in {call[p].staged} : At(p, "stage") \/ At(p, "rename")}]
  /\ Stop(p)
  /\ UNCHANGED <<world, original, revisions, stored>>

ArchiveStep(p) ==
  \/ \E e \in Endpoints : Fetch(p, e) \/ StageFile(p, e)
  \/ Locate(p) \/ InstallOriginal(p) \/ Evaluate(p) \/ InstallRevision(p)

ArchiveInit ==
  /\ site = [base |-> 0, body |-> [e \in Endpoints |-> 0]]
  /\ published = 0 /\ clock = 0
  /\ Archive!Init
  /\ leftover = [d \in Dates |-> {}]
  /\ call = [p \in Archivers |-> Done]
  /\ stored = {} /\ crashes = 0 /\ overlapped = "never"

ArchiveNext ==
  \/ \E p \in Archivers : Start(p) \/ ArchiveStep(p) \/ FetchFails(p) \/ ArchiverCrash(p)
  \/ \E base \in Dates, changed \in SUBSET Endpoints : Publish(base, changed)
  \/ Tick

ArchiveSpec == ArchiveInit /\ [][ArchiveNext]_archiveVars

-----------------------------------------------------------------------------
(* Properties *)

Files == UNION {[D -> Versions] : D \in SUBSET Endpoints}

\* Types, and what a run has established on the way to its rename: the date
\* directory exists before a revision is considered, and it differs.
ArchiveTypeOK ==
  /\ site.base \in 0 .. published /\ site.body \in [Endpoints -> 0 .. published]
  /\ published \in Versions /\ clock \in Seconds /\ crashes \in 0 .. MaxCrashes
  /\ overlapped \in {"never", "once"}
  /\ original \in [Dates -> Bodies \union {NoBody}]
  /\ revisions \in [Dates -> SUBSET [name : Seconds, body : Bodies]]
  /\ leftover \in [Dates -> SUBSET Files]
  /\ call \in [Archivers ->
       [pc : {"done", "fetch", "locate", "install", "evaluate", "stage", "rename"},
        base : Dates, body : Files, name : Seconds, staged : Files]]
  /\ \A p \in Archivers :
       /\ call[p].pc \in {"done", "fetch"} \/ call[p].body \in Bodies
       /\ call[p].pc \in {"evaluate", "stage", "rename"} => original[call[p].base] # NoBody
       /\ call[p].pc \in {"stage", "rename"} => original[call[p].base] # call[p].body

\* Whatever overlaps or crashes, the disk is an append-only archive: originals
\* and revisions are never replaced or removed, and no name is used twice.
AppendOnly == Archive!Spec

Kept(d) == {original[d]} \union {r.body : r \in revisions[d]}


\* While no two runs have overlapped, no content is kept twice under one date
\* (archive_leaderboard: `stored once`).
StoredOnce ==
  overlapped = "never" => \A d \in Dates : \A r, s \in revisions[d] : r.body = s.body => r = s

=============================================================================
