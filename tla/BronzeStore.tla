----------------------------- MODULE BronzeStore -----------------------------
(***************************************************************************)
(* The raw answers of KRX, one file a session: <date>.json.gz, which is     *)
(* written once, and the <date>.json of older versions of the program, that *)
(* `storage-migrate` compresses.  Backfilled files are renamed into place;  *)
(* the migration writes its file under the final name and then reads it     *)
(* back.  The content of a file is the number of the publication it holds.  *)
(***************************************************************************)
EXTENDS Integers, FiniteSets

CONSTANTS
  Sessions,    \* the sessions of the calendar
  MaxVersion   \* bound: publications of a session

Versions == 1 .. MaxVersion
Absent   == 0
Torn     == -1      \* a compressed file that breaks off

ASSUME StoreAssumption == Sessions \subseteq Nat \ {0} /\ IsFiniteSet(Sessions) /\ MaxVersion \in Nat

VARIABLES
  gz,      \* <date>.json.gz
  plain,   \* <date>.json
  left,    \* plain files the migration has still to look at
  cursor,  \* the session whose compressed file it has begun, or 0
  complete \* the compressed file has been written to its end

store     == <<gz, plain>>
migration == <<left, cursor, complete>>

HasSession(s) == gz[s] # Absent \/ plain[s] # Absent

\* write() of a record: an existing compressed file is kept.
Written(s, v) == [gz EXCEPT ![s] = IF @ = Absent THEN v ELSE @]

-----------------------------------------------------------------------------
(* migrate_plain_to_gzip *)

\* The plain files of one endpoint, without those that cannot be read or have no
\* place to be compressed to.
Enumerate == left' \in SUBSET {s \in Sessions : plain[s] # Absent} /\ UNCHANGED <<store, cursor, complete>>

\* Both files parse and have the same rows.
Same(s) == gz[s] = plain[s]

\* A plain file whose compressed file exists is removed when they agree; it may
\* stay (--no-delete, or an unlink that fails).
SkipExisting(s) ==
  /\ s \in left /\ cursor = 0 /\ gz[s] # Absent
  /\ left' = left \ {s}
  /\ plain' \in {plain} \union (IF Same(s) THEN {[plain EXCEPT ![s] = Absent]} ELSE {})
  /\ UNCHANGED <<gz, cursor, complete>>

\* The compressed file is opened under its final name...
BeginFile(s) ==
  /\ s \in left /\ cursor = 0 /\ gz[s] = Absent
  /\ left' = left \ {s}
  /\ gz' = [gz EXCEPT ![s] = Torn]
  /\ cursor' = s /\ complete' = FALSE
  /\ UNCHANGED plain

\* ... written to its end, and read back.
FinishFile(s) ==
  /\ cursor = s /\ ~complete
  /\ gz' = [gz EXCEPT ![s] = plain[s]]
  /\ complete' = TRUE
  /\ UNCHANGED <<plain, left, cursor>>

\* A write that fails leaves what it wrote.
WriteBreaks(s) ==
  /\ cursor = s /\ ~complete
  /\ cursor' = 0
  /\ UNCHANGED <<store, left, complete>>

\* A file that does not read back is removed, if it can be.
ReadBackFails(s) ==
  /\ cursor = s /\ complete
  /\ gz' \in {gz, [gz EXCEPT ![s] = Absent]}
  /\ cursor' = 0
  /\ UNCHANGED <<plain, left, complete>>

\* Variants named Bad... are faulty versions of the definition after them.
BadDropPlain(s) ==
  /\ cursor = s
  /\ plain' = [plain EXCEPT ![s] = Absent]
  /\ cursor' = 0
  /\ UNCHANGED <<gz, left, complete>>

DropPlain(s) ==
  /\ cursor = s /\ complete
  /\ plain' \in {plain, [plain EXCEPT ![s] = Absent]}
  /\ cursor' = 0
  /\ UNCHANGED <<gz, left, complete>>
=============================================================================
