----------------------------- MODULE QuotaLedger -----------------------------
(***************************************************************************)
(* The daily quota of KRX calls: a file with a date and a count, and the    *)
(* copy a process keeps of it from its construction on.  The file is shared *)
(* by successive processes and renamed into place, so it is never torn by a *)
(* process that stops.                                                      *)
(*                                                                          *)
(* The code only ever compares a date with today's, hence a date here is    *)
(* "today" or "past"; NewDay in module Backfill turns the one into the      *)
(* other, also under a process that is running.                             *)
(***************************************************************************)
EXTENDS Integers

CONSTANT Quota   \* settings.daily_call_quota

ASSUME QuotaAssumption == Quota \in Nat

VARIABLES
  file,  \* data/state/krx_quota.json
  mem    \* _stored_date and _consumed of the running process

Dates  == {"none", "past", "today"}
Counts == [date : Dates, used : Nat]

Nothing     == [date |-> "none", used |-> 0]
Aged(count) == IF count.date = "today" THEN [count EXCEPT !.date = "past"] ELSE count

\* A file of another date, or none, counts as nothing.
Loaded == IF file.date = "today" THEN file ELSE Nothing

\* What remaining() compares with the quota: a copy of another date is put
\* aside for the file.
Current == IF mem.date = "today" THEN mem ELSE Loaded

Remaining == IF Current.used < Quota THEN Quota - Current.used ELSE 0

\* remaining() takes the file over when the copy has no date yet.
Looked == IF mem.date = "none" THEN Loaded ELSE mem

\* The count consume(1) adds to: a copy of another date starts from zero
\* without a look at the file.
UsedBefore == IF mem.date = "past" THEN 0 ELSE Current.used

\* Variants named Bad... are faulty versions of the definition after them.
BadCharged == [date |-> IF mem.date = "past" THEN "past" ELSE "today", used |-> UsedBefore + 1]

Charged == [date |-> "today", used |-> UsedBefore + 1]
=============================================================================
