----------------------------- MODULE SilverTable -----------------------------
(***************************************************************************)
(* The silver table of daily quotes and how it is built from the bronze     *)
(* files of the sessions: incrementally, or in full, with files that come   *)
(* late, files that cannot be read this time, days the exchange was closed  *)
(* and rows a validation gate refuses.                                      *)
(*                                                                          *)
(* A bronze file is a function from the tickers it lists to their rows.  A  *)
(* row keeps what the build looks at: the fund's name, whether it has a     *)
(* close, its premium over the NAV in percent, its trading value, whether   *)
(* its prices are ordered, whether capital is shares times close, and       *)
(* whether the file lists it twice.                                         *)
(***************************************************************************)
EXTENDS Integers, FiniteSets

CONSTANTS
  Funds,
  LastDate,      \* sessions are numbered 1 .. LastDate
  Files(_),      \* what the exchange may publish for a session
  MaxUnread      \* bound: bronze files one build fails to read

VARIABLES
  bronze,  \* the file of each session fetched so far
  silver,  \* etf_daily.parquet: the rows of its sessions, the tradable ones
  result   \* what the last build returned

Dates   == 1 .. LastDate

ASSUME SilverAssumption ==
  /\ LastDate \in Nat
  /\ \A d \in Dates : \A day \in Files(d) : DOMAIN day \subseteq Funds

NoTable == [dates |-> {}]
Table(rows, tradable) == [dates |-> DOMAIN rows, rows |-> rows, tradable |-> tradable]
Empty   == [d \in {} |-> <<>>]

Abs(n) == IF n < 0 THEN -n ELSE n
Keys(rows) == {key \in (DOMAIN rows) \X Funds : key[2] \in DOMAIN rows[key[1]]}
RowAt(rows, key) == rows[key[1]][key[2]]
Priced(rows) == {key \in Keys(rows) : RowAt(rows, key).priced}

------------------------------------------------------------------------------
\* The k-th smallest value of a function, and twice the median of its values.
Smallest(value, k) ==
  CHOOSE v \in {value[x] : x \in DOMAIN value} :
    /\ Cardinality({x \in DOMAIN value : value[x] < v}) < k
    /\ Cardinality({x \in DOMAIN value : value[x] <= v}) >= k

TwiceMedian(value) ==
  LET n == Cardinality(DOMAIN value)
  IN  Smallest(value, (n \div 2) + 1) + Smallest(value, ((n - 1) \div 2) + 1)

\* The rows whose premium is further from the median of the whole table than
\* 3 * 1.4826 times the median distance; none when that distance is zero.
Outliers(rows) ==
  LET keys     == Priced(rows)
      premium  == [key \in keys |-> RowAt(rows, key).premium]
      middle   == TwiceMedian(premium)
      distance == [key \in keys |-> Abs(2 * premium[key] - middle)]
      spread   == TwiceMedian(distance)
  IN  {key \in keys : spread > 0 /\ 20000 * distance[key] > 44478 * spread}

MaxPremium == 20

MarkTradability(rows) ==
  {key \in Priced(rows) \ Outliers(rows) :
     /\ RowAt(rows, key).value # 0
     /\ Abs(RowAt(rows, key).premium) <= MaxPremium
     /\ RowAt(rows, key).ordered}

\* A file whose rows mostly lack a close is of a day without trading.
ClassifySession(day) ==
  /\ DOMAIN day # {}
  /\ 2 * Cardinality({t \in DOMAIN day : day[t].priced}) >= Cardinality(DOMAIN day)

\* Gate V3: no key twice.  Gate V4 refuses a table in which more than one row
\* in a thousand is not whole.
DuplicateKeys(rows) == {key \in Keys(rows) : RowAt(rows, key).twice}
CapitalOff(rows) ==
  LET broken == {key \in Priced(rows) : ~RowAt(rows, key).whole}
  IN  1000 * Cardinality(broken) > Cardinality(Priced(rows))
IsFatal(rows) == DuplicateKeys(rows) # {} \/ CapitalOff(rows)

------------------------------------------------------------------------------
SilverInit ==
  /\ bronze = Empty
  /\ silver = NoTable
  /\ result = "none"

\* A backfill brings the file of a session, in any order of the sessions.
Publish(d, day) ==
  /\ d \notin DOMAIN bronze
  /\ bronze' = [x \in DOMAIN bronze \cup {d} |-> IF x = d THEN day ELSE bronze[x]]
  /\ UNCHANGED <<silver, result>>

\* The table an incremental build starts from; a full one starts from nothing.
Existing(mode) == IF mode = "incremental" /\ silver # NoTable THEN silver.rows ELSE Empty

\* SilverBuilder.build: sessions the table lacks are read, decoded and added,
\* and tradability is decided again for every row of the combined table.
Combined(mode, unread) ==
  LET old   == Existing(mode)
      fresh == {d \in DOMAIN bronze \ DOMAIN old : d \notin unread /\ ClassifySession(bronze[d])}
  IN  [d \in DOMAIN old \cup fresh |-> IF d \in fresh THEN bronze[d] ELSE old[d]]

\* Mutant: the rows the table has keep the tradability they were given.
BuiltKeepingFlags(mode, unread) ==
  LET rows == Combined(mode, unread)
      kept == IF Existing(mode) = Empty THEN {} ELSE silver.tradable
  IN  Table(rows, kept \cup {key \in MarkTradability(rows) : key[1] \notin DOMAIN Existing(mode)})

Built(mode, unread) ==
  LET rows == Combined(mode, unread) IN Table(rows, MarkTradability(rows))

Build(mode, unread) ==
  LET rows == Combined(mode, unread)
      same == mode = "incremental" /\ silver # NoTable /\ DOMAIN rows = silver.dates
  IN  /\ \/ same /\ result' = "unchanged" /\ UNCHANGED silver
         \/ ~same /\ IsFatal(rows) /\ result' = "fatal" /\ UNCHANGED silver
         \/ ~same /\ ~IsFatal(rows) /\ result' = "written" /\ silver' = Built(mode, unread)
      /\ UNCHANGED bronze

FewOf(S) == {u \in SUBSET S : Cardinality(u) <= MaxUnread}

SilverNext ==
  \/ \E d \in Dates : \E day \in Files(d) : Publish(d, day)
  \/ \E mode \in {"full", "incremental"}, unread \in FewOf(DOMAIN bronze) : Build(mode, unread)

------------------------------------------------------------------------------
\* However it came about - one session at a time, with sessions that arrived
\* late or were skipped, or in full - the table is what a full build over its
\* sessions writes: their bronze rows, and the tradability the whole table
\* gives them (the "robust outlier needs full distribution" of the build).
IncrementalIsFull ==
  silver # NoTable =>
    LET rows == [d \in silver.dates |-> bronze[d]]
    IN  silver = Table(rows, MarkTradability(rows)) /\ ~IsFatal(rows)
==============================================================================
