------------------------- MODULE PointInTimeUniverse -------------------------
(***************************************************************************)
(* Who may be traded on a day: InstrumentMaster.build over the whole panel  *)
(* and PointInTimeUniverse.get over the rows up to the day, as the live     *)
(* decision sees them on the day itself and as a backtest sees them years   *)
(* later, on a panel bounded to the sessions it replays.                    *)
(*                                                                          *)
(* The panel is the silver table; a name stands for what resolve_leverage   *)
(* and resolve_issuer read in it.                                           *)
(***************************************************************************)
EXTENDS SilverTable, FiniteSetsExt, Functions

CONSTANTS
  WarmupSessions,  \* UniverseFilters.warmup_sessions
  AdvWindow,       \* adv_window
  Capital,
  MinAdv,          \* min_adv_krw
  Sponsors,        \* the issuers of sponsor_brands.yaml
  Anyone,          \* no list: None in place of a whitelist or a manifest
  Filters          \* the UniverseFilters in use

ASSUME UniverseAssumption == AdvWindow \in Nat

VARIABLE seen  \* what each decided day's universe was, and the panel behind it

universeVars == <<bronze, silver, result, seen>>

\* The names that occur: of a plain, a doubled and an inverse fund of a sponsor,
\* one with contradictory words, and one of a brand nobody mapped.
ResolveLeverage(name) ==
  CASE name \in {"doubled", "contradictory"} -> 2
    [] name = "inverse" -> -1
    [] OTHER -> 1
ConfidenceOf(name)    == IF name = "contradictory" THEN "LOW" ELSE "HIGH"
ResolveIssuer(name)   == IF name = "unmapped" THEN "UNKNOWN" ELSE "sponsor"

\* UniverseFilters.for_mode: the configuration lists issuers, asks for the
\* sponsors or says nothing; a list of HTS funds comes from a file of its own.
Whitelist(mode, listed) ==
  CASE mode = "structural"                    -> Anyone
    [] mode = "deployment" /\ listed = Anyone -> IF Sponsors = {} THEN Anyone ELSE Sponsors
    [] OTHER                                  -> listed

ForMode(mode, listed, manifest, order) ==
  [mode |-> mode, whitelist |-> Whitelist(mode, listed), manifest |-> manifest,
   staged |-> FALSE, weight |-> 100, order |-> order, leverage |-> TRUE, inverse |-> TRUE]

\* build_champion_research_filters: orders are staged, so the floor decides.
ResearchFilters(f) ==
  [f EXCEPT !.staged = TRUE, !.weight = 80, !.order = 1, !.leverage = TRUE, !.inverse = TRUE]

\* UniverseFilters.required_adv, weights and shares of the ADV in percent.
RequiredAdv(f) == IF f.staged THEN MinAdv ELSE (Capital * f.weight) \div f.order

Least(S)    == CHOOSE x \in S : \A y \in S : x <= y
Greatest(S) == CHOOSE x \in S : \A y \in S : y <= x
\* The n latest members of a set of sessions.
Latest(S, n) == {x \in S : Cardinality({y \in S : x < y}) < n}

Listed(panel, d)   == IF d \in panel.dates THEN DOMAIN panel.rows[d] ELSE {}
RowsOf(panel, t)   == {d \in panel.dates : t \in Listed(panel, d)}
KnownTickers(panel) == {t \in Funds : RowsOf(panel, t) # {}}
Restrict2(panel, S) ==
  [dates |-> panel.dates \cap S, rows |-> [d \in panel.dates \cap S |-> panel.rows[d]],
   tradable |-> {key \in panel.tradable : key[1] \in S}]
UpTo(panel, d) == Restrict2(panel, 1 .. d)

------------------------------------------------------------------------------
\* InstrumentMaster.build: the name is that of the latest row, the panel's
\* first session censors the funds that have a row on it.
Attributes(panel, t) ==
  LET days == RowsOf(panel, t)
      name == panel.rows[Greatest(days)][t].name
  IN  [firstSeen |-> Least(days), name |-> name, leverage |-> ResolveLeverage(name),
       confidence |-> ConfidenceOf(name), issuer |-> ResolveIssuer(name),
       leftCensored |-> Least(days) = Least(panel.dates)]

MasterOf(panel) == [t \in KnownTickers(panel) |-> Attributes(panel, t)]

\* Mutant: the attributes of the latest name, on every day.
AttrLatest(base, row) == base

\* The attributes that hold under the name the fund had on the day.
AttrAtRow(base, row) ==
  IF row.name = base.name THEN base
  ELSE [base EXCEPT !.name = row.name, !.leverage = ResolveLeverage(row.name),
                    !.confidence = ConfidenceOf(row.name), !.issuer = ResolveIssuer(row.name)]

\* The sessions that count for the average value: those the fund was tradable.
Qualifying(panel, t) == {d \in panel.dates : <<d, t>> \in panel.tradable}

\* The average over the last AdvWindow of them is at least the required one.
Liquid(panel, t, d, required) ==
  LET days == Latest({x \in Qualifying(panel, t) : x <= d}, AdvWindow)
  IN  days # {} /\ SumFunction([x \in days |-> panel.rows[x][t].value]) >= required * Cardinality(days)

Aged(attr, d) == attr.leftCensored \/ d - attr.firstSeen + 1 >= WarmupSessions

\* The sponsor stage: the structural universe has none.
Sponsored(attr, t, f) ==
  f.mode = "deployment" =>
    /\ f.manifest = Anyone \/ t \in f.manifest
    /\ f.whitelist = Anyone \/ (attr.issuer # "UNKNOWN" /\ attr.issuer \in f.whitelist)

Eligible(attr, f) ==
  /\ f.leverage \/ attr.leverage # 2
  /\ f.inverse \/ attr.leverage >= 0
  /\ attr.confidence = "LOW" => attr.leverage = 1

\* PointInTimeUniverse.get
Snapshot(panel, master, d, f) ==
  {t \in Listed(panel, d) :
     LET attr == AttrAtRow(master[t], panel.rows[d][t])
     IN  /\ <<d, t>> \in panel.tradable
         /\ Aged(master[t], d)
         /\ Sponsored(attr, t, f)
         /\ Liquid(panel, t, d, RequiredAdv(f))
         /\ Eligible(attr, f)}

\* Mutant: the look-back counts sessions, tradable or not.
BoundedBySessions(panel, start, end) ==
  LET back == Latest({d \in panel.dates : d <= start}, AdvWindow)
      cut  == Restrict2(panel, Least(back) .. end)
  IN  IF back = {} THEN panel ELSE cut

\* bound_backtest_panel: back to where each fund alive in the range has its
\* last AdvWindow qualifying sessions, and no further than the range's end.
Bounded(panel, start, end) ==
  LET live == {t \in KnownTickers(panel) :
                 Greatest(RowsOf(panel, t)) >= start /\ Least(RowsOf(panel, t)) <= end}
      back == UNION {Latest({d \in Qualifying(panel, t) : d <= start}, AdvWindow) : t \in live}
      from == IF back = {} THEN start ELSE Least(back)
      cut  == Restrict2(panel, from .. end)
  IN  IF live = {} \/ cut.dates = {} THEN panel ELSE cut

\* prepare_run: the master keeps the full history, the universe the bounded one.
BacktestSnapshots(panel, start, end) ==
  LET cut    == Bounded(panel, start, end)
      master == MasterOf(panel)
  IN  [d \in panel.dates \cap (start .. end) |-> [f \in Filters |-> Snapshot(cut, master, d, f)]]

------------------------------------------------------------------------------
UniverseInit == SilverInit /\ seen = Empty

\* The live decision of the table's latest session, under each of the filters.
Decide ==
  /\ silver # NoTable /\ silver.dates # {}
  /\ LET d == Greatest(silver.dates)
     IN  /\ d \notin DOMAIN seen
         /\ seen' = [x \in DOMAIN seen \cup {d} |->
                       IF x = d
                       THEN [panel   |-> silver,
                             tickers |-> [f \in Filters |-> Snapshot(silver, MasterOf(silver), d, f)]]
                       ELSE seen[x]]
  /\ UNCHANGED <<bronze, silver, result>>

UniverseNext == (SilverNext /\ UNCHANGED seen) \/ Decide
UniverseSpec == UniverseInit /\ [][UniverseNext]_universeVars

UniverseTypeOK ==
  /\ DOMAIN bronze \subseteq Dates /\ \A d \in DOMAIN bronze : bronze[d] \in Files(d)
  /\ silver.dates \subseteq DOMAIN bronze
  /\ silver # NoTable => silver.tradable \subseteq Keys(silver.rows)
  /\ \A d \in DOMAIN seen : \A f \in Filters : seen[d].tickers[f] \subseteq Funds
  /\ result \in {"none", "unchanged", "fatal", "written"}

\* A universe computed again years later is the one the day's decision saw, as
\* long as the panel up to the day is the same: what happened afterwards - a
\* new name, a listing, a delisting - does not reach back.  InstrumentMaster
\* takes a fund's attributes from its latest row, so this rests on the name of
\* the row of the day.
LaterRowsInvisible ==
  \A d \in DOMAIN seen :
    (d \in silver.dates /\ UpTo(silver, d) = seen[d].panel)
      => \A f \in Filters : Snapshot(silver, MasterOf(silver), d, f) = seen[d].tickers[f]

\* A backtest of any range sees, on each of its days, the universe of the full
\* panel, although it drops the rows before its look-back
\* (INV-MASTER-FULL-HISTORY and INV-PANEL-QUALIFYING-PARITY).
BoundedAgrees ==
  silver # NoTable =>
    LET full == [d \in silver.dates |-> [f \in Filters |-> Snapshot(silver, MasterOf(silver), d, f)]]
    IN  \A start, end \in silver.dates :
          LET replayed == BacktestSnapshots(silver, start, end)
          IN  \A d \in DOMAIN replayed : replayed[d] = full[d]
==============================================================================
