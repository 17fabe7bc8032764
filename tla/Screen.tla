------------------------------- MODULE Screen -------------------------------
(***************************************************************************)
(* One screener run: the universe filters, the strategy's evaluation of    *)
(* every symbol that passes them, the ranking and the exported account,    *)
(* over a market that goes on trading after the run.                       *)
(*                                                                         *)
(* Source: backend/app/quant/screener/runner.py, universe.py, export.py    *)
(* and the score of strategies/types.py.  The strategy is DualSma, always  *)
(* asked from a flat position.  A symbol is a number, so that the run's    *)
(* alphabetical orders are the order of the numbers.  The histories are    *)
(* the symbols' rows; nothing interleaves with run_screen, which works on  *)
(* the objects it is given, so a run is one action.  A symbol may be given *)
(* more than once, always with its own history.  A close of 0 stands for a *)
(* missing one; a finite price that is not positive, which the strategy    *)
(* treats alike, is not among the rows.                                    *)
(***************************************************************************)
EXTENDS DualSma, FiniteSets

CONSTANTS
  Symbols,         \* the symbols that can be candidates, a set of numbers
  DayMenu,         \* DayMenu[d][s]: what can happen to s on market day d
  MaxDay,          \* bound: the last market day of the instance
  CandidateLists,  \* the candidate sequences a caller passes
  FlaggedSets,     \* the sets of symbols with unresolved critical issue codes
  WithinDays,      \* last_positive_volume_within_days
  ValueLookback,   \* TRADING_VALUE_LOOKBACK
  MinMedianValue,  \* min_20d_median_trading_value
  MinHistoryDays,  \* min_history_days
  NoRun

\* A row of a symbol's history and what a market day brings to the symbol.
DailyRow == [day : Nat, open : Nat, close : Nat, volume : Int, valid : BOOLEAN,
             critical : BOOLEAN]
MarketDay == [bar : {TRUE}, status : ListingStatus, row : DailyRow]
               \cup [bar : {FALSE}, status : ListingStatus]

ASSUME ScreenParameters ==
  /\ Symbols \subseteq Nat
  /\ MaxDay \in Nat
  /\ DayMenu \in [1..MaxDay -> [Symbols -> SUBSET MarketDay]]
  /\ CandidateLists \subseteq Seq(Symbols)
  /\ WithinDays \in Nat
  /\ ValueLookback \in Nat \ {0}
  /\ MinMedianValue \in Nat
  /\ MinHistoryDays \in Nat

VARIABLES
  today,    \* the last completed market day
  rows,     \* rows[s]: the history of s, one row for each day it has a bar
  listing,  \* listing[s][d]: what the security master resolves for s on day d
  run       \* the screen: its inputs, results and exclusions

vars == <<today, rows, listing, run>>

-----------------------------------------------------------------------------
(* Histories and the market calendar *)

Days(r) == {r[i].day : i \in DOMAIN r}

\* TradingCalendar.from_histories
Calendar(histories, symbols) == UNION {Days(histories[s]) : s \in symbols}

\* TradingCalendar.sessions_between
SessionsBetween(calendar, start, end) ==
  Cardinality({d \in calendar : start < d /\ d <= end})

\* Mutant: the sessions after the run date count as well.
SessionsSince(calendar, start, end) == Cardinality({d \in calendar : start < d})

\* Mutant: a symbol without a bar on the date is read at its newest bar.
AsOfIndexNewest(r, date) ==
  LET exact == {i \in DOMAIN r : r[i].day = date}
  IN  IF exact # {} THEN Max(exact) ELSE Len(r)

\* index_of, or the last bar on or before the date; 0 when there is none
AsOfIndex(r, date) == Max({0} \cup {i \in DOMAIN r : r[i].day <= date})

-----------------------------------------------------------------------------
(* universe.assess: one named criterion for each filter *)

Median2(values) ==
  LET n == Len(values)
      Rank(i) == Cardinality({j \in 1..n : \/ values[j] < values[i]
                                           \/ values[j] = values[i] /\ j <= i})
      At(k) == values[CHOOSE i \in 1..n : Rank(i) = k]
  IN  IF n % 2 = 1 THEN 2 * At((n + 1) \div 2)
      ELSE At(n \div 2) + At(n \div 2 + 1)

\* The median of close times volume over the last ValueLookback rows of w, none
\* of which may lack its close.
ValuePass(w) ==
  /\ Len(w) >= ValueLookback
  /\ \A i \in 1..ValueLookback : w[Len(w) - ValueLookback + i].close # 0
  /\ Median2([i \in 1..ValueLookback |->
                LET r == w[Len(w) - ValueLookback + i] IN r.close * r.volume])
       >= 2 * MinMedianValue

\* Mutant: the limit itself passes.
RecentInclusive(w, calendar, date) ==
  LET last == LastPositiveVolume(w)
  IN  last # 0 /\ SessionsBetween(calendar, w[last].day, date) <= WithinDays

RecentPass(w, calendar, date) ==
  LET last == LastPositiveVolume(w)
  IN  last # 0 /\ SessionsBetween(calendar, w[last].day, date) < WithinDays

\* A filter that is switched off adds no criterion, which excludes nothing.
Criteria(w, status, flagged, options, calendar, date) ==
  [active_equity                |-> options.activeOnly => status = "active",
   last_positive_volume_recent  |-> RecentPass(w, calendar, date),
   min_20d_median_trading_value |-> ValuePass(w),
   min_history_days             |-> Len(w) >= MinHistoryDays,
   no_unresolved_critical_issue |->
     options.excludeCritical => ~flagged /\ \A i \in DOMAIN w : ~w[i].critical]

Included(criteria) == \A name \in DOMAIN criteria : criteria[name]

-----------------------------------------------------------------------------
(* The score: the number of the strategy's criteria that passed *)

\* Mutant: only the entry gates are counted.
PassedGates(w, status) ==
  IF ~WarmupPass(w) THEN {}
  ELSE {"warmup_pass"}
       \cup (IF DataQualityPass(w) THEN {"data_quality_pass"} ELSE {})
       \cup (IF UniversePass(w, status) THEN {"universe_pass"} ELSE {})
       \cup (IF SignalBarVolumePass(w) THEN {"signal_bar_volume_pass"} ELSE {})
       \cup (IF LiquidityPass(w) THEN {"liquidity_pass"} ELSE {})

PassedCriteria(w, status) ==
  PassedGates(w, status)
    \cup (IF WarmupPass(w) /\ Bullish(w) THEN {"bullish_crossover"} ELSE {})

Score(w, status) == Cardinality(PassedCriteria(w, status))

\* PositionState.FLAT: what to do about the symbol today.
Signal(w, status) == Evaluate(w, status, FALSE, FALSE)

-----------------------------------------------------------------------------
(* run_screen *)

\* What the run knows of candidate number entry, symbol s: the assessment and, for
\* a symbol the filters accept, the evaluation from a flat position at that index.
Assessment(r, s, entry, status, flagged, options, calendar, date) ==
  LET index == AsOfIndex(r, date)
      w == SubSeq(r, 1, index)
      criteria == Criteria(w, status, flagged, options, calendar, date)
  IN  IF index = 0
      THEN [symbol |-> s, entry |-> entry, included |-> FALSE,
            failed |-> {"has_bar_on_or_before_run_date"}]
      ELSE IF ~Included(criteria)
      THEN [symbol |-> s, entry |-> entry, included |-> FALSE,
            failed |-> {name \in DOMAIN criteria : ~criteria[name]}]
      ELSE [symbol |-> s, entry |-> entry, included |-> TRUE, index |-> index,
            score |-> Score(w, status),
            signal |-> Signal(w, status)]

\* The sequence of the elements of S in the order of Before.
SortedBy(S, Before(_, _)) ==
  CHOOSE q \in [1..Cardinality(S) -> S] :
    \A i, j \in 1..Cardinality(S) : i < j => Before(q[i], q[j])

\* The candidates are sorted by symbol first, and every sort is stable: those of
\* one symbol keep the order in which the caller gave them.
BySymbol(a, b) == a.symbol < b.symbol \/ (a.symbol = b.symbol /\ a.entry < b.entry)

\* scored.sort(key=lambda item: (-item[0], item[2]))
RanksBefore(a, b) == a.score > b.score \/ (a.score = b.score /\ BySymbol(a, b))

\* Mutant: a symbol without a bar is in neither list.
ResultsWithBars(assessments) ==
  [results  |-> SortedBy({a \in assessments : a.included}, RanksBefore),
   excluded |-> SortedBy({a \in assessments : ~a.included
                            /\ "has_bar_on_or_before_run_date" \notin a.failed}, BySymbol)]

Results(assessments) ==
  [results  |-> SortedBy({a \in assessments : a.included}, RanksBefore),
   excluded |-> SortedBy({a \in assessments : ~a.included}, BySymbol)]

\* What else a caller chooses: the filters active_equity_only and
\* exclude_unresolved_critical_issues, and whether the calendar argument is left
\* out, which makes it the candidates' own days.
Options == [activeOnly : BOOLEAN, excludeCritical : BOOLEAN, ownCalendar : BOOLEAN]

\* The run over the histories.  The classification of a candidate is the
\* caller's, resolved for the run date.
RunScreen(histories, candidates, flagged, options, date) ==
  LET calendar ==
        Calendar(histories, IF options.ownCalendar
                            THEN {candidates[k] : k \in DOMAIN candidates} ELSE Symbols)
      Assessed(k) ==
        LET s == candidates[k]
        IN  Assessment(histories[s], s, k, listing[s][date], s \in flagged, options,
                       calendar, date)
  IN  Results({Assessed(k) : k \in DOMAIN candidates})

\* export.rows: every ranked row, then every exclusion by symbol.
Exported(output) == output.results \o output.excluded

-----------------------------------------------------------------------------
Init ==
  /\ today = 0
  /\ rows = [s \in Symbols |-> <<>>]
  /\ listing = [s \in Symbols |-> <<>>]
  /\ run = NoRun

\* A market day: every symbol trades, has a bar without volume or has none.
TradeDay ==
  /\ today < MaxDay
  /\ today' = today + 1
  /\ \E day \in [Symbols -> UNION {DayMenu[today + 1][s] : s \in Symbols}] :
       /\ \A s \in Symbols : day[s] \in DayMenu[today + 1][s]
       /\ rows' = [s \in Symbols |->
            IF day[s].bar THEN Append(rows[s], [day[s].row EXCEPT !.day = today + 1])
            ELSE rows[s]]
       /\ listing' = [s \in Symbols |-> Append(listing[s], day[s].status)]
  /\ UNCHANGED run

\* A screen of a completed day, today's or an earlier one.  A run reads nothing
\* of an earlier run, so one run for each behaviour is enough; the market goes
\* on after it.
Screen ==
  /\ run = NoRun
  /\ \E candidates \in CandidateLists, flagged \in FlaggedSets,
        options \in Options, date \in 1..today :
       run' = [candidates |-> candidates, flagged |-> flagged, options |-> options,
               date |-> date,
               output |-> RunScreen(rows, candidates, flagged, options, date)]
  /\ UNCHANGED <<today, rows, listing>>

Next == TradeDay \/ Screen

Spec == Init /\ [][Next]_vars

-----------------------------------------------------------------------------
(* Properties *)

\* A run is a function of what was known on its date: repeating it after the
\* market went on, with later bars, later sessions and later listing states,
\* gives the same scores, signals, ranks and exclusions.
Reproducible ==
  run # NoRun =>
    run.output = RunScreen(rows, run.candidates, run.flagged, run.options, run.date)

\* The market's sessions up to the date, and the newest n of them.
SessionsUpTo(date) == {d \in Calendar(rows, Symbols) : d <= date}
NewestSessions(date, n) ==
  {d \in SessionsUpTo(date) : Cardinality({e \in SessionsUpTo(date) : e > d}) < n}

\* When the calendar is the market's, a symbol is only ranked when it really
\* traded in one of the newest WithinDays sessions of the market, however
\* recent its last bar is: a symbol that is listed but no longer trades is out.
RankedHasTraded ==
  run # NoRun /\ ~run.options.ownCalendar =>
    \A k \in DOMAIN run.output.results :
      LET s == run.output.results[k].symbol
      IN  \E i \in DOMAIN rows[s] :
            /\ rows[s][i].volume > 0
            /\ rows[s][i].day \in NewestSessions(run.date, WithinDays)

\* The ranking by number of passed criteria puts every symbol the strategy
\* would buy before every symbol it would not.
EntriesLead ==
  run # NoRun =>
    \A i, j \in DOMAIN run.output.results :
      i < j /\ run.output.results[j].signal = "entry" => run.output.results[i].signal = "entry"

\* The exported account has as many rows for a symbol as the caller gave candidates
\* of it, ranked or excluded: none is lost and none is added, also when a symbol is
\* given twice.  An excluded row has the criteria it failed; a ranked one a score, a
\* row of its symbol that is not after the run date and a signal other than an
\* exit, which a screen never proposes.
CompleteAccount ==
  run # NoRun =>
    LET account == Exported(run.output)
    IN  /\ Len(account) = Len(run.candidates)
        /\ \A s \in Symbols :
             Cardinality({i \in DOMAIN account : account[i].symbol = s})
               = Cardinality({k \in DOMAIN run.candidates : run.candidates[k] = s})
        /\ \A i \in DOMAIN account :
             \/ ~account[i].included /\ account[i].failed # {}
             \/ /\ account[i].included
                /\ account[i].score \in 0..6
                /\ account[i].signal \in {"entry", "entry_blocked", "unavailable", "none"}
                /\ rows[account[i].symbol][account[i].index].day <= run.date
=============================================================================
