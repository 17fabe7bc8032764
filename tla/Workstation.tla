----------------------------- MODULE Workstation -----------------------------
(***************************************************************************)
(* The browser workstation: the store with its saved copy, the chart and   *)
(* the panels that load data for the selected symbol, and the requests in  *)
(* flight between them.                                                    *)
(*                                                                         *)
(* Source: frontend/src/main.js, state/store.js, chart/chartManager.js,    *)
(* api/fixtureClient.js and the panels.  JavaScript runs one handler at a  *)
(* time: a click changes the store, saves it and notifies every listener   *)
(* before anything else happens, so it is one action; an await ends an     *)
(* action, and its answer is another one.  Answers come in any order and   *)
(* each may be data, an empty answer or an error.                          *)
(***************************************************************************)
EXTENDS Naturals, FiniteSets

CONSTANTS
  Symbols, Timeframes, Counts, Indicators, Texts, Tabs,
  DefaultSymbol, DefaultTimeframe, DefaultCount, DefaultTab, DefaultNote,
  DefaultWatchlist, DefaultLocale,
  Fixtures,        \* the symbols the fixture client has data of
  Fallback,        \* the one whose data it answers with for any other
  Panels,          \* the panels that load for the selected symbol
  NullWhenEmpty,   \* those whose empty answer is null, not an object
  MaxActions,      \* bound: user actions
  None,
  Corrupt          \* a saved copy that does not parse

ASSUME Defaults ==
  /\ DefaultSymbol \in Symbols /\ DefaultTimeframe \in Timeframes
  /\ DefaultCount \in Counts /\ DefaultTab \in Tabs /\ DefaultNote \in Texts
  /\ DefaultWatchlist \subseteq Symbols
  /\ Fallback \in Fixtures /\ Fixtures \subseteq Symbols /\ DefaultLocale \in {"vi", "en"}
  /\ NullWhenEmpty \subseteq Panels /\ "chart" \notin Panels
  /\ None \notin Symbols

\* What the store can hold, and what its saved copy can.
Settings == [symbol : Symbols, timeframe : Timeframes, count : Counts,
             watchlist : SUBSET Symbols, notes : [Symbols -> Texts],
             indicators : SUBSET Indicators, tab : Tabs]
SavedCopy == [symbol : Symbols, timeframe : Timeframes, count : Counts,
              watchlist : SUBSET Symbols, notes : [Symbols -> Texts],
              indicators : SUBSET Indicators]

ASSUME NoCopy == None \notin SavedCopy /\ Corrupt \notin SavedCopy /\ Corrupt # None

VARIABLES
  state,     \* AppStore.state
  saved,     \* what localStorage holds, None before the first save
  locale,    \* I18nManager.locale
  asked,     \* Application.current*: the selection the chart last asked for
  chart,     \* what the chart shows
  last,      \* last[p]: the symbol panel p last asked for
  loading,   \* loading[p]: the panel's flag
  data,      \* data[p]: the answer the panel keeps
  shown,     \* shown[p]: what the panel's container shows
  pending,   \* the requests in flight
  clock,     \* the number of user actions, which numbers the requests
  newest,    \* history: the number of the newest request of each view
  fresh,     \* history: the answer the view applied last is data for that request
  kept       \* history: the store at the last save that succeeded and is still there

vars == <<state, saved, locale, asked, chart, last, loading, data, shown, pending, clock,
          newest, fresh, kept>>

Views == Panels \cup {"chart"}

Selection(s) == [symbol |-> s.symbol, timeframe |-> s.timeframe, count |-> s.count]

-----------------------------------------------------------------------------
(* The store *)

DefaultState ==
  [symbol |-> DefaultSymbol, timeframe |-> DefaultTimeframe, count |-> DefaultCount,
   tab |-> DefaultTab, watchlist |-> DefaultWatchlist,
   notes |-> [s \in Symbols |-> DefaultNote], indicators |-> Indicators]

\* Mutant: the indicator settings are left out of the saved copy.
PersistedButIndicators(s) ==
  [symbol |-> s.symbol, timeframe |-> s.timeframe, count |-> s.count,
   watchlist |-> s.watchlist, notes |-> s.notes, indicators |-> Indicators]

\* _saveToStorage: the tab is not saved.
Persisted(s) ==
  [symbol |-> s.symbol, timeframe |-> s.timeframe, count |-> s.count,
   watchlist |-> s.watchlist, notes |-> s.notes, indicators |-> s.indicators]

\* _loadFromStorage: what was saved over the defaults, which stay when there is
\* no copy or none that parses.
Loaded(copy) ==
  IF copy \in {None, Corrupt} THEN DefaultState
  ELSE [symbol |-> copy.symbol, timeframe |-> copy.timeframe, count |-> copy.count,
        tab |-> DefaultTab, watchlist |-> copy.watchlist, notes |-> copy.notes,
        indicators |-> copy.indicators]

\* _saveToStorage: setItem may throw, which is caught; the old copy stays.
Save(s) ==
  \/ saved' = Persisted(s) /\ kept' = s
  \/ UNCHANGED <<saved, kept>>

-----------------------------------------------------------------------------
(* Requests *)

\* The data the fixture client answers with when it is asked for sym: its own
\* if there is a fixture of it, the fallback's for every other symbol.
DataOf(sym) == IF sym \in Fixtures THEN sym ELSE Fallback

\* getBars: those data, in the timeframe and the number of bars asked for.
BarsFor(selection) == [selection EXCEPT !.symbol = DataOf(selection.symbol)]

\* A request carries the selection, and the chart's the indicators, of the
\* moment it was made.
Request(view, s, number) ==
  [view |-> view, number |-> number, selection |-> Selection(s), indicators |-> s.indicators]

\* Mutant: a change of the timeframe alone does not load.
ChartOutdatedBySymbol(s) == asked.symbol # s.symbol \/ asked.count # s.count

\* syncChartData
ChartOutdated(s) == asked # Selection(s)

\* The panels that reload for s: lastSymbol differs.
Reloading(s) == {p \in Panels : last[p] # s.symbol}

\* Every listener of the store, in the state s: the chart and the panels that
\* are outdated ask again, and a panel that asks shows that it is loading.
Notify(s) ==
  LET views == Reloading(s) \cup (IF ChartOutdated(s) THEN {"chart"} ELSE {})
  IN  /\ pending' = pending \cup {Request(v, s, clock') : v \in views}
      /\ newest' = [v \in Views |-> IF v \in views THEN clock' ELSE newest[v]]
      /\ asked' = Selection(s)
      /\ chart' = [chart EXCEPT !.legend = s.symbol]
      /\ last' = [p \in Panels |-> s.symbol]
      /\ loading' = [p \in Panels |-> p \in views \/ loading[p]]
      /\ shown' = [p \in Panels |-> IF p \in views THEN "loading" ELSE shown[p]]
      /\ fresh' = [v \in Views |-> fresh[v] /\ v \notin views]
      /\ UNCHANGED data

SetState(s) ==
  /\ clock < MaxActions
  /\ clock' = clock + 1
  /\ state' = s
  /\ Save(s)
  /\ Notify(s)
  /\ UNCHANGED locale

-----------------------------------------------------------------------------
(* What the user does *)

\* The rows a click selects a symbol with: the toolbar's list and the screener
\* show those of the fixtures, the watchlist what the user typed.
Rows == Fixtures \cup state.watchlist

SetSymbol ==
  \E sym \in Rows \ {state.symbol} : SetState([state EXCEPT !.symbol = sym])

SetTimeframe == \E tf \in Timeframes : SetState([state EXCEPT !.timeframe = tf])

SetBarCount == \E n \in Counts : SetState([state EXCEPT !.count = n])

ToggleIndicator ==
  \E name \in Indicators :
    SetState([state EXCEPT !.indicators =
                IF name \in @ THEN @ \ {name} ELSE @ \cup {name}])

AddToWatchlist ==
  \E sym \in Symbols \ state.watchlist : SetState([state EXCEPT !.watchlist = @ \cup {sym}])

RemoveFromWatchlist ==
  \E sym \in state.watchlist : SetState([state EXCEPT !.watchlist = @ \ {sym}])

SaveNote == \E text \in Texts : SetState([state EXCEPT !.notes[state.symbol] = text])

SelectTab == \E tab \in Tabs : SetState([state EXCEPT !.tab = tab])

\* The button that saves without a change.
SaveLayout ==
  /\ clock < MaxActions
  /\ clock' = clock + 1
  /\ Save(state)
  /\ UNCHANGED <<state, locale, asked, chart, last, loading, data, shown, pending,
                 newest, fresh>>

\* The retry button of an error, or the evaluate button of the strategies panel.
Retry(p) ==
  /\ clock < MaxActions /\ shown[p] # "loading"
  /\ clock' = clock + 1
  /\ loading' = [loading EXCEPT ![p] = TRUE]
  /\ shown' = [shown EXCEPT ![p] = "loading"]
  /\ pending' = pending \cup {Request(p, state, clock')}
  /\ newest' = [newest EXCEPT ![p] = clock']
  /\ fresh' = [fresh EXCEPT ![p] = FALSE]
  /\ UNCHANGED <<state, saved, locale, asked, chart, last, data, kept>>

\* render() of a panel: nothing while it loads or has no answer.
Rendered(p, flag, answer) == IF flag \/ answer = None THEN shown[p] ELSE answer

\* The language button: the locale changes in memory and every panel renders
\* again.
ToggleLocale ==
  /\ clock < MaxActions
  /\ clock' = clock + 1
  /\ locale' = IF locale = "vi" THEN "en" ELSE "vi"
  /\ shown' = [p \in Panels |-> Rendered(p, loading[p], data[p])]
  /\ UNCHANGED <<state, saved, asked, chart, last, loading, data, pending, newest, fresh,
                 kept>>

\* What the page is made of after the scripts ran for the state s: every view
\* has asked for its data.
Started(s, number) ==
  [asked |-> Selection(s),
   chart |-> [bars |-> None, quote |-> None, legend |-> s.symbol, overlays |-> {},
              levels |-> None],
   pending |-> {Request(v, s, number) : v \in Views}]

\* The page is reloaded; answers to the old page are lost, and its copy may have
\* been damaged since it was saved.
Reload ==
  /\ clock < MaxActions
  /\ clock' = clock + 1
  /\ \/ UNCHANGED <<saved, kept>>
     \/ saved' = Corrupt /\ kept' = DefaultState
  /\ locale' = DefaultLocale
  /\ LET s == Loaded(saved')
     IN  /\ state' = s
         /\ asked' = Started(s, clock').asked
         /\ chart' = Started(s, clock').chart
         /\ pending' = Started(s, clock').pending
         /\ last' = [p \in Panels |-> s.symbol]
  /\ loading' = [p \in Panels |-> TRUE]
  /\ data' = [p \in Panels |-> None]
  /\ shown' = [p \in Panels |-> "loading"]
  /\ newest' = [v \in Views |-> clock']
  /\ fresh' = [v \in Views |-> FALSE]

-----------------------------------------------------------------------------
(* Answers *)

Arrived(r, outcome) ==
  /\ pending' = pending \ {r}
  /\ fresh' = [fresh EXCEPT ![r.view] = r.number = newest[r.view] /\ outcome = "data"]
  /\ UNCHANGED <<state, saved, locale, asked, last, clock, newest, kept>>

\* _applySupportResistance replaces the price levels; where it is not called,
\* with its switch off or no bars, the old ones stay.
Levels(r) == IF "srLevels" \in r.indicators THEN BarsFor(r.selection) ELSE chart.levels

\* setBars with the answer's bars and the switches of the request.
Drawn(r) ==
  [bars |-> BarsFor(r.selection), quote |-> BarsFor(r.selection), legend |-> r.selection.symbol,
   overlays |-> r.indicators \ {"srLevels"}, levels |-> Levels(r)]

\* After the await of getBars, setBars and updateChartLegend: an empty answer
\* clears the bars but neither the last quote nor the price levels.
ChartAnswer(r) ==
  /\ r.view = "chart"
  /\ \/ chart' = Drawn(r) /\ Arrived(r, "data")
     \/ /\ chart' = [chart EXCEPT !.bars = None, !.legend = r.selection.symbol, !.overlays = {}]
        /\ Arrived(r, "empty")
     \/ /\ Arrived(r, "error")
        /\ UNCHANGED chart
  /\ UNCHANGED <<loading, data, shown>>

\* Mutant: the panel renders before it resets its flag.
PanelKeepsFirst(p, answer) ==
  /\ data' = [data EXCEPT ![p] = answer]
  /\ shown' = [shown EXCEPT ![p] = Rendered(p, loading[p], answer)]
  /\ loading' = [loading EXCEPT ![p] = FALSE]

\* The panel keeps an answer, resets its flag and renders.
PanelKeeps(p, answer) ==
  /\ data' = [data EXCEPT ![p] = answer]
  /\ loading' = [loading EXCEPT ![p] = FALSE]
  /\ shown' = [shown EXCEPT ![p] = Rendered(p, FALSE, answer)]

\* loadData after its await.  An empty answer that is an object names the symbol
\* asked for.
PanelAnswer(r) ==
  /\ r.view \in Panels
  /\ \/ PanelKeeps(r.view, DataOf(r.selection.symbol)) /\ Arrived(r, "data")
     \/ /\ PanelKeeps(r.view, IF r.view \in NullWhenEmpty THEN None ELSE r.selection.symbol)
        /\ Arrived(r, "empty")
     \/ /\ loading' = [loading EXCEPT ![r.view] = FALSE]
        /\ shown' = [shown EXCEPT ![r.view] = "error"]
        /\ Arrived(r, "error")
        /\ UNCHANGED data
  /\ UNCHANGED chart

Answer(view, number) ==
  \E r \in pending : r.view = view /\ r.number = number /\ (ChartAnswer(r) \/ PanelAnswer(r))

-----------------------------------------------------------------------------
Init ==
  /\ state = DefaultState /\ saved = None /\ kept = DefaultState /\ clock = 0
  /\ locale = DefaultLocale
  /\ asked = Started(DefaultState, 0).asked
  /\ chart = Started(DefaultState, 0).chart
  /\ pending = Started(DefaultState, 0).pending
  /\ last = [p \in Panels |-> DefaultSymbol]
  /\ loading = [p \in Panels |-> TRUE]
  /\ data = [p \in Panels |-> None]
  /\ shown = [p \in Panels |-> "loading"]
  /\ newest = [v \in Views |-> 0]
  /\ fresh = [v \in Views |-> FALSE]

UserActs ==
  \/ SetSymbol \/ SetTimeframe \/ SetBarCount \/ ToggleIndicator
  \/ AddToWatchlist \/ RemoveFromWatchlist \/ SaveNote \/ SelectTab \/ SaveLayout
  \/ \E p \in Panels : Retry(p)
  \/ ToggleLocale \/ Reload

Next == UserActs \/ \E v \in Views, n \in 0..MaxActions : Answer(v, n)

Spec == Init /\ [][Next]_vars

\* Every request of the fixture client ends: its timer fires and its fetch is
\* answered or refused.
FairSpec == Spec /\ \A v \in Views, n \in 0..MaxActions : WF_vars(Answer(v, n))

-----------------------------------------------------------------------------
(* Properties *)

\* Whatever was clicked in the meantime, a view whose last answer is data for
\* its newest request shows what the client has for the current selection:
\* nothing that changes the selection leaves a view without a request for it.
ShowsSelection ==
  /\ fresh["chart"] =>
       /\ chart.bars = BarsFor(Selection(state)) /\ chart.quote = BarsFor(Selection(state))
       /\ chart.legend = state.symbol
  /\ \A p \in Panels : fresh[p] => shown[p] = DataOf(state.symbol)

\* The legend names the selected symbol once the chart waits for no answer:
\* onStateChange sets it at once, and the last answer sets it again, whichever
\* request it belongs to.
LegendNamesSelection ==
  (\A r \in pending : r.view # "chart") => chart.legend = state.symbol

\* The bars under a legend that is up to date are of the symbol it names: the
\* chart is empty for a symbol there are no data of.
BarsAreOfLegend ==
  fresh["chart"] => chart.bars.symbol = chart.legend

\* A panel that shows that it is loading goes on to show data or an error,
\* unless its answer was an empty null, for which render() draws nothing.
SpinnersEnd ==
  \A p \in Panels :
    shown[p] = "loading" ~> (shown[p] # "loading" \/ (p \in NullWhenEmpty /\ data[p] = None /\ ~loading[p]))

\* A reload of the page restores the store of the last save that succeeded, but
\* for the tab, and the defaults when there was none or its copy was damaged.
SurvivesReload == [][Reload => state' = [kept' EXCEPT !.tab = DefaultTab]]_vars

\* What the user had set is what he finds after a reload when all of it was
\* saved and the copy is whole: the selection, the lists, the notes and the
\* language.
SettingsSurvive ==
  [][Reload /\ kept = state /\ saved' # Corrupt =>
       state' = [state EXCEPT !.tab = DefaultTab] /\ locale' = locale]_vars
=============================================================================
