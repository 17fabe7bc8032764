-------------------------- MODULE Workstation_proofs --------------------------
(* What the workstation shows and keeps, for every number of user actions,  *)
(* symbols, panels and orders of the answers.                               *)
EXTENDS Workstation, TLAPS

-----------------------------------------------------------------------------
(* The inductive invariant *)

\* The numbers of the requests run with the clock.
Numbered == clock \in Nat /\ newest \in [Views -> Nat] /\ \A v \in Views : newest[v] <= clock

\* The records and functions the handlers assign to by field or by index.
Shapes ==
  /\ DOMAIN chart = {"bars", "quote", "legend", "overlays", "levels"}
  /\ chart = [bars |-> chart.bars, quote |-> chart.quote, legend |-> chart.legend,
              overlays |-> chart.overlays, levels |-> chart.levels]
  /\ fresh \in [Views -> BOOLEAN] /\ loading \in [Panels -> BOOLEAN]
  /\ DOMAIN shown = Panels /\ DOMAIN data = Panels /\ DOMAIN last = Panels

\* After every handler, what the views asked for last is the selection.
Asked == asked = Selection(state) /\ \A p \in Panels : last[p] = state.symbol

\* A request that no later one of its view replaced is for the selection.
PendingInv ==
  \A r \in pending :
    /\ r.view \in Views /\ r.number \in Nat /\ r.number <= clock
    /\ r.number = newest[r.view] =>
         IF r.view = "chart" THEN r.selection = Selection(state)
         ELSE r.selection.symbol = state.symbol

\* What a view that is up to date shows.
ShownInv ==
  /\ fresh["chart"] =>
       /\ chart.bars = BarsFor(Selection(state)) /\ chart.quote = BarsFor(Selection(state))
       /\ chart.legend = state.symbol
  /\ \A p \in Panels : fresh[p] => /\ ~loading[p] /\ data[p] = DataOf(state.symbol)
                                   /\ shown[p] = DataOf(state.symbol)

\* The store holds settings, and the copy is of those last saved, the defaults
\* when there is none.
StoreInv ==
  /\ state \in Settings /\ kept \in Settings
  /\ saved = Persisted(kept) \/ (saved \in {None, Corrupt} /\ kept = DefaultState)

SelectionInv == Numbered /\ Shapes /\ Asked /\ PendingInv /\ ShownInv

-----------------------------------------------------------------------------
(* Steps *)

\* A request the chart or a panel makes.
LEMMA RequestFields ==
  ASSUME NEW v, NEW s, NEW n
  PROVE /\ Request(v, s, n).view = v /\ Request(v, s, n).number = n
        /\ Request(v, s, n).selection = Selection(s)
        /\ Request(v, s, n).selection.symbol = s.symbol
  BY DEF Request, Selection

LEMMA InitShows == Init => SelectionInv
<1> SUFFICES ASSUME Init PROVE SelectionInv
  OBVIOUS
<1>1. Numbered
  BY DEF Init, Numbered
<1>2. Shapes
  BY DEF Init, Shapes, Started
<1>3. Asked
  BY DEF Init, Asked, Started, DefaultState
<1>4. PendingInv
  BY RequestFields DEF Init, PendingInv, Started, DefaultState
<1>5. ShownInv
  BY DEF Init, ShownInv, Views
<1> QED
  BY <1>1, <1>2, <1>3, <1>4, <1>5 DEF SelectionInv

\* Whatever the store is set to, the views it concerns ask for it, and the
\* requests they had in flight are no longer their newest.
LEMMA SetStateShows ==
  ASSUME SelectionInv, NEW s, SetState(s)
  PROVE SelectionInv'
<1> USE DEF SelectionInv
<1> DEFINE views == Reloading(s) \cup (IF ChartOutdated(s) THEN {"chart"} ELSE {})
<1>0. /\ clock' = clock + 1 /\ state' = s
      /\ pending' = pending \cup {Request(v, s, clock') : v \in views}
      /\ newest' = [v \in Views |-> IF v \in views THEN clock' ELSE newest[v]]
      /\ fresh' = [v \in Views |-> fresh[v] /\ v \notin views]
      /\ asked' = Selection(s) /\ last' = [p \in Panels |-> s.symbol]
      /\ chart' = [chart EXCEPT !.legend = s.symbol]
      /\ loading' = [p \in Panels |-> p \in views \/ loading[p]]
      /\ shown' = [p \in Panels |-> IF p \in views THEN "loading" ELSE shown[p]]
      /\ data' = data
  BY DEF SetState, Notify
<1>1. views \subseteq Views /\ \A p \in Panels : p \in views <=> p \in Reloading(s)
  BY Defaults DEF Reloading, Views
<1>2. "chart" \notin views => Selection(s) = Selection(state) /\ s.symbol = state.symbol
  <2>1. "chart" \notin views => Selection(s) = Selection(state)
    BY DEF ChartOutdated, Asked
  <2> QED
    BY <2>1 DEF Selection
<1>3. \A p \in Panels : p \notin views => s.symbol = state.symbol
  BY <1>1 DEF Reloading, Asked
<1>n. clock \in Nat /\ clock + 1 \in Nat /\ clock < clock + 1
  BY DEF Numbered
<1> HIDE DEF views
<1>5. Numbered'
  <2>1. ASSUME NEW v \in Views PROVE newest'[v] \in Nat /\ newest'[v] <= clock'
    <3>1. CASE v \in views
      BY <3>1, <1>0, <1>n
    <3>2. CASE v \notin views
      <4>1. newest'[v] = newest[v]
        BY <3>2, <1>0
      <4>2. newest[v] \in Nat /\ newest[v] <= clock
        BY DEF Numbered
      <4> QED
        BY <4>1, <4>2, <1>0, <1>n
    <3> QED
      BY <3>1, <3>2
  <2>2. newest' = [v \in Views |-> newest'[v]]
    BY <1>0
  <2> QED
    BY <2>1, <2>2, <1>0, <1>n DEF Numbered
<1>6. Shapes'
  <2>1. chart' = [bars |-> chart.bars, quote |-> chart.quote, legend |-> s.symbol,
                  overlays |-> chart.overlays, levels |-> chart.levels]
    BY <1>0 DEF Shapes
  <2> QED
    BY <2>1, <1>0, <1>1 DEF Shapes
<1>7. Asked'
  BY <1>0 DEF Asked
<1>8. PendingInv'
  <2> SUFFICES ASSUME NEW r \in pending'
               PROVE /\ r.view \in Views /\ r.number \in Nat /\ r.number <= clock'
                     /\ r.number = newest'[r.view] =>
                          IF r.view = "chart" THEN r.selection = Selection(s)
                          ELSE r.selection.symbol = s.symbol
    BY <1>0 DEF PendingInv
  <2>1. CASE r \in pending
    <3>1. r.view \in Views /\ r.number \in Nat /\ r.number <= clock
      BY <2>1 DEF PendingInv
    <3>2. r.number <= clock' /\ r.number # clock'
      BY <3>1, <1>0, <1>n
    <3>3. ASSUME r.number = newest'[r.view]
          PROVE IF r.view = "chart" THEN r.selection = Selection(s)
                ELSE r.selection.symbol = s.symbol
      <4>1. r.view \notin views /\ newest'[r.view] = newest[r.view]
        BY <3>1, <3>2, <3>3, <1>0
      <4>2. IF r.view = "chart" THEN r.selection = Selection(state)
            ELSE r.selection.symbol = state.symbol
        BY <2>1, <3>3, <4>1 DEF PendingInv
      <4>3. r.view # "chart" => r.view \in Panels
        BY <3>1 DEF Views
      <4> QED
        BY <4>1, <4>2, <4>3, <1>2, <1>3
    <3> QED
      BY <3>1, <3>2, <3>3
  <2>2. CASE r \notin pending
    <3>1. PICK v \in views : r = Request(v, s, clock')
      BY <2>2, <1>0
    <3> QED
      BY <3>1, <1>0, <1>1, <1>n, RequestFields
  <2> QED
    BY <2>1, <2>2
<1>9. ShownInv'
  <2>1. fresh'["chart"] => /\ chart'.bars = BarsFor(Selection(s))
                           /\ chart'.quote = BarsFor(Selection(s))
                           /\ chart'.legend = s.symbol
    <3>1. fresh'["chart"] => fresh["chart"] /\ "chart" \notin views
      BY <1>0 DEF Views
    <3>2. /\ chart'.bars = chart.bars /\ chart'.quote = chart.quote
          /\ chart'.legend = s.symbol
      BY <1>0 DEF Shapes
    <3> QED
      BY <3>1, <3>2, <1>2 DEF ShownInv
  <2>2. ASSUME NEW p \in Panels, fresh'[p]
        PROVE ~loading'[p] /\ data'[p] = DataOf(s.symbol) /\ shown'[p] = DataOf(s.symbol)
    <3>1. fresh[p] /\ p \notin views
      BY <2>2, <1>0 DEF Views
    <3> QED
      BY <3>1, <1>0, <1>3 DEF ShownInv
  <2> QED
    BY <2>1, <2>2, <1>0 DEF ShownInv
<1> QED
  BY <1>5, <1>6, <1>7, <1>8, <1>9

LEMMA RetryShows ==
  ASSUME SelectionInv, NEW p \in Panels, Retry(p)
  PROVE SelectionInv'
<1> USE DEF SelectionInv
<1>0. /\ clock' = clock + 1 /\ state' = state /\ asked' = asked /\ last' = last
      /\ loading' = [loading EXCEPT ![p] = TRUE]
      /\ shown' = [shown EXCEPT ![p] = "loading"]
      /\ pending' = pending \cup {Request(p, state, clock')}
      /\ newest' = [newest EXCEPT ![p] = clock']
      /\ fresh' = [fresh EXCEPT ![p] = FALSE]
      /\ chart' = chart /\ data' = data
  BY DEF Retry
<1>1. p \in Views /\ p # "chart"
  BY Defaults DEF Views
<1>n. clock \in Nat /\ clock + 1 \in Nat /\ clock < clock + 1
  BY DEF Numbered
<1>5. Numbered'
  BY <1>0, <1>1, <1>n DEF Numbered
<1>6. Shapes'
  BY <1>0, <1>1 DEF Shapes
<1>7. Asked'
  BY <1>0 DEF Asked
<1>8. PendingInv'
  <2> SUFFICES ASSUME NEW r \in pending'
               PROVE /\ r.view \in Views /\ r.number \in Nat /\ r.number <= clock'
                     /\ r.number = newest'[r.view] =>
                          IF r.view = "chart" THEN r.selection = Selection(state)
                          ELSE r.selection.symbol = state.symbol
    BY <1>0 DEF PendingInv
  <2>1. CASE r \in pending
    <3>1. r.view \in Views /\ r.number \in Nat /\ r.number <= clock
      BY <2>1 DEF PendingInv
    <3>2. r.number <= clock' /\ r.number # clock'
      BY <3>1, <1>0, <1>n
    <3>3. r.number = newest'[r.view] => r.view # p /\ newest'[r.view] = newest[r.view]
      BY <3>1, <3>2, <1>0, <1>1 DEF Numbered
    <3> QED
      BY <2>1, <3>1, <3>2, <3>3 DEF PendingInv
  <2>2. CASE r \notin pending
    BY <2>2, <1>0, <1>1, <1>n, RequestFields
  <2> QED
    BY <2>1, <2>2
<1>9. ShownInv'
  BY <1>0, <1>1 DEF ShownInv, Shapes, Views
<1> QED
  BY <1>5, <1>6, <1>7, <1>8, <1>9

\* A user action that asks for nothing leaves the requests as they are.
LEMMA LaterClock ==
  ASSUME SelectionInv, clock' = clock + 1, UNCHANGED <<state, pending, newest>>
  PROVE Numbered' /\ PendingInv'
<1>1. clock \in Nat /\ \A n \in Nat : n <= clock => n <= clock'
  BY DEF SelectionInv, Numbered
<1>2. Numbered'
  BY <1>1 DEF SelectionInv, Numbered
<1>3. PendingInv'
  BY <1>1 DEF SelectionInv, PendingInv
<1> QED
  BY <1>2, <1>3

LEMMA ToggleLocaleShows ==
  ASSUME SelectionInv, ToggleLocale
  PROVE SelectionInv'
<1> USE DEF SelectionInv
<1>0. /\ UNCHANGED <<state, asked, chart, last, loading, data, pending, newest, fresh>>
      /\ clock' = clock + 1
      /\ shown' = [p \in Panels |-> Rendered(p, loading[p], data[p])]
  BY DEF ToggleLocale
<1>3. Numbered' /\ PendingInv'
  BY <1>0, LaterClock
<1>1. Shapes' /\ Asked'
  BY <1>0 DEF Shapes, Asked
<1>2. ShownInv'
  BY <1>0 DEF ShownInv, Rendered
<1> QED
  BY <1>1, <1>2, <1>3

LEMMA SaveLayoutShows ==
  ASSUME SelectionInv, SaveLayout
  PROVE SelectionInv'
<1> USE DEF SelectionInv
<1>0. /\ UNCHANGED <<state, asked, chart, last, loading, data, shown, pending, newest, fresh>>
      /\ clock' = clock + 1
  BY DEF SaveLayout
<1>1. Numbered' /\ PendingInv'
  BY <1>0, LaterClock
<1>2. Shapes' /\ Asked' /\ ShownInv'
  BY <1>0 DEF Shapes, Asked, ShownInv
<1> QED
  BY <1>1, <1>2

LEMMA ReloadShows ==
  ASSUME SelectionInv, Reload
  PROVE SelectionInv'
<1> USE DEF SelectionInv
<1> DEFINE s == Loaded(saved')
<1>0. /\ clock' = clock + 1 /\ state' = s /\ asked' = Selection(s)
      /\ chart' = [bars |-> None, quote |-> None, legend |-> s.symbol, overlays |-> {},
                   levels |-> None]
      /\ pending' = {Request(v, s, clock') : v \in Views}
      /\ last' = [p \in Panels |-> s.symbol]
      /\ loading' = [p \in Panels |-> TRUE] /\ data' = [p \in Panels |-> None]
      /\ shown' = [p \in Panels |-> "loading"]
      /\ newest' = [v \in Views |-> clock'] /\ fresh' = [v \in Views |-> FALSE]
  BY DEF Reload, Started
<1>n. clock \in Nat /\ clock + 1 \in Nat
  BY DEF Numbered
<1> HIDE DEF s
<1>5. Numbered'
  BY <1>0, <1>n DEF Numbered
<1>6. Shapes'
  BY <1>0 DEF Shapes
<1>7. Asked'
  BY <1>0 DEF Asked
<1>8. PendingInv'
  BY <1>0, <1>n, RequestFields DEF PendingInv
<1>9. ShownInv'
  BY <1>0 DEF ShownInv, Views
<1> QED
  BY <1>5, <1>6, <1>7, <1>8, <1>9

\* The bookkeeping of an answer, whatever it is.
LEMMA ArrivedKeeps ==
  ASSUME SelectionInv, NEW r \in pending, NEW outcome, Arrived(r, outcome)
  PROVE /\ Numbered' /\ Asked' /\ PendingInv'
        /\ state' = state /\ last' = last
        /\ fresh' \in [Views -> BOOLEAN]
        /\ \A v \in Views \ {r.view} : fresh'[v] = fresh[v]
        /\ fresh'[r.view] = (r.number = newest[r.view] /\ outcome = "data")
<1> USE DEF SelectionInv
<1>0. /\ pending' = pending \ {r}
      /\ fresh' = [fresh EXCEPT ![r.view] = (r.number = newest[r.view] /\ outcome = "data")]
      /\ UNCHANGED <<state, asked, last, clock, newest>>
  BY DEF Arrived
<1>1. r.view \in Views
  BY DEF PendingInv
<1>2. Numbered' /\ Asked' /\ PendingInv'
  BY <1>0 DEF Numbered, Asked, PendingInv
<1> QED
  BY <1>0, <1>1, <1>2 DEF Shapes

LEMMA ChartAnswerShows ==
  ASSUME SelectionInv, NEW r \in pending, ChartAnswer(r)
  PROVE SelectionInv'
<1> USE DEF SelectionInv
<1>0. r.view = "chart" /\ UNCHANGED <<loading, data, shown>>
  BY DEF ChartAnswer
<1>p. \A p \in Panels : p \in Views \ {r.view}
  BY <1>0, Defaults DEF Views
<1>1. CASE chart' = Drawn(r) /\ Arrived(r, "data")
  <2>1. /\ Numbered' /\ Asked' /\ PendingInv' /\ state' = state /\ last' = last
        /\ fresh' \in [Views -> BOOLEAN]
        /\ \A v \in Views \ {r.view} : fresh'[v] = fresh[v]
        /\ fresh'[r.view] = (r.number = newest[r.view] /\ "data" = "data")
    BY <1>1, ArrivedKeeps
  <2>2. Shapes'
    BY <2>1, <1>0, <1>1 DEF Shapes, Drawn
  <2>3. fresh'["chart"] => r.selection = Selection(state) /\ r.selection.symbol = state.symbol
    BY <2>1, <1>0 DEF PendingInv, Selection
  <2>4. /\ chart'.bars = BarsFor(r.selection) /\ chart'.quote = BarsFor(r.selection)
        /\ chart'.legend = r.selection.symbol
    BY <1>1 DEF Drawn
  <2>5. ShownInv'
    BY <2>1, <2>3, <2>4, <1>0, <1>p DEF ShownInv
  <2> QED
    BY <2>1, <2>2, <2>5
<1>2. CASE /\ chart' = [chart EXCEPT !.bars = None, !.legend = r.selection.symbol, !.overlays = {}]
           /\ Arrived(r, "empty")
  <2>1. /\ Numbered' /\ Asked' /\ PendingInv' /\ state' = state /\ last' = last
        /\ fresh' \in [Views -> BOOLEAN]
        /\ \A v \in Views \ {r.view} : fresh'[v] = fresh[v]
        /\ fresh'[r.view] = (r.number = newest[r.view] /\ "empty" = "data")
    BY <1>2, ArrivedKeeps
  <2>2. chart' = [bars |-> None, quote |-> chart.quote, legend |-> r.selection.symbol,
                  overlays |-> {}, levels |-> chart.levels]
    BY <1>2 DEF Shapes
  <2>3. Shapes'
    BY <2>1, <2>2, <1>0 DEF Shapes
  <2>5. ShownInv'
    BY <2>1, <1>0, <1>p DEF ShownInv
  <2> QED
    BY <2>1, <2>3, <2>5
<1>3. CASE Arrived(r, "error") /\ UNCHANGED chart
  <2>1. /\ Numbered' /\ Asked' /\ PendingInv' /\ state' = state /\ last' = last
        /\ fresh' \in [Views -> BOOLEAN]
        /\ \A v \in Views \ {r.view} : fresh'[v] = fresh[v]
        /\ fresh'[r.view] = (r.number = newest[r.view] /\ "error" = "data")
    BY <1>3, ArrivedKeeps
  <2>3. Shapes'
    BY <2>1, <1>0, <1>3 DEF Shapes
  <2>5. ShownInv'
    BY <2>1, <1>0, <1>p DEF ShownInv
  <2> QED
    BY <2>1, <2>3, <2>5
<1> QED
  BY <1>1, <1>2, <1>3 DEF ChartAnswer

LEMMA PanelAnswerShows ==
  ASSUME SelectionInv, StoreInv, NEW r \in pending, PanelAnswer(r)
  PROVE SelectionInv'
<1> USE DEF SelectionInv
<1>0. r.view \in Panels /\ r.view \in Views /\ r.view # "chart" /\ UNCHANGED chart
  BY Defaults DEF PanelAnswer, Views
<1>k. ASSUME NEW answer, PanelKeeps(r.view, answer)
      PROVE /\ loading' = [loading EXCEPT ![r.view] = FALSE]
            /\ data' = [data EXCEPT ![r.view] = answer]
            /\ \A p \in Panels \ {r.view} : shown'[p] = shown[p]
            /\ answer # None => shown'[r.view] = answer
            /\ DOMAIN shown' = Panels
  BY <1>k, <1>0 DEF PanelKeeps, Rendered, Shapes
<1>1. CASE PanelKeeps(r.view, DataOf(r.selection.symbol)) /\ Arrived(r, "data")
  <2>1. /\ Numbered' /\ Asked' /\ PendingInv' /\ state' = state /\ last' = last
        /\ fresh' \in [Views -> BOOLEAN]
        /\ \A v \in Views \ {r.view} : fresh'[v] = fresh[v]
        /\ fresh'[r.view] = (r.number = newest[r.view] /\ "data" = "data")
    BY <1>1, ArrivedKeeps
  <2>2. Shapes'
    BY <2>1, <1>0, <1>1, <1>k DEF Shapes
  <2>3. fresh'[r.view] => r.selection.symbol = state.symbol
    BY <2>1, <1>0 DEF PendingInv
  <2>4. ShownInv'
    <3>1. DataOf(state.symbol) # None
      BY Defaults DEF StoreInv, Settings, DataOf
    <3> QED
      BY <2>1, <2>3, <1>0, <1>1, <1>k, <3>1 DEF ShownInv, Views, Shapes
  <2> QED
    BY <2>1, <2>2, <2>4
<1>2. CASE /\ PanelKeeps(r.view, IF r.view \in NullWhenEmpty THEN None ELSE r.selection.symbol)
           /\ Arrived(r, "empty")
  <2>1. /\ Numbered' /\ Asked' /\ PendingInv' /\ state' = state /\ last' = last
        /\ fresh' \in [Views -> BOOLEAN]
        /\ \A v \in Views \ {r.view} : fresh'[v] = fresh[v]
        /\ fresh'[r.view] = (r.number = newest[r.view] /\ "empty" = "data")
    BY <1>2, ArrivedKeeps
  <2> DEFINE answer == IF r.view \in NullWhenEmpty THEN None ELSE r.selection.symbol
  <2>2. PanelKeeps(r.view, answer)
    BY <1>2
  <2> HIDE DEF answer
  <2>3. Shapes'
    BY <2>1, <2>2, <1>0, <1>k DEF Shapes
  <2>4. ShownInv'
    BY <2>1, <2>2, <1>0, <1>k DEF ShownInv, Views, Shapes
  <2> QED
    BY <2>1, <2>3, <2>4
<1>3. CASE /\ loading' = [loading EXCEPT ![r.view] = FALSE]
           /\ shown' = [shown EXCEPT ![r.view] = "error"]
           /\ Arrived(r, "error") /\ UNCHANGED data
  <2>1. /\ Numbered' /\ Asked' /\ PendingInv' /\ state' = state /\ last' = last
        /\ fresh' \in [Views -> BOOLEAN]
        /\ \A v \in Views \ {r.view} : fresh'[v] = fresh[v]
        /\ fresh'[r.view] = (r.number = newest[r.view] /\ "error" = "data")
    BY <1>3, ArrivedKeeps
  <2>2. Shapes'
    BY <2>1, <1>0, <1>3 DEF Shapes
  <2>3. ShownInv'
    BY <2>1, <1>0, <1>3 DEF ShownInv, Views, Shapes
  <2> QED
    BY <2>1, <2>2, <2>3
<1> QED
  BY <1>1, <1>2, <1>3 DEF PanelAnswer

-----------------------------------------------------------------------------
(* The store and its copy *)

LEMMA CopyParses ==
  ASSUME NEW s \in Settings PROVE Persisted(s) \notin {None, Corrupt}
<1>1. Persisted(s) \in SavedCopy
  BY DEF Settings, SavedCopy, Persisted
<1> QED
  BY <1>1, NoCopy

\* A reload brings back all but the tab of what was saved, or the defaults.
LEMMA ReloadLoads ==
  ASSUME StoreInv, Reload
  PROVE StoreInv' /\ state' = [kept' EXCEPT !.tab = DefaultTab]
<1>1. DefaultState \in Settings
  BY Defaults DEF DefaultState, Settings
<1>2. kept' \in Settings /\ (saved' = Persisted(kept') \/ (saved' \in {None, Corrupt} /\ kept' = DefaultState))
  BY <1>1 DEF Reload, StoreInv
<1>3. Loaded(saved') = [kept' EXCEPT !.tab = DefaultTab]
  <2>1. CASE saved' = Persisted(kept')
    <3>1. saved' \notin {None, Corrupt}
      BY <2>1, <1>2, CopyParses
    <3> QED
      BY <2>1, <3>1, <1>2 DEF Loaded, Persisted, Settings
  <2>2. CASE saved' \in {None, Corrupt} /\ kept' = DefaultState
    BY <2>2 DEF Loaded, DefaultState
  <2> QED
    BY <1>2, <2>1, <2>2
<1>4. state' = Loaded(saved')
  BY DEF Reload
<1>5. state' \in Settings
  BY <1>2, <1>3, <1>4, Defaults DEF Settings
<1> QED
  BY <1>2, <1>3, <1>4, <1>5 DEF StoreInv

LEMMA StoreKept ==
  ASSUME StoreInv, [Next]_vars PROVE StoreInv'
<1>0. ASSUME NEW s \in Settings, state' = s, Save(s) PROVE StoreInv'
  BY <1>0 DEF Save, StoreInv
<1>1. ASSUME NEW s \in Settings, SetState(s) PROVE StoreInv'
  BY <1>1, <1>0 DEF SetState
<1>2. CASE SetSymbol
  <2>1. PICK sym \in Symbols : SetState([state EXCEPT !.symbol = sym])
    BY <1>2, Defaults DEF SetSymbol, Rows, StoreInv, Settings
  <2> QED
    BY <2>1, <1>1 DEF StoreInv, Settings
<1>3. CASE SetTimeframe
  <2>1. PICK tf \in Timeframes : SetState([state EXCEPT !.timeframe = tf])
    BY <1>3 DEF SetTimeframe
  <2> QED
    BY <2>1, <1>1 DEF StoreInv, Settings
<1>4. CASE SetBarCount
  <2>1. PICK n \in Counts : SetState([state EXCEPT !.count = n])
    BY <1>4 DEF SetBarCount
  <2> QED
    BY <2>1, <1>1 DEF StoreInv, Settings
<1>5. CASE ToggleIndicator
  <2>1. PICK new \in SUBSET Indicators : SetState([state EXCEPT !.indicators = new])
    <3>1. PICK name \in Indicators :
            SetState([state EXCEPT !.indicators =
                        IF name \in @ THEN @ \ {name} ELSE @ \cup {name}])
      BY <1>5 DEF ToggleIndicator
    <3>2. state.indicators \subseteq Indicators
      BY DEF StoreInv, Settings
    <3> QED
      BY <3>1, <3>2
  <2> QED
    BY <2>1, <1>1 DEF StoreInv, Settings
<1>6. CASE AddToWatchlist
  <2>1. PICK sym \in Symbols : SetState([state EXCEPT !.watchlist = @ \cup {sym}])
    BY <1>6 DEF AddToWatchlist
  <2> QED
    BY <2>1, <1>1 DEF StoreInv, Settings
<1>7. CASE RemoveFromWatchlist
  <2>1. PICK sym \in state.watchlist : SetState([state EXCEPT !.watchlist = @ \ {sym}])
    BY <1>7 DEF RemoveFromWatchlist
  <2> QED
    BY <2>1, <1>1 DEF StoreInv, Settings
<1>8. CASE SaveNote
  <2>1. PICK text \in Texts : SetState([state EXCEPT !.notes[state.symbol] = text])
    BY <1>8 DEF SaveNote
  <2> QED
    BY <2>1, <1>1 DEF StoreInv, Settings
<1>9. CASE SelectTab
  <2>1. PICK tab \in Tabs : SetState([state EXCEPT !.tab = tab])
    BY <1>9 DEF SelectTab
  <2> QED
    BY <2>1, <1>1 DEF StoreInv, Settings
<1>10. CASE Reload
  BY <1>10, ReloadLoads
<1>11. ASSUME UNCHANGED <<state, saved, kept>> PROVE StoreInv'
  BY <1>11 DEF StoreInv
<1>12. CASE \E p \in Panels : Retry(p)
  BY <1>12, <1>11 DEF Retry
<1>13. CASE ToggleLocale
  BY <1>13, <1>11 DEF ToggleLocale
<1>14. CASE \E v \in Views, n \in 0..MaxActions : Answer(v, n)
  <2>1. PICK r \in pending : ChartAnswer(r) \/ PanelAnswer(r)
    BY <1>14 DEF Answer
  <2>2. \E outcome : Arrived(r, outcome)
    BY <2>1 DEF ChartAnswer, PanelAnswer
  <2> QED
    BY <2>2, <1>11 DEF Arrived
<1>15. CASE SaveLayout
  BY <1>15, <1>0 DEF SaveLayout, StoreInv
<1>16. CASE UNCHANGED vars
  BY <1>16, <1>11 DEF vars
<1> QED
  BY <1>2, <1>3, <1>4, <1>5, <1>6, <1>7, <1>8, <1>9, <1>10, <1>12, <1>13, <1>14, <1>15, <1>16
  DEF Next, UserActs

LEMMA SelectionKept ==
  ASSUME SelectionInv, StoreInv, [Next]_vars PROVE SelectionInv'
<1>1. CASE SetSymbol \/ SetTimeframe \/ SetBarCount \/ ToggleIndicator
  BY <1>1, SetStateShows DEF SetSymbol, SetTimeframe, SetBarCount, ToggleIndicator
<1>2. CASE AddToWatchlist \/ RemoveFromWatchlist \/ SaveNote \/ SelectTab
  BY <1>2, SetStateShows DEF AddToWatchlist, RemoveFromWatchlist, SaveNote, SelectTab
<1>3. CASE \E p \in Panels : Retry(p)
  BY <1>3, RetryShows
<1>4. CASE ToggleLocale
  BY <1>4, ToggleLocaleShows
<1>5. CASE Reload
  BY <1>5, ReloadShows
<1>6. CASE \E v \in Views, n \in 0..MaxActions : Answer(v, n)
  BY <1>6, ChartAnswerShows, PanelAnswerShows DEF Answer
<1>7. CASE SaveLayout
  BY <1>7, SaveLayoutShows
<1>8. CASE UNCHANGED vars
  BY <1>8 DEF vars, SelectionInv, Numbered, Shapes, Asked, PendingInv, ShownInv
<1> QED
  BY <1>1, <1>2, <1>3, <1>4, <1>5, <1>6, <1>7, <1>8 DEF Next, UserActs

-----------------------------------------------------------------------------
(* Theorems *)

LEMMA InvariantsHold == Spec => [](SelectionInv /\ StoreInv)
<1>1. Init => SelectionInv /\ StoreInv
  <2>1. Init => StoreInv
    BY Defaults DEF Init, StoreInv, Settings, DefaultState
  <2> QED
    BY <2>1, InitShows
<1>2. SelectionInv /\ StoreInv /\ [Next]_vars => (SelectionInv /\ StoreInv)'
  BY SelectionKept, StoreKept
<1> QED
  BY <1>1, <1>2, PTL DEF Spec

\* A view whose last answer is data for its newest request shows what the client
\* has for the current selection: syncChartData and the panels' subscriptions miss
\* no change of it.
THEOREM SelectionIsShown == Spec => []ShowsSelection
<1>1. SelectionInv => ShowsSelection
  BY DEF SelectionInv, ShownInv, ShowsSelection
<1> QED
  BY <1>1, InvariantsHold, PTL

\* A reload restores the store of the last save that succeeded but for the tab,
\* and the defaults when the copy was damaged, whatever was set and whatever save
\* failed before: _saveToStorage and _loadFromStorage agree.
THEOREM ReloadRestores == Spec => SurvivesReload
<1>1. StoreInv /\ [Next]_vars => [Reload => state' = [kept' EXCEPT !.tab = DefaultTab]]_vars
  BY ReloadLoads
<1> QED
  BY <1>1, InvariantsHold, PTL DEF Spec, SurvivesReload
=============================================================================
