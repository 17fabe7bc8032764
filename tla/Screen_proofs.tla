---------------------------- MODULE Screen_proofs ----------------------------
(* A screen is reproducible, ranks what it would buy first, ranks no symbol   *)
(* that no longer trades, and accounts for every candidate: for every market, *)
(* every set of symbols and every parameter.  The ranking rests on a lemma    *)
(* about sorting a finite set by a strict total order.                        *)
EXTENDS Screen, FiniteSetTheorems, NaturalsInduction, TLAPS

-----------------------------------------------------------------------------
(* The market after the run *)

\* The rows of a history are in the order of their days, none after `last`.
Chronological(r, last) ==
  /\ \A i \in DOMAIN r : r[i].day <= last
  /\ \A i, j \in DOMAIN r : i <= j => r[i].day <= r[j].day

MarketInv ==
  /\ today \in Nat
  /\ rows \in [Symbols -> Seq(DailyRow)]
  /\ \A s \in Symbols : Chronological(rows[s], today)
  /\ listing \in [Symbols -> Seq(ListingStatus)]
  /\ \A s \in Symbols : Len(listing[s]) = today
  /\ run # NoRun => /\ run.candidates \in Seq(Symbols)
                    /\ run.date \in Nat /\ 1 <= run.date /\ run.date <= today

\* What a market day appends.
Grows(r, new, day) == new = r \/ \E x \in DailyRow : x.day = day /\ new = Append(r, x)

LEMMA DayGrows ==
  ASSUME MarketInv, TradeDay
  PROVE  /\ today' = today + 1 /\ run' = run
         /\ \A s \in Symbols : Grows(rows[s], rows'[s], today + 1)
         /\ \A s \in Symbols : \E x \in ListingStatus : listing'[s] = Append(listing[s], x)
         /\ DOMAIN rows' = Symbols /\ rows' = [s \in Symbols |-> rows'[s]]
         /\ listing' = [s \in Symbols |-> listing'[s]]
<1>1. today + 1 \in 1..MaxDay /\ today' = today + 1 /\ run' = run
  BY ScreenParameters DEF TradeDay, MarketInv
<1>2. PICK day \in [Symbols -> UNION {DayMenu[today + 1][s] : s \in Symbols}] :
       /\ \A s \in Symbols : day[s] \in DayMenu[today + 1][s]
       /\ rows' = [s \in Symbols |->
            IF day[s].bar THEN Append(rows[s], [day[s].row EXCEPT !.day = today + 1])
            ELSE rows[s]]
       /\ listing' = [s \in Symbols |-> Append(listing[s], day[s].status)]
  BY DEF TradeDay
<1>3. ASSUME NEW s \in Symbols PROVE day[s] \in MarketDay
  <2>1. DayMenu[today + 1] \in [Symbols -> SUBSET MarketDay]
    BY <1>1, ScreenParameters
  <2> QED
    BY <1>2, <2>1
<1>4. ASSUME NEW s \in Symbols PROVE Grows(rows[s], rows'[s], today + 1)
  <2>1. CASE day[s].bar
    <3>1. day[s].row \in DailyRow
      BY <1>3, <2>1 DEF MarketDay
    <3> DEFINE x == [day[s].row EXCEPT !.day = today + 1]
    <3>2. x \in DailyRow /\ x.day = today + 1
      BY <1>1, <3>1 DEF DailyRow
    <3>3. rows'[s] = Append(rows[s], x)
      BY <1>2, <2>1
    <3> QED
      BY <3>2, <3>3 DEF Grows
  <2>2. CASE ~day[s].bar
    BY <1>2, <2>2 DEF Grows
  <2> QED
    BY <2>1, <2>2
<1>5. ASSUME NEW s \in Symbols
      PROVE  \E x \in ListingStatus : listing'[s] = Append(listing[s], x)
  <2>1. day[s].status \in ListingStatus
    BY <1>3 DEF MarketDay
  <2> QED
    BY <1>2, <2>1
<1> QED
  BY <1>1, <1>2, <1>4, <1>5

LEMMA GrowsType ==
  ASSUME NEW t \in Nat, NEW r \in Seq(DailyRow), NEW new, Grows(r, new, t + 1),
         Chronological(r, t)
  PROVE  new \in Seq(DailyRow) /\ Chronological(new, t + 1)
<1>0. \A i \in DOMAIN r : r[i].day \in Nat
  <2>1. \A i \in DOMAIN r : r[i] \in DailyRow
    OBVIOUS
  <2> QED
    BY <2>1 DEF DailyRow
<1>1. CASE new = r
  BY <1>0, <1>1 DEF Chronological
<1>2. ASSUME NEW x \in DailyRow, x.day = t + 1, new = Append(r, x)
      PROVE  new \in Seq(DailyRow) /\ Chronological(new, t + 1)
  <2>1. new \in Seq(DailyRow) /\ Len(new) = Len(r) + 1 /\ new[Len(r) + 1] = x /\ Len(r) \in Nat
    BY <1>2
  <2>2. \A i \in 1..Len(r) : new[i] = r[i]
    BY <1>2
  <2>3. DOMAIN new = 1..(Len(r) + 1) /\ DOMAIN r = 1..Len(r)
    BY <2>1
  <2>4. \A i \in DOMAIN r : r[i].day <= t /\ r[i].day <= t + 1
    BY <1>0 DEF Chronological
  <2>5. ASSUME NEW i \in DOMAIN new PROVE new[i].day <= t + 1 /\ new[i].day \in Nat
    <3>1. CASE i = Len(r) + 1
      BY <1>2, <2>1, <3>1
    <3>2. CASE i \in DOMAIN r
      BY <1>0, <2>2, <2>3, <2>4, <3>2
    <3> QED
      BY <2>1, <2>3, <3>1, <3>2
  <2>6. ASSUME NEW i \in DOMAIN new, NEW j \in DOMAIN new, i <= j
        PROVE  new[i].day <= new[j].day
    <3>1. CASE j = Len(r) + 1
      BY <1>2, <2>1, <2>5, <3>1
    <3>2. CASE j \in DOMAIN r
      <4>1. i \in DOMAIN r
        BY <2>1, <2>3, <2>6, <3>2
      <4> QED
        BY <2>2, <2>3, <2>6, <3>2, <4>1 DEF Chronological
    <3> QED
      BY <2>1, <2>3, <3>1, <3>2
  <2> QED
    BY <2>1, <2>5, <2>6 DEF Chronological
<1> QED
  BY <1>1, <1>2 DEF Grows

LEMMA MarketKept ==
  ASSUME MarketInv, [Next]_vars
  PROVE  MarketInv'
<1>1. CASE TradeDay
  <2>1. ASSUME NEW s \in Symbols
        PROVE  /\ rows'[s] \in Seq(DailyRow)
               /\ Chronological(rows'[s], today + 1)
    <3>1. rows[s] \in Seq(DailyRow) /\ Grows(rows[s], rows'[s], today + 1) /\ today \in Nat
      BY <1>1, DayGrows DEF MarketInv
    <3>2. Chronological(rows[s], today)
      BY DEF MarketInv
    <3> QED
      BY <3>1, <3>2, GrowsType
  <2>2. ASSUME NEW s \in Symbols
        PROVE  listing'[s] \in Seq(ListingStatus) /\ Len(listing'[s]) = today + 1
    <3>1. PICK x \in ListingStatus : listing'[s] = Append(listing[s], x)
      BY <1>1, DayGrows
    <3>2. listing[s] \in Seq(ListingStatus) /\ Len(listing[s]) = today
      BY DEF MarketInv
    <3> QED
      BY <3>1, <3>2
  <2>3. rows' \in [Symbols -> Seq(DailyRow)] /\ listing' \in [Symbols -> Seq(ListingStatus)]
    BY <1>1, <2>1, <2>2, DayGrows
  <2>4. today' = today + 1 /\ run' = run
    BY <1>1, DayGrows
  <2> QED
    BY <2>1, <2>2, <2>3, <2>4 DEF MarketInv
<1>2. CASE Screen
  <2>1. PICK candidates \in CandidateLists, flagged \in FlaggedSets, options \in Options,
             date \in 1..today :
          run' = [candidates |-> candidates, flagged |-> flagged, options |-> options,
                  date |-> date,
                  output |-> RunScreen(rows, candidates, flagged, options, date)]
    BY <1>2 DEF Screen
  <2>2. run'.candidates = candidates /\ run'.date = date
    BY <2>1
  <2>3. UNCHANGED <<today, rows, listing>>
    BY <1>2 DEF Screen
  <2> QED
    BY <2>2, <2>3, ScreenParameters DEF MarketInv
<1>3. CASE UNCHANGED vars
  BY <1>3 DEF vars, MarketInv
<1> QED
  BY <1>1, <1>2, <1>3 DEF Next

LEMMA MarketInvariant == Spec => []MarketInv
<1>1. Init => MarketInv
  BY DEF Init, MarketInv, Chronological
<1>2. MarketInv /\ [Next]_vars => MarketInv'
  BY MarketKept
<1> QED
  BY <1>1, <1>2, PTL DEF Spec

-----------------------------------------------------------------------------
(* The greatest element of a finite set of indices *)

LEMMA MaxOfRows ==
  ASSUME NEW n \in Nat, NEW T \in SUBSET (1..n)
  PROVE  /\ Max({0} \cup T) \in {0} \cup T
         /\ \A y \in T : Max({0} \cup T) >= y
<1> DEFINE S == {0} \cup T
           D == {n - x : x \in S}
<1>1. D # {} /\ D \subseteq Nat /\ S \subseteq Nat
  OBVIOUS
<1>2. PICK d \in D : \A e \in D : ~(<<e, d>> \in OpToRel(<, Nat))
  BY <1>1, WFMin, NatLessThanWellFounded, Zenon
<1>3. PICK x \in S : d = n - x
  OBVIOUS
<1>4. \A y \in S : x >= y
  <2> SUFFICES ASSUME NEW y \in S PROVE x >= y
    OBVIOUS
  <2>1. n - y \in D
    OBVIOUS
  <2>2. ~(n - y < d)
    BY <1>1, <1>2, <2>1 DEF OpToRel
  <2> QED
    BY <1>1, <1>3, <2>2
<1> QED
  BY <1>4 DEF Max

\* The rows on or before the date.
Until(r, date) == {i \in DOMAIN r : r[i].day <= date}

LEMMA AsOfRow ==
  ASSUME NEW r \in Seq(DailyRow), NEW date \in Nat
  PROVE  LET k == AsOfIndex(r, date)
         IN  k \in 0..Len(r) /\ (k # 0 => r[k].day <= date)
<1> DEFINE k == Max({0} \cup Until(r, date))
<1>1. Until(r, date) \in SUBSET (1..Len(r)) /\ Len(r) \in Nat
  BY DEF Until
<1>2. k \in {0} \cup Until(r, date)
  BY <1>1, MaxOfRows
<1>3. AsOfIndex(r, date) = k
  BY DEF AsOfIndex, Until
<1> HIDE DEF k
<1> QED
  BY <1>1, <1>2, <1>3 DEF Until

-----------------------------------------------------------------------------
(* Nothing after the date is read *)

\* The date has the same row in both histories, and the same rows before it.
SameWindow(new, r, date) ==
  /\ AsOfIndex(new, date) = AsOfIndex(r, date)
  /\ SubSeq(new, 1, AsOfIndex(r, date)) = SubSeq(r, 1, AsOfIndex(r, date))

\* What a run on the date sees of a history is not changed by a later row.
LEMMA SameHistory ==
  ASSUME NEW t \in Nat, NEW date \in Nat, date <= t,
         NEW r \in Seq(DailyRow), NEW new, Grows(r, new, t + 1)
  PROVE  /\ SameWindow(new, r, date)
         /\ {d \in Days(new) : d <= date} = {d \in Days(r) : d <= date}
<1>1. CASE new = r
  BY <1>1 DEF SameWindow
<1>2. ASSUME NEW x \in DailyRow, x.day = t + 1, new = Append(r, x)
      PROVE  /\ SameWindow(new, r, date)
             /\ {d \in Days(new) : d <= date} = {d \in Days(r) : d <= date}
  <2>1. new \in Seq(DailyRow) /\ Len(new) = Len(r) + 1 /\ new[Len(r) + 1] = x /\ Len(r) \in Nat
    BY <1>2
  <2>2. \A i \in 1..Len(r) : new[i] = r[i]
    BY <1>2
  <2>3. DOMAIN new = 1..(Len(r) + 1) /\ DOMAIN r = 1..Len(r)
    BY <2>1
  <2>4. ~(x.day <= date)
    BY <1>2
  <2>5. Until(new, date) = Until(r, date)
    BY <2>1, <2>2, <2>3, <2>4 DEF Until
  <2>6. AsOfIndex(new, date) = AsOfIndex(r, date)
    BY <2>5 DEF AsOfIndex, Until
  <2> DEFINE k == AsOfIndex(r, date)
  <2>7. k \in 0..Len(r)
    BY AsOfRow
  <2> HIDE DEF k
  <2>8. SubSeq(new, 1, k) = SubSeq(r, 1, k)
    BY <2>1, <2>2, <2>7
  <2>9. {d \in Days(new) : d <= date} = {d \in Days(r) : d <= date}
    <3>1. ASSUME NEW d, d <= date PROVE d \in Days(new) <=> d \in Days(r)
      BY <2>1, <2>2, <2>3, <2>4, <3>1 DEF Days
    <3> QED
      BY <3>1
  <2> QED
    BY <2>6, <2>8, <2>9 DEF k, SameWindow
<1> QED
  BY <1>1, <1>2 DEF Grows

SameSessions(later, calendar, date) ==
  \A start : SessionsBetween(later, start, date) = SessionsBetween(calendar, start, date)

\* The calendar up to the date is not changed either.
LEMMA SameCalendar ==
  ASSUME MarketInv, TradeDay, NEW date \in Nat, date <= today, NEW S \in SUBSET Symbols,
         NEW start
  PROVE  SessionsBetween(Calendar(rows', S), start, date)
           = SessionsBetween(Calendar(rows, S), start, date)
<1>1. ASSUME NEW s \in S
      PROVE  {d \in Days(rows'[s]) : d <= date} = {d \in Days(rows[s]) : d <= date}
  <2>1. rows[s] \in Seq(DailyRow) /\ Grows(rows[s], rows'[s], today + 1) /\ today \in Nat
    BY DayGrows DEF MarketInv
  <2> QED
    BY <2>1, SameHistory
<1>2. ASSUME NEW d, d <= date
      PROVE  d \in Calendar(rows', S) <=> d \in Calendar(rows, S)
  BY <1>1, <1>2 DEF Calendar
<1>3. {d \in Calendar(rows', S) : start < d /\ d <= date}
        = {d \in Calendar(rows, S) : start < d /\ d <= date}
  BY <1>2
<1> QED
  BY <1>3 DEF SessionsBetween

\* An assessment is a function of what it reads: the index, the window that ends
\* there and the criteria.
Verdict(index, w, criteria, s, entry, status) ==
  IF index = 0
  THEN [symbol |-> s, entry |-> entry, included |-> FALSE,
        failed |-> {"has_bar_on_or_before_run_date"}]
  ELSE IF ~Included(criteria)
  THEN [symbol |-> s, entry |-> entry, included |-> FALSE,
        failed |-> {name \in DOMAIN criteria : ~criteria[name]}]
  ELSE [symbol |-> s, entry |-> entry, included |-> TRUE, index |-> index,
        score |-> Score(w, status), signal |-> Signal(w, status)]

LEMMA AssessmentIsVerdict ==
  ASSUME NEW r, NEW s, NEW entry, NEW status, NEW flagged, NEW options, NEW calendar, NEW date
  PROVE  Assessment(r, s, entry, status, flagged, options, calendar, date)
           = Verdict(AsOfIndex(r, date), SubSeq(r, 1, AsOfIndex(r, date)),
                     Criteria(SubSeq(r, 1, AsOfIndex(r, date)), status, flagged, options,
                              calendar, date), s, entry, status)
BY DEF Assessment, Verdict

LEMMA SameAssessment ==
  ASSUME NEW r, NEW new, NEW s, NEW entry, NEW status, NEW flagged, NEW options,
         NEW calendar, NEW later, NEW date,
         SameWindow(new, r, date),
         SameSessions(later, calendar, date)
  PROVE  Assessment(new, s, entry, status, flagged, options, later, date)
           = Assessment(r, s, entry, status, flagged, options, calendar, date)
<1> DEFINE w == SubSeq(r, 1, AsOfIndex(r, date))
           last == LastPositiveVolume(w)
           day == w[last].day
<1>0. SessionsBetween(later, day, date) = SessionsBetween(calendar, day, date)
  BY DEF SameSessions
<1>1. RecentPass(w, later, date) = RecentPass(w, calendar, date)
  <2> HIDE DEF w
  <2> QED
    BY <1>0 DEF RecentPass
<1> HIDE DEF last, day
<1>2. Criteria(w, status, flagged, options, later, date)
        = Criteria(w, status, flagged, options, calendar, date)
  BY <1>1 DEF Criteria
<1> HIDE DEF w
<1> QED
  BY <1>2, AssessmentIsVerdict DEF w, SameWindow

\* Repeating a run after a market day gives the same output.
LEMMA SameRun ==
  ASSUME MarketInv, TradeDay, run # NoRun, NEW options, NEW flagged
  PROVE  RunScreen(rows, run.candidates, flagged, options, run.date)'
           = RunScreen(rows, run.candidates, flagged, options, run.date)
<1>1. run.date \in Nat /\ 1 <= run.date /\ run.date <= today /\ run.candidates \in Seq(Symbols)
      /\ today \in Nat
  BY DEF MarketInv
<1>2. run' = run
  BY DayGrows
<1> DEFINE symbols == {run.candidates[k] : k \in DOMAIN run.candidates}
           date == run.date
<1>3. symbols \in SUBSET Symbols
  BY <1>1
<1> DEFINE scope == IF options.ownCalendar THEN symbols ELSE Symbols
           calendar == Calendar(rows, scope)
           later == Calendar(rows', scope)
<1>4. scope \in SUBSET Symbols
  BY <1>3
<1> HIDE DEF scope
<1>5. SameSessions(later, calendar, date)
  BY <1>1, <1>4, SameCalendar DEF SameSessions
<1> HIDE DEF calendar, later
<1> DEFINE Before(k) ==
             LET s == run.candidates[k]
             IN  Assessment(rows[s], s, k, listing[s][date], s \in flagged, options, calendar,
                            date)
           After(k) ==
             LET s == run.candidates[k]
             IN  Assessment(rows'[s], s, k, listing'[s][date], s \in flagged, options, later,
                            date)
<1>6. ASSUME NEW k \in DOMAIN run.candidates PROVE After(k) = Before(k)
  <2> DEFINE s == run.candidates[k]
  <2>1. s \in Symbols
    BY <1>3
  <2> HIDE DEF s
  <2>2. rows[s] \in Seq(DailyRow) /\ Grows(rows[s], rows'[s], today + 1)
    BY <2>1, DayGrows DEF MarketInv
  <2>3. listing'[s][date] = listing[s][date]
    <3>1. PICK x \in ListingStatus : listing'[s] = Append(listing[s], x)
      BY <2>1, DayGrows
    <3>2. listing[s] \in Seq(ListingStatus) /\ Len(listing[s]) = today
      BY <2>1 DEF MarketInv
    <3> QED
      BY <1>1, <3>1, <3>2
  <2>4. SameWindow(rows'[s], rows[s], date)
    BY <1>1, <2>2, SameHistory
  <2> HIDE DEF date
  <2>5. ASSUME NEW status, NEW isFlagged
        PROVE  Assessment(rows'[s], s, k, status, isFlagged, options, later, date)
                 = Assessment(rows[s], s, k, status, isFlagged, options, calendar, date)
    BY <1>5, <2>4, SameAssessment
  <2> QED
    BY <2>3, <2>5 DEF s
<1>7. RunScreen(rows, run.candidates, flagged, options, run.date)
        = Results({Before(k) : k \in DOMAIN run.candidates})
  BY DEF RunScreen, scope, calendar
<1>8. RunScreen(rows, run.candidates, flagged, options, run.date)'
        = Results({After(k) : k \in DOMAIN run.candidates})
  BY <1>2 DEF RunScreen, scope, later
<1> HIDE DEF Before, After
<1>9. {After(k) : k \in DOMAIN run.candidates} = {Before(k) : k \in DOMAIN run.candidates}
  BY <1>6
<1> QED
  BY <1>7, <1>8, <1>9

LEMMA RunKept ==
  ASSUME MarketInv, Reproducible, [Next]_vars
  PROVE  Reproducible'
<1>1. CASE TradeDay
  <2>1. run' = run
    BY <1>1, DayGrows
  <2>2. ASSUME run # NoRun
        PROVE  RunScreen(rows, run.candidates, run.flagged, run.options, run.date)'
                 = RunScreen(rows, run.candidates, run.flagged, run.options, run.date)
    <3> DEFINE options == run.options
               flagged == run.flagged
    <3> QED
      BY <1>1, <2>1, <2>2, SameRun
  <2> QED
    BY <2>1, <2>2 DEF Reproducible
<1>2. CASE Screen
  <2>1. PICK candidates \in CandidateLists, flagged \in FlaggedSets, options \in Options,
             date \in 1..today :
          run' = [candidates |-> candidates, flagged |-> flagged, options |-> options,
                  date |-> date,
                  output |-> RunScreen(rows, candidates, flagged, options, date)]
    BY <1>2 DEF Screen
  <2>2. UNCHANGED <<rows, listing>>
    BY <1>2 DEF Screen
  <2>3. /\ run'.candidates = candidates /\ run'.flagged = flagged /\ run'.options = options
        /\ run'.date = date
        /\ run'.output = RunScreen(rows, candidates, flagged, options, date)
    BY <2>1
  <2> QED
    BY <2>2, <2>3 DEF Reproducible, RunScreen
<1>3. CASE UNCHANGED vars
  BY <1>3 DEF vars, Reproducible, RunScreen
<1> QED
  BY <1>1, <1>2, <1>3 DEF Next

\* The output of a screen does not depend on anything that happened after its date:
\* bars, sessions and listing states that come later leave every score, signal,
\* rank and exclusion as it was.
THEOREM RunsAreReproducible == Spec => []Reproducible
<1>1. Init => Reproducible
  BY DEF Init, Reproducible
<1>2. MarketInv /\ Reproducible /\ [Next]_vars => Reproducible'
  BY RunKept
<1> QED
  BY <1>1, <1>2, MarketInvariant, PTL DEF Spec

-----------------------------------------------------------------------------
(* Sorting a finite set by a strict total order *)

\* R orders S: it is irreflexive, total and transitive on S.
Orders(R, S) ==
  /\ \A x \in S : <<x, x>> \notin R
  /\ \A x, y \in S : x # y => <<x, y>> \in R \/ <<y, x>> \in R
  /\ \A x, y, z \in S : <<x, y>> \in R /\ <<y, z>> \in R => <<x, z>> \in R

\* The elements of S before x, and the position of x.
Below(R, S, x) == {y \in S : <<y, x>> \in R}
Position(R, S) == [x \in S |-> Cardinality(Below(R, S, x)) + 1]

Sorted(R, S, q) ==
  /\ q \in [1..Cardinality(S) -> S]
  /\ \A i, j \in 1..Cardinality(S) : i < j => <<q[i], q[j]>> \in R

LEMMA PositionType ==
  ASSUME NEW S, IsFiniteSet(S), NEW R, Orders(R, S)
  PROVE  Position(R, S) \in [S -> 1..Cardinality(S)]
<1>1. ASSUME NEW x \in S PROVE Cardinality(Below(R, S, x)) + 1 \in 1..Cardinality(S)
  <2>1. Below(R, S, x) \in SUBSET (S \ {x})
    BY DEF Below, Orders
  <2>2. IsFiniteSet(S \ {x}) /\ Cardinality(S \ {x}) = Cardinality(S) - 1
    BY FS_RemoveElement
  <2>3. /\ Cardinality(Below(R, S, x)) <= Cardinality(S) - 1
        /\ IsFiniteSet(Below(R, S, x))
    BY <2>1, <2>2, FS_Subset
  <2> QED
    BY <2>3, FS_CardinalityType
<1> QED
  BY <1>1 DEF Position

\* An element has a smaller position than those it is before.
LEMMA PositionOrdered ==
  ASSUME NEW S, IsFiniteSet(S), NEW R, Orders(R, S), NEW x \in S, NEW y \in S, <<x, y>> \in R
  PROVE  Position(R, S)[x] < Position(R, S)[y]
<1>1. Below(R, S, x) \in SUBSET Below(R, S, y) /\ x \in Below(R, S, y) \ Below(R, S, x)
  BY DEF Below, Orders
<1>2. IsFiniteSet(Below(R, S, y)) /\ IsFiniteSet(Below(R, S, x))
  BY FS_Subset DEF Below
<1>3. /\ Cardinality(Below(R, S, x)) <= Cardinality(Below(R, S, y))
      /\ Cardinality(Below(R, S, x)) # Cardinality(Below(R, S, y))
  BY <1>1, <1>2, FS_Subset
<1>4. Cardinality(Below(R, S, x)) \in Nat /\ Cardinality(Below(R, S, y)) \in Nat
  BY <1>2, FS_CardinalityType
<1> QED
  BY <1>3, <1>4 DEF Position

\* The positions enumerate the set in order.
LEMMA SortedExists ==
  ASSUME NEW S, IsFiniteSet(S), NEW R, Orders(R, S)
  PROVE  \E q : Sorted(R, S, q)
<1> DEFINE n == Cardinality(S)
           pos == Position(R, S)
<1>1. n \in Nat
  BY FS_CardinalityType
<1>2. pos \in [S -> 1..n]
  BY PositionType
<1>3. ASSUME NEW x \in S, NEW y \in S, x # y PROVE pos[x] # pos[y]
  <2>1. pos[x] \in Int /\ pos[y] \in Int
    BY <1>2
  <2>2. pos[x] < pos[y] \/ pos[y] < pos[x]
    BY <1>3, PositionOrdered DEF Orders
  <2> QED
    BY <2>1, <2>2
<1>4. pos \in Injection(S, 1..n)
  BY <1>2, <1>3 DEF Injection, IsInjective
<1>5. IsFiniteSet(1..n) /\ Cardinality(1..n) = n
  BY <1>1, FS_Interval
<1>6. pos \in Surjection(S, 1..n)
  BY <1>4, <1>5, FS_Injection
<1>7. \A i \in 1..n : \E x \in S : pos[x] = i
  BY <1>6 DEF Surjection
<1> DEFINE q == [i \in 1..n |-> CHOOSE x \in S : pos[x] = i]
<1>8. \A i \in 1..n : q[i] \in S /\ pos[q[i]] = i
  BY <1>7
<1>9. q \in [1..n -> S]
  BY <1>8
<1> HIDE DEF q, pos
<1>10. ASSUME NEW i \in 1..n, NEW j \in 1..n, i < j PROVE <<q[i], q[j]>> \in R
  <2>1. q[i] \in S /\ q[j] \in S /\ pos[q[i]] = i /\ pos[q[j]] = j
    BY <1>8
  <2>2. q[i] # q[j]
    BY <1>10, <2>1
  <2>3. ~(<<q[j], q[i]>> \in R)
    <3> SUFFICES ASSUME <<q[j], q[i]>> \in R PROVE FALSE
      OBVIOUS
    <3>1. pos[q[j]] < pos[q[i]]
      BY <2>1, PositionOrdered DEF pos
    <3> QED
      BY <1>10, <2>1, <3>1
  <2> QED
    BY <2>1, <2>2, <2>3 DEF Orders
<1> QED
  BY <1>9, <1>10 DEF Sorted

\* The sequence has every element of the set once.
Enumerates(q, S) ==
  /\ q \in Seq(S)
  /\ \A i, j \in DOMAIN q : q[i] = q[j] => i = j
  /\ {q[i] : i \in DOMAIN q} = S

LEMMA SortedEnumerates ==
  ASSUME NEW S, IsFiniteSet(S), NEW R, Orders(R, S), NEW q, Sorted(R, S, q)
  PROVE  Enumerates(q, S)
<1> DEFINE n == Cardinality(S)
<1>1. n \in Nat /\ IsFiniteSet(1..n) /\ Cardinality(1..n) = n
  BY FS_CardinalityType, FS_Interval
<1>2. q \in [1..n -> S] /\ DOMAIN q = 1..n
  BY DEF Sorted
<1>3. \A i, j \in 1..n : i < j => q[i] # q[j]
  BY <1>2 DEF Sorted, Orders
<1>4. \A i, j \in 1..n : i # j => q[i] # q[j]
  BY <1>1, <1>3
<1>5. q \in Injection(1..n, S)
  BY <1>2, <1>4 DEF Injection, IsInjective
<1>6. q \in Surjection(1..n, S)
  BY <1>1, <1>5, FS_Injection
<1>7. \A x \in S : \E i \in 1..n : q[i] = x
  BY <1>6 DEF Surjection
<1>8. q \in Seq(S)
  BY <1>1, <1>2
<1> QED
  BY <1>2, <1>4, <1>7, <1>8 DEF Enumerates

-----------------------------------------------------------------------------
(* The score *)

AllCriteria == {"warmup_pass", "data_quality_pass", "universe_pass",
                "signal_bar_volume_pass", "liquidity_pass", "bullish_crossover"}

LEMMA SixCriteria == IsFiniteSet(AllCriteria) /\ Cardinality(AllCriteria) = 6
<1> DEFINE a == {"warmup_pass"}
           b == a \cup {"data_quality_pass"}
           c == b \cup {"universe_pass"}
           d == c \cup {"signal_bar_volume_pass"}
           e == d \cup {"liquidity_pass"}
           f == e \cup {"bullish_crossover"}
<1>1. IsFiniteSet(a) /\ Cardinality(a) = 1
  BY FS_Singleton
<1>2. IsFiniteSet(b) /\ Cardinality(b) = 2
  BY <1>1, FS_AddElement
<1>3. "universe_pass" \notin b
  OBVIOUS
<1>4. "signal_bar_volume_pass" \notin c
  OBVIOUS
<1>5. "liquidity_pass" \notin d
  OBVIOUS
<1>6. "bullish_crossover" \notin e
  OBVIOUS
<1>7. f = AllCriteria
  BY DEF AllCriteria
<1> HIDE DEF b
<1>8. IsFiniteSet(c) /\ Cardinality(c) = 3
  BY <1>2, <1>3, FS_AddElement
<1> HIDE DEF c
<1>9. IsFiniteSet(d) /\ Cardinality(d) = 4
  BY <1>4, <1>8, FS_AddElement
<1> HIDE DEF d
<1>10. IsFiniteSet(e) /\ Cardinality(e) = 5
  BY <1>5, <1>9, FS_AddElement
<1> HIDE DEF e
<1>11. IsFiniteSet(f) /\ Cardinality(f) = 6
  BY <1>6, <1>10, FS_AddElement
<1> QED
  BY <1>7, <1>11

\* The strategy buys exactly the symbols that pass every criterion.
LEMMA EntryIsFullScore ==
  ASSUME NEW w, NEW status
  PROVE  /\ Score(w, status) \in 0..6
         /\ Signal(w, status) = "entry" <=> Score(w, status) = 6
         /\ Signal(w, status) \in {"entry", "entry_blocked", "unavailable", "none"}
<1>1. PassedCriteria(w, status) \in SUBSET AllCriteria
  BY DEF PassedCriteria, PassedGates, AllCriteria
<1>2. /\ IsFiniteSet(PassedCriteria(w, status))
      /\ Cardinality(PassedCriteria(w, status)) <= 6
      /\ Cardinality(PassedCriteria(w, status)) = 6 => PassedCriteria(w, status) = AllCriteria
  BY <1>1, SixCriteria, FS_Subset
<1>3. Cardinality(PassedCriteria(w, status)) \in Nat
  BY <1>2, FS_CardinalityType
<1>4. Score(w, status) \in 0..6
  BY <1>2, <1>3 DEF Score
<1>5. Score(w, status) = 6 <=> PassedCriteria(w, status) = AllCriteria
  BY <1>2, SixCriteria DEF Score
<1>6. PassedCriteria(w, status) = AllCriteria <=>
        /\ WarmupPass(w) /\ DataQualityPass(w) /\ UniversePass(w, status)
        /\ SignalBarVolumePass(w) /\ LiquidityPass(w) /\ Bullish(w)
  BY DEF PassedCriteria, PassedGates, AllCriteria
<1>7. Signal(w, status) = "entry" <=>
        /\ WarmupPass(w) /\ DataQualityPass(w) /\ UniversePass(w, status)
        /\ SignalBarVolumePass(w) /\ LiquidityPass(w) /\ Bullish(w)
  BY DEF Signal, Evaluate, Classify, EntryEligible
<1>8. Signal(w, status) \in {"entry", "entry_blocked", "unavailable", "none"}
  BY DEF Signal, Evaluate, Classify
<1> QED
  BY <1>4, <1>5, <1>6, <1>7, <1>8

-----------------------------------------------------------------------------
(* The account of a run *)

\* What a verdict says of its candidate.
Accounts(a, index, w, criteria, s, entry, status) ==
  /\ a.symbol = s /\ a.entry = entry
  /\ a.included \in BOOLEAN
  /\ ~a.included => a.failed # {}
  /\ a.included => /\ index # 0 /\ Included(criteria)
                   /\ a.index = index
                   /\ a.score = Score(w, status)
                   /\ a.signal = Signal(w, status)

LEMMA VerdictAccounts ==
  ASSUME NEW index, NEW w, NEW criteria, NEW s, NEW entry, NEW status
  PROVE  Accounts(Verdict(index, w, criteria, s, entry, status), index, w, criteria, s, entry,
                  status)
<1> DEFINE a == Verdict(index, w, criteria, s, entry, status)
<1> HIDE DEF a
<1> SUFFICES Accounts(a, index, w, criteria, s, entry, status)
  BY DEF a
<1>1. CASE index = 0
  <2>1. a = [symbol |-> s, entry |-> entry, included |-> FALSE,
             failed |-> {"has_bar_on_or_before_run_date"}]
    BY <1>1 DEF Verdict, a
  <2> QED
    BY <2>1 DEF Accounts
<1>2. CASE index # 0 /\ ~Included(criteria)
  <2>1. a = [symbol |-> s, entry |-> entry, included |-> FALSE,
             failed |-> {name \in DOMAIN criteria : ~criteria[name]}]
    BY <1>2 DEF Verdict, a
  <2>2. {name \in DOMAIN criteria : ~criteria[name]} # {}
    BY <1>2 DEF Included
  <2> QED
    BY <2>1, <2>2 DEF Accounts
<1>3. CASE index # 0 /\ Included(criteria)
  <2>1. a = [symbol |-> s, entry |-> entry, included |-> TRUE, index |-> index,
             score |-> Score(w, status), signal |-> Signal(w, status)]
    BY <1>3 DEF Verdict, a
  <2> QED
    BY <1>3, <2>1 DEF Accounts
<1> QED
  BY <1>1, <1>2, <1>3

\* The parts of the run on record, in the state it is looked at.
Entries == DOMAIN run.candidates
RunCalendar ==
  Calendar(rows, IF run.options.ownCalendar THEN {run.candidates[k] : k \in Entries} ELSE Symbols)
IndexOf(s) == AsOfIndex(rows[s], run.date)
WindowOf(s) == SubSeq(rows[s], 1, IndexOf(s))
StatusOf(s) == listing[s][run.date]
CriteriaOf(s) ==
  Criteria(WindowOf(s), StatusOf(s), s \in run.flagged, run.options, RunCalendar, run.date)
AssessmentOf(k) ==
  LET s == run.candidates[k]
  IN  Verdict(IndexOf(s), WindowOf(s), CriteriaOf(s), s, k, StatusOf(s))
Assessments == {AssessmentOf(k) : k \in Entries}
Ranked == {a \in Assessments : a.included}
Refused == {a \in Assessments : ~a.included}

LEMMA OutputOfRun ==
  ASSUME Reproducible, run # NoRun
  PROVE  /\ run.output.results = SortedBy(Ranked, RanksBefore)
         /\ run.output.excluded = SortedBy(Refused, BySymbol)
<1>1. run.output = RunScreen(rows, run.candidates, run.flagged, run.options, run.date)
  BY DEF Reproducible
<1> DEFINE Assessed(k) ==
             LET s == run.candidates[k]
             IN  Assessment(rows[s], s, k, listing[s][run.date], s \in run.flagged, run.options,
                            RunCalendar, run.date)
<1>2. \A k : Assessed(k) = AssessmentOf(k)
  BY AssessmentIsVerdict DEF AssessmentOf, CriteriaOf, WindowOf, StatusOf, IndexOf
<1>3. RunScreen(rows, run.candidates, run.flagged, run.options, run.date)
        = Results({Assessed(k) : k \in Entries})
  BY DEF RunScreen, RunCalendar, Entries
<1> HIDE DEF Assessed
<1>4. {Assessed(k) : k \in Entries} = Assessments
  BY <1>2 DEF Assessments
<1>5. run.output = Results(Assessments)
  BY <1>1, <1>3, <1>4
<1> QED
  BY <1>5 DEF Results, Ranked, Refused

\* What is said of a candidate's symbol s.
AccountsFor(a, k, s) ==
  /\ s = run.candidates[k] /\ s \in Symbols /\ rows[s] \in Seq(DailyRow)
  /\ Accounts(a, IndexOf(s), WindowOf(s), CriteriaOf(s), s, k, StatusOf(s))
  /\ IndexOf(s) \in 0..Len(rows[s])
  /\ IndexOf(s) # 0 => rows[s][IndexOf(s)].day <= run.date

\* The facts the orders of the account rest on.
LEMMA AssessmentFacts ==
  ASSUME MarketInv, run # NoRun, NEW k \in Entries
  PROVE  k \in Nat /\ AccountsFor(AssessmentOf(k), k, run.candidates[k])
<1> DEFINE s == run.candidates[k]
<1>1. s \in Symbols /\ run.date \in Nat /\ k \in Nat
  BY DEF Entries, MarketInv
<1> HIDE DEF s
<1>2. rows[s] \in Seq(DailyRow)
  BY <1>1 DEF MarketInv
<1>3. AssessmentOf(k) = Verdict(IndexOf(s), WindowOf(s), CriteriaOf(s), s, k, StatusOf(s))
  BY DEF AssessmentOf, s
<1>4. Accounts(AssessmentOf(k), IndexOf(s), WindowOf(s), CriteriaOf(s), s, k, StatusOf(s))
  BY <1>3, VerdictAccounts
<1>5. /\ IndexOf(s) \in 0..Len(rows[s])
      /\ IndexOf(s) # 0 => rows[s][IndexOf(s)].day <= run.date
  BY <1>1, <1>2, AsOfRow DEF IndexOf
<1>6. AccountsFor(AssessmentOf(k), k, s)
  BY <1>1, <1>2, <1>4, <1>5 DEF AccountsFor, s
<1> QED
  BY <1>1, <1>6 DEF s

LEMMA CandidatesApart ==
  ASSUME MarketInv, run # NoRun
  PROVE  /\ \A a \in Assessments : /\ a.symbol \in Nat /\ a.entry \in Nat
                                   /\ a.included \in BOOLEAN
         /\ \A a, b \in Assessments : a.entry = b.entry => a = b
         /\ \A a \in Ranked : a.score \in 0..6 /\ (a.signal = "entry" <=> a.score = 6)
<1>1. ASSUME NEW a \in Assessments
      PROVE  /\ a.symbol \in Nat /\ a.entry \in Nat /\ a.included \in BOOLEAN
             /\ a = AssessmentOf(a.entry)
             /\ a.included => a.score \in 0..6 /\ (a.signal = "entry" <=> a.score = 6)
  <2>1. PICK k \in Entries : a = AssessmentOf(k)
    BY DEF Assessments
  <2>2. k \in Nat /\ AccountsFor(a, k, run.candidates[k])
    BY <2>1, AssessmentFacts
  <2> QED
    BY <2>1, <2>2, EntryIsFullScore, ScreenParameters DEF AccountsFor, Accounts
<1> QED
  BY <1>1 DEF Ranked

LEMMA AssessmentsFinite ==
  ASSUME MarketInv, run # NoRun
  PROVE  IsFiniteSet(Assessments) /\ IsFiniteSet(Ranked) /\ IsFiniteSet(Refused)
<1> DEFINE n == Len(run.candidates)
           f == [k \in 1..n |-> AssessmentOf(k)]
<1>1. run.candidates \in Seq(Symbols) /\ n \in Nat
  BY DEF MarketInv
<1>2. Entries = 1..n
  BY <1>1 DEF Entries
<1>3. f \in [1..n -> Assessments] /\ \A a \in Assessments : \E i \in 1..n : f[i] = a
  BY <1>2 DEF Assessments
<1>4. f \in Surjection(1..n, Assessments)
  BY <1>3 DEF Surjection
<1>5. IsFiniteSet(1..n)
  BY <1>1, FS_Interval
<1>6. IsFiniteSet(Assessments)
  BY <1>4, <1>5, FS_Surjection
<1> QED
  BY <1>6, FS_Subset DEF Ranked, Refused

\* The two orders of the account as relations.
RankOrder == {p \in Ranked \X Ranked : RanksBefore(p[1], p[2])}
SymbolOrder == {p \in Refused \X Refused : BySymbol(p[1], p[2])}

LEMMA RankedSorted ==
  ASSUME MarketInv, run # NoRun
  PROVE  /\ Orders(RankOrder, Ranked)
         /\ Sorted(RankOrder, Ranked, SortedBy(Ranked, RanksBefore))
<1>1. \A a \in Ranked : a.score \in Int /\ a.symbol \in Int /\ a.entry \in Int
  BY CandidatesApart DEF Ranked
<1>2. \A a, b \in Ranked : a.entry = b.entry => a = b
  BY CandidatesApart DEF Ranked
<1>3. \A a, b \in Ranked : <<a, b>> \in RankOrder <=> RanksBefore(a, b)
  BY DEF RankOrder
<1>4. Orders(RankOrder, Ranked)
  BY <1>1, <1>2, <1>3 DEF Orders, RanksBefore, BySymbol
<1> DEFINE n == Cardinality(Ranked)
<1>5. \E q \in [1..n -> Ranked] : \A i, j \in 1..n : i < j => RanksBefore(q[i], q[j])
  BY <1>3, <1>4, AssessmentsFinite, SortedExists DEF Sorted
<1> DEFINE q == SortedBy(Ranked, RanksBefore)
<1>6. q \in [1..n -> Ranked] /\ \A i, j \in 1..n : i < j => RanksBefore(q[i], q[j])
  BY <1>5 DEF SortedBy
<1> HIDE DEF q
<1>7. Sorted(RankOrder, Ranked, q)
  BY <1>3, <1>6 DEF Sorted
<1> QED
  BY <1>4, <1>7 DEF q

LEMMA RefusedSorted ==
  ASSUME MarketInv, run # NoRun
  PROVE  /\ Orders(SymbolOrder, Refused)
         /\ Sorted(SymbolOrder, Refused, SortedBy(Refused, BySymbol))
<1>1. \A a \in Refused : a.symbol \in Int /\ a.entry \in Int
  BY CandidatesApart DEF Refused
<1>2. \A a, b \in Refused : a.entry = b.entry => a = b
  BY CandidatesApart DEF Refused
<1>3. \A a, b \in Refused : <<a, b>> \in SymbolOrder <=> BySymbol(a, b)
  BY DEF SymbolOrder
<1>4. Orders(SymbolOrder, Refused)
  BY <1>1, <1>2, <1>3 DEF Orders, BySymbol
<1> DEFINE n == Cardinality(Refused)
<1>5. \E q \in [1..n -> Refused] : \A i, j \in 1..n : i < j => BySymbol(q[i], q[j])
  BY <1>3, <1>4, AssessmentsFinite, SortedExists DEF Sorted
<1> DEFINE q == SortedBy(Refused, BySymbol)
<1>6. q \in [1..n -> Refused] /\ \A i, j \in 1..n : i < j => BySymbol(q[i], q[j])
  BY <1>5 DEF SortedBy
<1> HIDE DEF q
<1>7. Sorted(SymbolOrder, Refused, q)
  BY <1>3, <1>6 DEF Sorted
<1> QED
  BY <1>4, <1>7 DEF q

\* Whatever the symbols, the histories and the parameters, no symbol that the
\* strategy would not buy is ranked before one that it would.
THEOREM EntriesAreLeading == Spec => []EntriesLead
<1>1. ASSUME MarketInv, Reproducible PROVE EntriesLead
  <2> SUFFICES ASSUME run # NoRun, NEW i \in DOMAIN run.output.results,
                      NEW j \in DOMAIN run.output.results, i < j,
                      run.output.results[j].signal = "entry"
               PROVE  run.output.results[i].signal = "entry"
    BY DEF EntriesLead
  <2> DEFINE q == SortedBy(Ranked, RanksBefore)
             n == Cardinality(Ranked)
  <2>1. run.output.results = q
    BY <1>1, OutputOfRun
  <2>2. Sorted(RankOrder, Ranked, q)
    BY <1>1, RankedSorted
  <2> HIDE DEF q
  <2>3. q[i] \in Ranked /\ q[j] \in Ranked /\ RanksBefore(q[i], q[j])
    BY <2>1, <2>2 DEF Sorted, RankOrder
  <2>4. q[j].score = 6 /\ q[i].score >= q[j].score /\ q[i].score \in 0..6
    BY <1>1, <2>1, <2>3, CandidatesApart DEF RanksBefore
  <2>5. q[i].score = 6
    BY <2>4
  <2> QED
    BY <1>1, <2>1, <2>3, <2>5, CandidatesApart
<1> QED
  BY <1>1, MarketInvariant, RunsAreReproducible, PTL

-----------------------------------------------------------------------------
(* Recency *)

\* The newest row with volume is such a row.
LEMMA LastTraded ==
  ASSUME NEW r \in Seq(DailyRow), NEW k \in 0..Len(r)
  PROVE  LET last == LastPositiveVolume(SubSeq(r, 1, k))
         IN  last # 0 => last \in 1..k /\ r[last].volume > 0
                           /\ SubSeq(r, 1, k)[last] = r[last]
<1> DEFINE w == SubSeq(r, 1, k)
           T == {i \in DOMAIN w : w[i].volume > 0}
           last == Max({0} \cup T)
<1>1. k \in Nat /\ DOMAIN w = 1..k /\ \A i \in 1..k : w[i] = r[i]
  OBVIOUS
<1>2. LastPositiveVolume(w) = last
  BY DEF LastPositiveVolume, NewestRow
<1> HIDE DEF w
<1>3. T \in SUBSET (1..k)
  BY <1>1
<1>4. last \in {0} \cup T
  BY <1>1, <1>3, MaxOfRows
<1> HIDE DEF last
<1>5. last # 0 => last \in 1..k /\ r[last].volume > 0 /\ w[last] = r[last]
  BY <1>1, <1>4
<1> QED
  BY <1>2, <1>5 DEF w

LEMMA CalendarType ==
  ASSUME MarketInv, NEW S \in SUBSET Symbols
  PROVE  Calendar(rows, S) \subseteq Nat
<1> SUFFICES ASSUME NEW s \in S, NEW i \in DOMAIN rows[s] PROVE rows[s][i].day \in Nat
  BY DEF Calendar, Days
<1>1. rows[s] \in Seq(DailyRow)
  BY DEF MarketInv
<1>2. rows[s][i] \in DailyRow
  BY <1>1
<1> QED
  BY <1>2 DEF DailyRow

\* A symbol is never ranked on the strength of a bar alone: with the market's
\* calendar it traded in one of the market's newest WithinDays sessions.
THEOREM RankedHaveTraded == Spec => []RankedHasTraded
<1>1. ASSUME MarketInv, Reproducible PROVE RankedHasTraded
  <2> SUFFICES ASSUME run # NoRun, ~run.options.ownCalendar,
                      NEW k \in DOMAIN run.output.results
               PROVE  LET s == run.output.results[k].symbol
                      IN  \E i \in DOMAIN rows[s] :
                            /\ rows[s][i].volume > 0
                            /\ rows[s][i].day \in NewestSessions(run.date, WithinDays)
    BY DEF RankedHasTraded
  <2> DEFINE q == SortedBy(Ranked, RanksBefore)
             a == q[k]
  <2>1. run.output.results = q
    BY <1>1, OutputOfRun
  <2>2. Sorted(RankOrder, Ranked, q)
    BY <1>1, RankedSorted
  <2> HIDE DEF q
  <2>3. a \in Ranked
    BY <2>1, <2>2 DEF Sorted
  <2>4. PICK e \in Entries : a = AssessmentOf(e)
    BY <2>3 DEF Ranked, Assessments
  <2> DEFINE s == run.candidates[e]
  <2>5. /\ s \in Symbols /\ rows[s] \in Seq(DailyRow)
        /\ Accounts(a, IndexOf(s), WindowOf(s), CriteriaOf(s), s, e, StatusOf(s))
        /\ IndexOf(s) \in 0..Len(rows[s])
        /\ IndexOf(s) # 0 => rows[s][IndexOf(s)].day <= run.date
    BY <1>1, <2>4, AssessmentFacts DEF AccountsFor
  <2> HIDE DEF s
  <2>6. a.symbol = s /\ IndexOf(s) # 0 /\ Included(CriteriaOf(s))
    BY <2>3, <2>5 DEF Accounts, Ranked
  <2> DEFINE w == WindowOf(s)
             last == LastPositiveVolume(w)
             day == w[last].day
  <2>7. RecentPass(w, RunCalendar, run.date)
    BY <2>6 DEF Included, CriteriaOf, Criteria
  <2>8. last # 0 /\ SessionsBetween(RunCalendar, day, run.date) < WithinDays
    <3> HIDE DEF w
    <3> QED
      BY <2>7 DEF RecentPass
  <2>9. /\ last \in 1..IndexOf(s) /\ rows[s][last].volume > 0
        /\ day = rows[s][last].day
    BY <2>5, <2>8, LastTraded DEF WindowOf
  <2> HIDE DEF w, last, day
  <2>10. last \in DOMAIN rows[s] /\ rows[s][last] \in DailyRow /\ IndexOf(s) \in DOMAIN rows[s]
    BY <2>5, <2>6, <2>9
  <2>11. day \in Nat /\ rows[s][IndexOf(s)] \in DailyRow
    <3>1. rows[s][last].day \in Nat
      BY <2>10 DEF DailyRow
    <3>2. rows[s][IndexOf(s)] \in DailyRow
      BY <2>5, <2>10
    <3> QED
      BY <2>9, <3>1, <3>2
  <2>12. day <= run.date
    <3>1. rows[s][last].day <= rows[s][IndexOf(s)].day
      BY <1>1, <2>5, <2>9, <2>10 DEF MarketInv, Chronological
    <3>2. run.date \in Nat /\ rows[s][IndexOf(s)].day \in Nat
      BY <1>1, <2>11 DEF MarketInv, DailyRow
    <3> QED
      BY <2>5, <2>6, <2>9, <2>11, <3>1, <3>2
  <2>13. RunCalendar = Calendar(rows, Symbols) /\ RunCalendar \subseteq Nat
    BY <1>1, CalendarType DEF RunCalendar
  <2>14. day \in SessionsUpTo(run.date)
    BY <2>5, <2>9, <2>10, <2>12 DEF SessionsUpTo, Calendar, Days
  <2>15. {d \in SessionsUpTo(run.date) : d > day}
           = {d \in RunCalendar : day < d /\ d <= run.date}
    BY <2>11, <2>13 DEF SessionsUpTo
  <2>16. day \in NewestSessions(run.date, WithinDays)
    BY <2>8, <2>14, <2>15 DEF NewestSessions, SessionsBetween
  <2> QED
    BY <2>1, <2>6, <2>9, <2>10, <2>16
<1> QED
  BY <1>1, MarketInvariant, RunsAreReproducible, PTL

-----------------------------------------------------------------------------
(* The account *)

\* Two sequences without a repetition and without a common element.
LEMMA Joined ==
  ASSUME NEW S, NEW T, S \cap T = {}, NEW p, NEW q, Enumerates(p, S), Enumerates(q, T)
  PROVE  Enumerates(p \o q, S \cup T)
<1>0. /\ p \in Seq(S) /\ {p[i] : i \in DOMAIN p} = S
      /\ q \in Seq(T) /\ {q[i] : i \in DOMAIN q} = T
      /\ \A i, j \in DOMAIN p : p[i] = p[j] => i = j
      /\ \A i, j \in DOMAIN q : q[i] = q[j] => i = j
  BY DEF Enumerates
<1> DEFINE w == p \o q
           m == Len(p)
           n == Len(q)
<1>1. /\ m \in Nat /\ n \in Nat /\ DOMAIN p = 1..m /\ DOMAIN q = 1..n
      /\ w \in Seq(S \cup T) /\ Len(w) = m + n
  BY <1>0
<1>2. DOMAIN w = 1..(m + n)
  BY <1>1
<1>3. \A i \in 1..m : w[i] = p[i] /\ p[i] \in S
  BY <1>0
<1>4. ASSUME NEW i \in 1..(m + n), i > m
      PROVE  w[i] = q[i - m] /\ i - m \in 1..n /\ q[i - m] \in T
  BY <1>0, <1>1, <1>4
<1>5. \A i \in 1..n : i + m \in 1..(m + n) /\ w[i + m] = q[i]
  BY <1>0, <1>1
<1> HIDE DEF w, m, n
<1>6. ASSUME NEW i \in 1..(m + n), NEW j \in 1..(m + n), w[i] = w[j] PROVE i = j
  <2>1. CASE i <= m /\ j <= m
    <3>1. i \in 1..m /\ j \in 1..m
      BY <1>1, <2>1
    <3>2. i \in DOMAIN p /\ j \in DOMAIN p /\ p[i] = p[j]
      BY <1>1, <1>3, <1>6, <3>1
    <3> QED
      BY <1>0, <3>2
  <2>2. CASE i > m /\ j > m
    <3>1. i - m = j - m
      BY <1>0, <1>1, <1>4, <1>6, <2>2
    <3> QED
      BY <1>1, <3>1
  <2>3. CASE i <= m /\ j > m
    <3>1. w[i] \in S /\ w[j] \in T
      BY <1>1, <1>3, <1>4, <2>3
    <3> QED
      BY <1>6, <3>1
  <2>4. CASE i > m /\ j <= m
    <3>1. w[i] \in T /\ w[j] \in S
      BY <1>1, <1>3, <1>4, <2>4
    <3> QED
      BY <1>6, <3>1
  <2> QED
    BY <1>1, <2>1, <2>2, <2>3, <2>4
<1>7. ASSUME NEW x PROVE x \in {w[i] : i \in DOMAIN w} <=> x \in S \cup T
  <2>1. ASSUME NEW i \in 1..(m + n) PROVE w[i] \in S \cup T
    BY <1>1, <1>3, <1>4
  <2>2. ASSUME x \in S PROVE x \in {w[i] : i \in DOMAIN w}
    <3>1. PICK i \in DOMAIN p : p[i] = x
      BY <1>0, <2>2
    <3>2. i \in 1..m /\ i \in DOMAIN w
      BY <1>1, <1>2
    <3> QED
      BY <1>3, <3>1, <3>2
  <2>3. ASSUME x \in T PROVE x \in {w[i] : i \in DOMAIN w}
    <3>1. PICK i \in DOMAIN q : q[i] = x
      BY <1>0, <2>3
    <3> QED
      BY <1>1, <1>2, <1>5, <3>1
  <2> QED
    BY <1>2, <2>1, <2>2, <2>3
<1>8. {w[i] : i \in DOMAIN w} = S \cup T
  BY <1>7
<1> QED
  BY <1>1, <1>2, <1>6, <1>8 DEF w, Enumerates

\* Two sets whose elements correspond to each other one to one.
LEMMA SameNumber ==
  ASSUME NEW S, IsFiniteSet(S), NEW T, NEW f, \A x \in S : f[x] \in T,
         \A x, y \in S : f[x] = f[y] => x = y, \A z \in T : \E x \in S : f[x] = z
  PROVE  Cardinality(S) = Cardinality(T)
<1> DEFINE g == [x \in S |-> f[x]]
<1>1. g \in Injection(S, T) /\ g \in Surjection(S, T)
  BY DEF Injection, IsInjective, Surjection
<1> HIDE DEF g
<1> QED
  BY <1>1, FS_Surjection

\* The rows of the account are the candidates, one to one and symbol by symbol.
RowsAreCandidates(account) ==
  /\ account \in Seq(Assessments)
  /\ \A i \in DOMAIN account : /\ account[i].entry \in Entries
                               /\ account[i].symbol = run.candidates[account[i].entry]
  /\ \A i, j \in DOMAIN account : account[i].entry = account[j].entry => i = j
  /\ \A k \in Entries : \E i \in DOMAIN account : account[i].entry = k

LEMMA RowsCounted ==
  ASSUME NEW account, RowsAreCandidates(account), run.candidates \in Seq(Symbols)
  PROVE  /\ Len(account) = Len(run.candidates)
         /\ \A s \in Symbols :
              Cardinality({i \in DOMAIN account : account[i].symbol = s})
                = Cardinality({k \in DOMAIN run.candidates : run.candidates[k] = s})
<1> DEFINE place == [i \in DOMAIN account |-> account[i].entry]
<1>1. /\ \A i \in DOMAIN account : /\ place[i] \in Entries
                                   /\ account[i].symbol = run.candidates[place[i]]
      /\ \A i, j \in DOMAIN account : place[i] = place[j] => i = j
      /\ \A k \in Entries : \E i \in DOMAIN account : place[i] = k
  BY DEF RowsAreCandidates
<1>2. /\ DOMAIN account = 1..Len(account) /\ Len(account) \in Nat
      /\ Entries = 1..Len(run.candidates) /\ Len(run.candidates) \in Nat
  BY DEF RowsAreCandidates, Entries
<1> HIDE DEF place
<1>3. /\ IsFiniteSet(DOMAIN account) /\ Cardinality(DOMAIN account) = Len(account)
      /\ Cardinality(Entries) = Len(run.candidates)
  <2>1. \A n \in Nat : IsFiniteSet(1..n) /\ Cardinality(1..n) = n
    BY FS_Interval
  <2> QED
    BY <1>2, <2>1
<1>4. Cardinality(DOMAIN account) = Cardinality(Entries)
  <2> DEFINE D == DOMAIN account
  <2>1. /\ IsFiniteSet(D) /\ \A i \in D : place[i] \in Entries
        /\ \A i, j \in D : place[i] = place[j] => i = j
        /\ \A k \in Entries : \E i \in D : place[i] = k
    BY <1>1, <1>3
  <2> HIDE DEF D
  <2>2. Cardinality(D) = Cardinality(Entries)
    BY <2>1, SameNumber
  <2> QED
    BY <2>2 DEF D
<1>5. ASSUME NEW s \in Symbols
      PROVE  Cardinality({i \in DOMAIN account : account[i].symbol = s})
               = Cardinality({k \in Entries : run.candidates[k] = s})
  <2> DEFINE A == {i \in DOMAIN account : account[i].symbol = s}
             C == {k \in Entries : run.candidates[k] = s}
  <2>1. /\ \A i \in A : place[i] \in C
        /\ \A i, j \in A : place[i] = place[j] => i = j
        /\ \A k \in C : \E i \in A : place[i] = k
    BY <1>1
  <2>2. IsFiniteSet(A)
    BY <1>3, FS_Subset
  <2> HIDE DEF A, C
  <2>3. Cardinality(A) = Cardinality(C)
    BY <2>1, <2>2, SameNumber
  <2> QED
    BY <2>3 DEF A, C
<1> QED
  BY <1>3, <1>4, <1>5 DEF Entries

\* However often the caller gives a symbol, the exported account has a row for each
\* time, whatever happened to it: excluded with a reason, or ranked at a row on or
\* before the run date.
THEOREM AccountIsComplete == Spec => []CompleteAccount
<1>1. ASSUME MarketInv, Reproducible PROVE CompleteAccount
  <2> SUFFICES ASSUME run # NoRun PROVE CompleteAccount
    BY DEF CompleteAccount
  <2> DEFINE p == SortedBy(Ranked, RanksBefore)
             q == SortedBy(Refused, BySymbol)
             account == p \o q
  <2>1. Exported(run.output) = account
    BY <1>1, OutputOfRun DEF Exported
  <2>2. Sorted(RankOrder, Ranked, p) /\ Orders(RankOrder, Ranked)
    BY <1>1, RankedSorted
  <2>3. Sorted(SymbolOrder, Refused, q) /\ Orders(SymbolOrder, Refused)
    BY <1>1, RefusedSorted
  <2> HIDE DEF p, q
  <2>4. Enumerates(p, Ranked)
    BY <1>1, <2>2, AssessmentsFinite, SortedEnumerates
  <2>5. Enumerates(q, Refused)
    BY <1>1, <2>3, AssessmentsFinite, SortedEnumerates
  <2>6. Ranked \cap Refused = {} /\ Ranked \cup Refused = Assessments
    BY DEF Ranked, Refused
  <2>7. Enumerates(account, Assessments)
    <3>1. Enumerates(account, Ranked \cup Refused)
      BY <2>4, <2>5, <2>6, Joined
    <3> QED
      BY <2>6, <3>1
  <2> HIDE DEF account
  <2>8. /\ account \in Seq(Assessments)
        /\ \A i, j \in DOMAIN account : account[i] = account[j] => i = j
        /\ \A a \in Assessments : \E i \in DOMAIN account : account[i] = a
    BY <2>7 DEF Enumerates
  <2>9. \A i \in DOMAIN account : account[i] \in Assessments
    BY <2>8
  <2>10. ASSUME NEW k \in Entries
         PROVE  /\ AssessmentOf(k).entry = k
                /\ AssessmentOf(k).symbol = run.candidates[k]
    BY <1>1, AssessmentFacts DEF AccountsFor, Accounts
  <2>11. RowsAreCandidates(account)
    <3>1. ASSUME NEW i \in DOMAIN account
          PROVE  /\ account[i].entry \in Entries
                 /\ account[i].symbol = run.candidates[account[i].entry]
      BY <2>9, <2>10 DEF Assessments
    <3>2. \A i, j \in DOMAIN account : account[i].entry = account[j].entry => i = j
      BY <1>1, <2>8, <2>9, CandidatesApart
    <3>3. ASSUME NEW k \in Entries PROVE \E i \in DOMAIN account : account[i].entry = k
      <4>1. AssessmentOf(k) \in Assessments
        BY DEF Assessments
      <4> QED
        BY <2>8, <2>10, <4>1
    <3> QED
      BY <2>8, <3>1, <3>2, <3>3 DEF RowsAreCandidates
  <2>12. ASSUME NEW a \in Assessments
         PROVE  \/ ~a.included /\ a.failed # {}
                \/ /\ a.included
                   /\ a.score \in 0..6
                   /\ a.signal \in {"entry", "entry_blocked", "unavailable", "none"}
                   /\ rows[a.symbol][a.index].day <= run.date
    <3>1. PICK k \in Entries : a = AssessmentOf(k)
      BY DEF Assessments
    <3> DEFINE s == run.candidates[k]
    <3>2. AccountsFor(a, k, s)
      BY <1>1, <3>1, AssessmentFacts
    <3> HIDE DEF s
    <3> QED
      BY <3>2, EntryIsFullScore DEF AccountsFor, Accounts
  <2>13. run.candidates \in Seq(Symbols)
    BY <1>1 DEF MarketInv
  <2> QED
    BY <2>1, <2>9, <2>11, <2>12, <2>13, RowsCounted DEF CompleteAccount
<1> QED
  BY <1>1, MarketInvariant, RunsAreReproducible, PTL
=============================================================================
