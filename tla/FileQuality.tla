---------------------------- MODULE FileQuality ----------------------------
(***************************************************************************)
(* The content of the FData files through the refreshes: the parser's      *)
(* checks (fdata/parser.py), the quality checks (quality/checks.py), what  *)
(* of a file becomes bars of the snapshot (storage/snapshots.py) and the   *)
(* count of historical revisions against the snapshot that is served       *)
(* (pipeline.py).  FData may rewrite, damage, mend or remove any file      *)
(* between two refreshes.  A refresh is one step here: its interleaving    *)
(* with writers and readers is DataRefresh's subject.                      *)
(***************************************************************************)
EXTENDS Integers, Sequences, FiniteSetsExt

CONSTANTS Symbols,      \* the stock files' symbols; the other categories have files
          FilesOf,      \* what FData may write for a symbol
          References,   \* symbols with an authoritative security reference
          ValidDates,   \* the date codes of calendar days, ordered like the days
          TerminalRun,  \* zero-volume records at the end that are flagged (5)
          NaN,          \* a float that is not finite
          NoFile,       \* the file does not exist
          NoBar         \* the symbol had no bar on that day

\* A price is the record's four prices, ordered by size: `inside` tells whether
\* low <= open, close <= high.  A volume counts halves of a share.
IsRow(row) == /\ row.code \in Nat
              /\ row.price \in Int \cup {NaN}
              /\ row.inside \in BOOLEAN
              /\ row.volume \in Int \cup {NaN}

IsFile(f) == /\ f.torn \in BOOLEAN
             /\ f.header \in Nat
             /\ Len(f.rows) > 0
             /\ \A i \in DOMAIN f.rows : IsRow(f.rows[i])

ASSUME FilesAssumption == \A s \in Symbols : \A f \in FilesOf[s] : IsFile(f)
ASSUME DatesAssumption == /\ IsFiniteSet(ValidDates)
                          /\ ValidDates \subseteq Nat
                          /\ References \subseteq Symbols
                          /\ TerminalRun \in Nat \ {0}

VARIABLES source,     \* FData's file of each symbol
          served,     \* bars of each symbol in the current snapshot, by day
          status,     \* the quality_status its bars carry
          revisions,  \* the historical revisions the snapshot records for it
          outcome,    \* how the last refresh ended
          lastServed  \* the bar last served for each symbol and day
vars == <<source, served, status, revisions, outcome, lastServed>>

Rows(f) == {f.rows[i] : i \in DOMAIN f.rows}
Dated(f) == {row \in Rows(f) : row.code \in ValidDates}

-----------------------------------------------------------------------------
\* The parser

Torn(f) == f.torn
HeaderMismatch(f) == f.header # Len(f.rows)
InvalidDate(f) == \E row \in Rows(f) : row.code \notin ValidDates
DuplicateDate(f) ==
  \E i \in 2..Len(f.rows) : f.rows[i].code = f.rows[i - 1].code
NotIncreasing(f) ==
  \E i \in 2..Len(f.rows) : f.rows[i].code <= f.rows[i - 1].code

\* Mutant: disorder of the dates is only an issue of high severity.
QuarantinedUnlessOutOfOrder(f) == Torn(f) \/ HeaderMismatch(f) \/ InvalidDate(f)

Quarantined(f) == \/ Torn(f) \/ HeaderMismatch(f) \/ InvalidDate(f)
                  \/ DuplicateDate(f) \/ NotIncreasing(f)

ParserIssues(f) ==
  {i \in {"critical"} : Torn(f) \/ HeaderMismatch(f) \/ InvalidDate(f)} \cup
  {i \in {"high"} : DuplicateDate(f) \/ NotIncreasing(f)}

-----------------------------------------------------------------------------
\* The quality checks

NonPositivePrice(f) == \E row \in Rows(f) : row.price = NaN \/ row.price <= 0
OhlcViolation(f) == \E row \in Rows(f) : row.price # NaN /\ ~row.inside
InvalidVolume(f) == \E row \in Rows(f) : row.volume = NaN \/ row.volume < 0

TerminalZeros(f) ==
  /\ Len(f.rows) >= TerminalRun
  /\ \A i \in (Len(f.rows) - TerminalRun + 1)..Len(f.rows) : f.rows[i].volume = 0

Stale(f, day) == \A row \in Dated(f) : row.code < day

\* assess_file: the severities of the file's issues.
Issues(s, f, day, revised) ==
  ParserIssues(f) \cup
  {i \in {"critical"} : NonPositivePrice(f) \/ InvalidVolume(f)} \cup
  {i \in {"high"} : OhlcViolation(f) \/ s \notin References} \cup
  {i \in {"medium"} : TerminalZeros(f) \/ Stale(f, day)} \cup
  {i \in {"low"} : revised > 0}

Rank == [critical |-> 4, high |-> 3, medium |-> 2, low |-> 1, valid |-> 0]
Worst(issues) ==
  CHOOSE i \in issues \cup {"valid"} : \A j \in issues : Rank[i] >= Rank[j]

-----------------------------------------------------------------------------
\* Bars and revisions

\* round(): to the nearest whole share, a half to the even one.
Rounded(volume) ==
  LET down == volume \div 2
  IN  IF volume % 2 = 0 \/ down % 2 = 0 THEN down ELSE down + 1

BarOf(row) == [price |-> row.price, inside |-> row.inside, volume |-> Rounded(row.volume)]

\* The rows stage_prehashed writes to the symbol's Parquet file.
Staged(f) == [i \in DOMAIN f.rows |-> [date |-> f.rows[i].code, bar |-> BarOf(f.rows[i])]]

BarServed(bars, day) ==
  IF \E i \in DOMAIN bars : bars[i].date = day
  THEN LET i == CHOOSE i \in DOMAIN bars : bars[i].date = day IN bars[i].bar
  ELSE NoBar

\* Mutant: the raw volume is compared with the one that is served.
RevisedUnrounded(s, f) ==
  {i \in DOMAIN f.rows : LET row == f.rows[i] IN
     /\ served[s] # <<>>
     /\ row.code \in ValidDates
     /\ BarServed(served[s], row.code) # NoBar
     /\ \/ BarServed(served[s], row.code) # BarOf(row)
        \/ row.volume # 2 * BarServed(served[s], row.code).volume}

\* _count_historical_revisions: records whose day is in the previous snapshot
\* with another bar.  Every dated record's volume is rounded on the way.
Revised(s, f) ==
  {i \in DOMAIN f.rows : LET row == f.rows[i] IN
     /\ served[s] # <<>>
     /\ row.code \in ValidDates
     /\ BarServed(served[s], row.code) \notin {NoBar, BarOf(row)}}
RevisionCount(s, f) == Cardinality(Revised(s, f))

\* round() raises on a float that is not finite.
CountRaises(s, f) == /\ served[s] # <<>>
                     /\ \E row \in Dated(f) : row.volume = NaN

-----------------------------------------------------------------------------
Init == /\ source \in [Symbols -> {NoFile}]
        /\ served = [s \in Symbols |-> <<>>]
        /\ status = [s \in Symbols |-> "valid"]
        /\ revisions = [s \in Symbols |-> 0]
        /\ outcome = "none"
        /\ lastServed = [s \in Symbols |-> [d \in ValidDates |-> NoBar]]

\* FData writes, damages, mends or removes a file.
FDataWrites(s) ==
  /\ \E f \in FilesOf[s] \cup {NoFile} : source' = [source EXCEPT ![s] = f]
  /\ UNCHANGED <<served, status, revisions, outcome, lastServed>>

Discovered == {s \in Symbols : source[s] # NoFile}

\* A file that is not finite where a revision is counted ends the whole refresh.
RefreshFails ==
  /\ \E s \in Discovered : CountRaises(s, source[s])
  /\ outcome' = "failed"
  /\ UNCHANGED <<source, served, status, revisions, lastServed>>

\* No file of a category: the candidate is not promoted.
RefreshIsRefused ==
  /\ Discovered = {}
  /\ outcome' = "refused"
  /\ UNCHANGED <<source, served, status, revisions, lastServed>>

IssuesOf(s, day) == Issues(s, source[s], day, RevisionCount(s, source[s]))
Excluded(s, day) == Quarantined(source[s]) \/ "critical" \in IssuesOf(s, day)

\* The bars of every file that is not excluded replace the snapshot's.
RefreshIsPromoted(day) ==
  LET kept == {s \in Discovered : ~Excluded(s, day)} IN
  /\ Discovered # {}
  /\ \A s \in Discovered : ~CountRaises(s, source[s])
  /\ served' = [s \in Symbols |-> IF s \in kept THEN Staged(source[s]) ELSE <<>>]
  /\ status' = [s \in Symbols |->
       IF s \in Discovered THEN Worst(IssuesOf(s, day)) ELSE "valid"]
  /\ revisions' = [s \in Symbols |->
       IF s \in Discovered THEN RevisionCount(s, source[s]) ELSE 0]
  /\ outcome' = "promoted"
  /\ lastServed' = [s \in Symbols |-> [d \in ValidDates |->
       IF BarServed(served'[s], d) = NoBar THEN lastServed[s][d]
       ELSE BarServed(served'[s], d)]]
  /\ UNCHANGED source

Next == \/ \E s \in Symbols : FDataWrites(s)
        \/ RefreshFails
        \/ RefreshIsRefused
        \/ \E day \in ValidDates : RefreshIsPromoted(day)

Spec == Init /\ [][Next]_vars

-----------------------------------------------------------------------------
\* Whatever FData does to the files, the bars that are served lie on calendar
\* days in strictly increasing order, with positive prices and a volume that
\* is not negative, and none carries the status critical (HANDOFF.md:197).
\* The checks are made of the whole file by two modules and the bars are
\* written by a third.
ServedIsSound ==
  \A s \in Symbols : served[s] # <<>> =>
    /\ status[s] # "critical"
    /\ \A i \in DOMAIN served[s] :
         /\ served[s][i].date \in ValidDates
         /\ served[s][i].bar.price # NaN /\ served[s][i].bar.price > 0
         /\ served[s][i].bar.volume >= 0
         /\ i > 1 => served[s][i].date > served[s][i - 1].date

\* The revisions a snapshot records for a symbol are the days whose served bar
\* it changed against the snapshot before: the count is made of the raw file,
\* before staging rounds the volumes, yet agrees with what is staged.
ChangedDays(s) ==
  {d \in ValidDates : /\ BarServed(served[s], d) # NoBar
                      /\ BarServed(served'[s], d) \notin {NoBar, BarServed(served[s], d)}}
RevisionsRecorded ==
  [][served' # served =>
       \A s \in Symbols : served'[s] # <<>> => revisions'[s] = Cardinality(ChangedDays(s))]_vars

\* VIOLATED.  "13. Historical revisions are recorded." (development_plan.md:975):
\* when a served day's bar differs from the one last served for that day, the
\* snapshot records a revision.  A file that was excluded or absent for one
\* refresh is compared with nothing when it comes back.
NoSilentRevision ==
  [][served' # served =>
       \A s \in Symbols, d \in ValidDates :
         (/\ lastServed[s][d] # NoBar
          /\ BarServed(served'[s], d) \notin {NoBar, lastServed[s][d]})
           => revisions'[s] > 0]_vars

\* VIOLATED.  "Critical data anomalies are quarantined" (HANDOFF.md:197): an
\* anomaly of one file excludes that file and never ends the refresh of all.
AnomaliesAreQuarantined == outcome # "failed"
=============================================================================
