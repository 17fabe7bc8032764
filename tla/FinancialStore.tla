---------------------------- MODULE FinancialStore ----------------------------
(***************************************************************************)
(* The append-only store of financial observations (backend/app/data/      *)
(* fundamentals): ingestions fetch the statements of one symbol from a     *)
(* provider that restates them, derive standalone quarters, give them      *)
(* versions and append them; backtests read what was known on a day.       *)
(*                                                                         *)
(* A step is one fetch, one query or one transaction of the database.      *)
(* The figures are the cumulative ones of one fiscal year; a statement     *)
(* whose figures are standalone is stored as it comes, like the            *)
(* cumulative rows here.                                                   *)
(***************************************************************************)
EXTENDS Integers, Sequences, FiniteSets

CONSTANTS
  Ingestors,    \* threads that run FinancialRefreshPipeline
  Statements,   \* one metric of one statement type each
  Versioned,    \* statements whose schema has a restatement version column
  NoOfQuarters, \* quarters of the fiscal year
  Values,       \* figures a provider reports
  MaxVersion,   \* bound: versions a provider gives
  MaxDay,       \* bound: publication days
  Feeds,        \* per statement, the answers the provider may give: sets of reports
  MaxFetches    \* bound: fetches

Quarters == 1..NoOfQuarters
Days     == 1..MaxDay
NoDate   == 0
Bases    == {"standalone", "cumulative"}
Series   == Statements \X Quarters \X Bases

\* A row of a provider's answer.
Report == [quarter : Quarters, value : Values, pub : {NoDate} \cup Days, version : 1..MaxVersion]

ASSUME Bounds == /\ NoOfQuarters \in 1..4 /\ MaxVersion \in Nat \ {0}
                 /\ MaxDay \in Nat \ {0} /\ MaxFetches \in Nat

\* A quarter has one row of a version, and without a version column the version is 1.
ASSUME Provider ==
  /\ Values \subseteq Int /\ Versioned \subseteq Statements
  /\ \A st \in Statements : \A reports \in Feeds[st] :
       /\ reports \subseteq Report
       /\ \A r, t \in reports : r.quarter = t.quarter /\ r.version = t.version => r = t
       /\ st \notin Versioned => \A r \in reports : r.version = 1

VARIABLES
  table,        \* per series, its rows by version: see Row
  at,           \* per ingestor: "idle", "read", "append", "batch" or "done"
  job,          \* per ingestor, the locals of its ingestion: see NoJob
  fetches,      \* number of fetches so far
  alone         \* history: per ingestor, no other ingestion since its fetch

vars == <<table, at, job, fetches, alone>>

Figures == Values \cup {a - b : a, b \in Values}

\* A row, less the columns that identify it.  inputs is not stored: it tells the
\* publication dates of the reports the value was made from.
Row == [value : Figures, pub : {NoDate} \cup Days, inputs : SUBSET ({NoDate} \cup Days)]

\* _semantic_payload: what makes two rows of one version the same.
Payload(row) == <<row.value, row.pub>>

\* An observation of a batch, under the version the provider gave it.
Item == [series : Series, version : 1..MaxVersion, row : Row]

\* items: the batch; todo: what is left of it; version: the one chosen for the next.
NoJob == [items |-> {}, todo |-> {}, version |-> 0]

-----------------------------------------------------------------------------
Init ==
  /\ table = [s \in Series |-> <<>>]
  /\ at = [i \in Ingestors |-> "idle"] /\ job = [i \in Ingestors |-> NoJob]
  /\ fetches = 0 /\ alone = [i \in Ingestors |-> FALSE]

-----------------------------------------------------------------------------
(* normalize_observations and derive_standalone_quarters *)

\* The cumulative rows as they come.
Cumulative(st, r) ==
  [series |-> <<st, r.quarter, "cumulative">>, version |-> r.version,
   row |-> [value |-> r.value, pub |-> r.pub, inputs |-> {r.pub}]]

\* The row of the quarter before, in the same version.
Prior(reports, r) == {p \in reports : p.quarter = r.quarter - 1 /\ p.version = r.version}

\* The first quarter is standalone as it is; a later one needs the one before it.
Standalone(st, reports, r) ==
  LET derived(value, inputs) ==
        [series |-> <<st, r.quarter, "standalone">>, version |-> r.version,
         row |-> [value |-> value, pub |-> r.pub, inputs |-> inputs]]
  IN  IF r.quarter = 1 THEN {derived(r.value, {r.pub})}
      ELSE {derived(r.value - p.value, {r.pub, p.pub}) : p \in Prior(reports, r)}

Batch(st, reports) ==
  UNION {{Cumulative(st, r)} \cup Standalone(st, reports, r) : r \in reports}

\* The batch is sorted by quarter, then metric code.
Rank(item) == 2 * item.series[2] + (IF item.series[3] = "cumulative" THEN 1 ELSE 0)

IsNext(todo, item) == item \in todo /\ \A other \in todo : Rank(item) <= Rank(other)

-----------------------------------------------------------------------------
(* The store *)

Newest(rows) == CHOOSE v \in DOMAIN rows : \A w \in DOMAIN rows : w <= v

With(rows, v, row) == [w \in DOMAIN rows \cup {v} |-> IF w = v THEN row ELSE rows[w]]

\* Mutant: the row replaces what is stored under its version.
ConflictNever(rows, v, row) == FALSE

\* FinancialDataConflict: the version is taken by another content.
Conflict(rows, v, row) == v \in DOMAIN rows /\ Payload(rows[v]) # Payload(row)

\* The rows after an append; a duplicate leaves the stored row.
Appended(rows, v, row) ==
  IF v \in DOMAIN rows /\ Payload(rows[v]) = Payload(row) THEN rows ELSE With(rows, v, row)

\* Mutant: versions count from 0.
NextVersionFromZero(rows) == IF DOMAIN rows = {} THEN 0 ELSE Newest(rows) + 1

NextVersion(rows) == IF DOMAIN rows = {} THEN 1 ELSE Newest(rows) + 1

\* Mutant: a content that some version already had is a duplicate.
StoredBefore(rows, row) == \E v \in DOMAIN rows : Payload(rows[v]) = Payload(row)

\* The newest version has the same content.
Stored(rows, row) == DOMAIN rows # {} /\ Payload(rows[Newest(rows)]) = Payload(row)

-----------------------------------------------------------------------------
(* An ingestion *)

\* One fetch of one statement.  The jobs of a refresh_symbol call follow each other
\* and share nothing but counters.
Fetch(i, st, reports) ==
  LET batch == Batch(st, reports)
  IN  /\ at[i] = "idle" /\ fetches < MaxFetches /\ fetches' = fetches + 1
      /\ job' = [job EXCEPT ![i] = [NoJob EXCEPT !.items = batch, !.todo = batch]]
      /\ at' = [at EXCEPT ![i] = IF st \in Versioned THEN "batch"
                                 ELSE IF batch = {} THEN "done" ELSE "read"]
      /\ alone' = [j \in Ingestors |-> j = i /\ \A k \in Ingestors \ {i} : at[k] = "idle"]
      /\ UNCHANGED table

\* append: one transaction for the batch, which a conflict rolls back.
AppendBatch(i) ==
  /\ at[i] = "batch"
  /\ \A item \in job[i].items : ~Conflict(table[item.series], item.version, item.row)
  /\ table' = [s \in Series |->
       LET new == {item \in job[i].items : item.series = s /\ item.version \notin DOMAIN table[s]}
       IN  [v \in DOMAIN table[s] \cup {item.version : item \in new} |->
              IF v \in DOMAIN table[s] THEN table[s][v]
              ELSE (CHOOSE item \in new : item.version = v).row]]
  /\ at' = [at EXCEPT ![i] = "done"]
  /\ UNCHANGED <<job, fetches, alone>>

\* append_locally_versioned compares the next item with the newest row of its series,
\* in a connection of its own.
ReadLatest(i) ==
  /\ at[i] = "read"
  /\ \E item \in job[i].todo :
       /\ IsNext(job[i].todo, item)
       /\ LET rows == table[item.series]
              rest == job[i].todo \ {item}
          IN  IF Stored(rows, item.row)
              THEN /\ job' = [job EXCEPT ![i].todo = rest]
                   /\ at' = [at EXCEPT ![i] = IF rest = {} THEN "done" ELSE "read"]
              ELSE /\ job' = [job EXCEPT ![i].version = NextVersion(rows)]
                   /\ at' = [at EXCEPT ![i] = "append"]
  /\ UNCHANGED <<table, fetches, alone>>

\* Then it appends the item under that version, in a transaction of its own.
AppendOne(i) ==
  /\ at[i] = "append"
  /\ \E item \in job[i].todo :
       /\ IsNext(job[i].todo, item)
       /\ LET rows == table[item.series]
              v    == job[i].version
              rest == job[i].todo \ {item}
          IN  /\ ~Conflict(rows, v, item.row)
              /\ table' = [table EXCEPT ![item.series] = Appended(rows, v, item.row)]
              /\ job' = [job EXCEPT ![i].todo = rest]
              /\ at' = [at EXCEPT ![i] = IF rest = {} THEN "done" ELSE "read"]
  /\ UNCHANGED <<fetches, alone>>

\* A conflict, or any other exception: what was committed stays.
Raise(i) ==
  /\ at[i] \in {"read", "append", "batch"}
  /\ at' = [at EXCEPT ![i] = "idle"] /\ job' = [job EXCEPT ![i] = NoJob]
  /\ alone' = [alone EXCEPT ![i] = FALSE]
  /\ UNCHANGED <<table, fetches>>

Return(i) ==
  /\ at[i] = "done"
  /\ at' = [at EXCEPT ![i] = "idle"] /\ job' = [job EXCEPT ![i] = NoJob]
  /\ alone' = [alone EXCEPT ![i] = FALSE]
  /\ UNCHANGED <<table, fetches>>

Next ==
  \E i \in Ingestors :
    \/ \E st \in Statements : \E reports \in Feeds[st] : Fetch(i, st, reports)
    \/ AppendBatch(i) \/ ReadLatest(i) \/ AppendOne(i) \/ Raise(i) \/ Return(i)

Spec == Init /\ [][Next]_vars

-----------------------------------------------------------------------------
(* Properties *)

Job == [items : SUBSET Item, todo : SUBSET Item, version : Nat]

TypeOK ==
  /\ table = [s \in Series |-> table[s]]
  /\ \A s \in Series : /\ DOMAIN table[s] \subseteq Nat \ {0}
                       /\ table[s] \in [DOMAIN table[s] -> Row]
  /\ at \in [Ingestors -> {"idle", "read", "append", "batch", "done"}]
  /\ job \in [Ingestors -> Job]
  /\ fetches \in 0..MaxFetches /\ alone \in [Ingestors -> BOOLEAN]

\* However ingestions interleave and fail, a figure without provider versions has the
\* versions 1, 2, ..., n, none of which changes, repeats the one before it or gets lost.
LocalSeries == {s \in Series : s[1] \notin Versioned}

History(rows) == [v \in DOMAIN rows |-> Payload(rows[v])]

LogOf == [s \in LocalSeries |-> History(table[s])]

Log == INSTANCE VersionedSeries
  WITH Series <- LocalSeries, Contents <- Figures \X ({NoDate} \cup Days), log <- LogOf

KeepsVersions == Log!Spec

\* get_for_backtest: the newest of the versions published by day d, 0 for none.
KnownBy(rows, d) == {v \in DOMAIN rows : rows[v].pub # NoDate /\ rows[v].pub <= d}

AsOf(rows, d) ==
  IF KnownBy(rows, d) = {} THEN 0
  ELSE CHOOSE v \in KnownBy(rows, d) : \A w \in KnownBy(rows, d) : w <= v

\* What a backtest sees as known on a day is only ever replaced by a newer version:
\* a repeated backtest loses nothing and finds the same row under the same version.
ViewsOnlyAdvance ==
  [][\A s \in Series, d \in Days :
       LET before == AsOf(table[s], d)
           after  == AsOf(table'[s], d)
       IN  /\ after >= before
           /\ before # 0 /\ after = before => table'[s][after] = table[s][before]]_vars

\* An observation is in the store: as the newest one, or under its own version.
Landed(item) ==
  LET rows == table[item.series]
  IN  /\ DOMAIN rows # {}
      /\ LET v == IF item.series \in LocalSeries THEN Newest(rows) ELSE item.version
         IN  v \in DOMAIN rows /\ Payload(rows[v]) = Payload(item.row)

\* An ingestion that ran to its end without another one leaves the store with what it
\* fetched, the derived quarters with the rest, whatever earlier ones left half done.
LoneIngestionLands ==
  \A i \in Ingestors : at[i] = "done" /\ alone[i] => \A item \in job[i].items : Landed(item)

-----------------------------------------------------------------------------
(* What the documents say and the code does not do *)

\* fundamentals/DESIGN.md: "Missing or future publication metadata must never leak into
\* a historical run."  What a backtest sees on a day was made from reports of that day or
\* earlier ones.
NoLookAhead ==
  \A s \in Series, d \in Days :
    AsOf(table[s], d) # 0 =>
      \A p \in table[s][AsOf(table[s], d)].inputs : p # NoDate /\ p <= d
=============================================================================
