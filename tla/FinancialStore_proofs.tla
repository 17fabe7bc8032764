------------------------ MODULE FinancialStore_proofs -------------------------
(***************************************************************************)
(* Theorems about FinancialStore: type correctness, the refinement of      *)
(* VersionedSeries, the view of a backtest, and what a lone ingestion      *)
(* leaves in the store.                                                    *)
(***************************************************************************)
EXTENDS FinancialStore, SequenceTheorems, WellFoundedInduction, TLAPS

\* A locally versioned series is a sequence of rows, the others have the versions of
\* the provider.
TableInv ==
  \A s \in Series : IF s \in LocalSeries THEN table[s] \in Seq(Row)
                    ELSE DOMAIN table[s] \subseteq 1..MaxVersion

\* What one ingestion appends: local and provider versions do not mix, and a batch has
\* one row of a series and version.
BatchInv ==
  \A i \in Ingestors :
    /\ job[i].todo \subseteq job[i].items
    /\ at[i] \in {"read", "append"} =>
         /\ \A a \in job[i].items : a.series \in LocalSeries
         /\ \A a, b \in job[i].items : Rank(a) = Rank(b) => a = b
    /\ at[i] = "batch" =>
         /\ \A a \in job[i].items : a.series \notin LocalSeries
         /\ \A a, b \in job[i].items : a.series = b.series /\ a.version = b.version => a = b

\* A chosen version is taken already, or it is the next one and differs from the last.
ChoiceInv ==
  \A i \in Ingestors : at[i] = "append" =>
    \A item \in job[i].todo : IsNext(job[i].todo, item) =>
      LET rows == table[item.series]
          n    == Len(rows)
      IN  /\ job[i].version \in 1..(n + 1)
          /\ job[i].version = n + 1 /\ n # 0 => Payload(rows[n]) # Payload(item.row)

StoreInv == TypeOK /\ TableInv /\ BatchInv /\ ChoiceInv

-----------------------------------------------------------------------------
(* Batches *)

LEMMA ReportType ==
  ASSUME NEW st \in Statements, NEW reports \in Feeds[st], NEW r \in reports
  PROVE  /\ r.quarter \in Quarters /\ r.value \in Values /\ r.value \in Int
         /\ r.pub \in {NoDate} \cup Days /\ r.version \in 1..MaxVersion
<1>1. reports \subseteq Report
  BY Provider
<1>2. r \in Report
  BY <1>1
<1>3. r.quarter \in Quarters /\ r.value \in Values /\ r.pub \in {NoDate} \cup Days
      /\ r.version \in 1..MaxVersion
  BY <1>2 DEF Report
<1>4. r.value \in Int
  BY <1>3, Provider
<1> QED BY <1>3, <1>4

\* The standalone row of a report, if it can be derived.
LEMMA StandaloneRow ==
  ASSUME NEW st \in Statements, NEW reports \in Feeds[st], NEW r \in reports,
         NEW a \in Standalone(st, reports, r)
  PROVE  /\ a.series = <<st, r.quarter, "standalone">> /\ a.version = r.version
         /\ a = [series |-> <<st, r.quarter, "standalone">>, version |-> r.version,
                 row |-> a.row]
         /\ a.row \in Row
         /\ \A b \in Standalone(st, reports, r) : b = a
<1>0. r.quarter \in Nat
  BY ReportType, Bounds DEF Quarters
<1>1. CASE r.quarter = 1
  BY <1>1, ReportType DEF Standalone, Row, Figures
<1>2. CASE r.quarter # 1
  <2> DEFINE D(p) == [series |-> <<st, r.quarter, "standalone">>, version |-> r.version,
                      row |-> [value |-> r.value - p.value, pub |-> r.pub,
                               inputs |-> {r.pub, p.pub}]]
  <2>1. Standalone(st, reports, r) = {D(p) : p \in Prior(reports, r)}
    BY <1>2 DEF Standalone
  <2>2. PICK p \in Prior(reports, r) : a = D(p)
    BY <2>1
  <2>3. p \in reports /\ \A q \in Prior(reports, r) : q = p
    BY Provider DEF Prior
  <2>4. a.row \in Row
    <3>1. r.value - p.value \in Figures
      BY <2>3, ReportType DEF Figures
    <3> QED BY <2>2, <2>3, <3>1, ReportType DEF Row
  <2>5. \A b \in Standalone(st, reports, r) : b = a
    BY <2>1, <2>2, <2>3
  <2> QED BY <2>2, <2>4, <2>5
<1> QED BY <1>1, <1>2

LEMMA BatchType ==
  ASSUME NEW st \in Statements, NEW reports \in Feeds[st]
  PROVE  Batch(st, reports) \subseteq Item
<1> SUFFICES ASSUME NEW r \in reports, NEW a \in {Cumulative(st, r)} \cup Standalone(st, reports, r)
             PROVE  a \in Item
  BY DEF Batch
<1>1. CASE a = Cumulative(st, r)
  BY <1>1, ReportType DEF Cumulative, Item, Series, Bases, Row, Figures
<1>2. CASE a \in Standalone(st, reports, r)
  <2>1. <<st, r.quarter, "standalone">> \in Series
    BY ReportType DEF Series, Bases
  <2> QED BY <1>2, <2>1, StandaloneRow, ReportType DEF Item
<1> QED BY <1>1, <1>2

\* A batch is of one statement and has one row of a quarter, a basis and a version.
LEMMA BatchUnique ==
  ASSUME NEW st \in Statements, NEW reports \in Feeds[st],
         NEW a \in Batch(st, reports), NEW b \in Batch(st, reports)
  PROVE  /\ a.series[1] = st
         /\ a.series[2] = b.series[2] /\ a.series[3] = b.series[3] /\ a.version = b.version
              => a = b
         /\ st \notin Versioned => a.version = 1
         /\ a.series[2] \in Nat /\ a.series[3] \in {"cumulative", "standalone"}
<1>1. \A c \in Batch(st, reports) : \E r \in reports :
        /\ c.series[1] = st /\ c.series[2] = r.quarter /\ c.version = r.version
        /\ \/ c = Cumulative(st, r) /\ c.series[3] = "cumulative"
           \/ c \in Standalone(st, reports, r) /\ c.series[3] = "standalone"
  <2> SUFFICES ASSUME NEW r \in reports, NEW c \in {Cumulative(st, r)} \cup Standalone(st, reports, r)
               PROVE  /\ c.series[1] = st /\ c.series[2] = r.quarter /\ c.version = r.version
                      /\ \/ c = Cumulative(st, r) /\ c.series[3] = "cumulative"
                         \/ c \in Standalone(st, reports, r) /\ c.series[3] = "standalone"
    BY DEF Batch
  <2>1. CASE c = Cumulative(st, r)
    BY <2>1 DEF Cumulative
  <2>2. CASE c \in Standalone(st, reports, r)
    BY <2>2, StandaloneRow
  <2> QED BY <2>1, <2>2
<1>2. PICK r \in reports :
        /\ a.series[1] = st /\ a.series[2] = r.quarter /\ a.version = r.version
        /\ \/ a = Cumulative(st, r) /\ a.series[3] = "cumulative"
           \/ a \in Standalone(st, reports, r) /\ a.series[3] = "standalone"
  BY <1>1
<1>3. PICK t \in reports :
        /\ b.series[1] = st /\ b.series[2] = t.quarter /\ b.version = t.version
        /\ \/ b = Cumulative(st, t) /\ b.series[3] = "cumulative"
           \/ b \in Standalone(st, reports, t) /\ b.series[3] = "standalone"
  BY <1>1
<1>4. ASSUME a.series[2] = b.series[2], a.series[3] = b.series[3], a.version = b.version
      PROVE  a = b
  <2>0. r.quarter = t.quarter /\ r.version = t.version
    BY <1>2, <1>3, <1>4
  <2>1. r = t
    BY <2>0, Provider
  <2> QED BY <1>2, <1>3, <1>4, <2>1, StandaloneRow
<1>5. st \notin Versioned => a.version = 1
  BY <1>2, Provider
<1>6. r.quarter \in Nat
  BY ReportType, Bounds DEF Quarters
<1> QED BY <1>2, <1>4, <1>5, <1>6

\* The sort order of a batch tells its quarters and bases apart.
LEMMA RankUnique ==
  ASSUME NEW a, NEW b, a.series[2] \in Nat, b.series[2] \in Nat,
         a.series[3] \in {"cumulative", "standalone"},
         b.series[3] \in {"cumulative", "standalone"}, Rank(a) = Rank(b)
  PROVE  a.series[2] = b.series[2] /\ a.series[3] = b.series[3]
BY DEF Rank

-----------------------------------------------------------------------------
(* The store *)

\* The newest row of a sequence is its last.
LEMMA NewestIsLast ==
  ASSUME NEW rows \in Seq(Row), rows # <<>>
  PROVE  Newest(rows) = Len(rows) /\ DOMAIN rows # {} /\ Len(rows) \in Nat \ {0}
<1>1. Len(rows) \in Nat \ {0} /\ DOMAIN rows = 1..Len(rows)
  BY EmptySeq
<1>2. Len(rows) \in DOMAIN rows /\ \A w \in DOMAIN rows : w <= Len(rows)
  BY <1>1
<1>3. \A v \in DOMAIN rows : (\A w \in DOMAIN rows : w <= v) => v = Len(rows)
  BY <1>1
<1> QED BY <1>1, <1>2, <1>3 DEF Newest

LEMMA NextVersionIsNext ==
  ASSUME NEW rows \in Seq(Row)
  PROVE  NextVersion(rows) = Len(rows) + 1
<1>1. CASE rows = <<>>
  BY <1>1 DEF NextVersion
<1>2. CASE rows # <<>>
  BY <1>2, NewestIsLast DEF NextVersion
<1> QED BY <1>1, <1>2

\* An append without conflict changes nothing, or adds the next row.
LEMMA AppendedRows ==
  ASSUME NEW rows \in Seq(Row), NEW row \in Row, NEW v \in 1..(Len(rows) + 1),
         ~Conflict(rows, v, row)
  PROVE  /\ v # Len(rows) + 1 => Appended(rows, v, row) = rows
         /\ v = Len(rows) + 1 => Appended(rows, v, row) = Append(rows, row)
<1>1. Len(rows) \in Nat /\ DOMAIN rows = 1..Len(rows)
  OBVIOUS
<1>2. CASE v # Len(rows) + 1
  <2>1. v \in DOMAIN rows
    BY <1>1, <1>2
  <2> QED BY <1>2, <2>1 DEF Conflict, Appended
<1>3. CASE v = Len(rows) + 1
  <2>1. v \notin DOMAIN rows
    BY <1>1, <1>3
  <2>2. Appended(rows, v, row) = With(rows, v, row)
    BY <2>1 DEF Appended
  <2>3. DOMAIN rows \cup {v} = 1..(Len(rows) + 1)
    BY <1>1, <1>3
  <2>4. With(rows, v, row) = [w \in 1..(Len(rows) + 1) |-> IF w = v THEN row ELSE rows[w]]
    BY <2>3 DEF With
  <2>5. Append(rows, row) = [w \in 1..(Len(rows) + 1) |-> IF w = v THEN row ELSE rows[w]]
    <3> DEFINE g == [w \in 1..(Len(rows) + 1) |-> IF w = v THEN row ELSE rows[w]]
    <3>1. g \in Seq(Row) /\ Len(g) = Len(rows) + 1
      BY <1>1, <1>3
    <3>2. /\ Append(rows, row) \in Seq(Row) /\ Len(Append(rows, row)) = Len(rows) + 1
          /\ \A w \in 1..Len(rows) : Append(rows, row)[w] = rows[w]
          /\ Append(rows, row)[Len(rows) + 1] = row
      BY AppendProperties
    <3>3. \A w \in 1..(Len(rows) + 1) : g[w] = Append(rows, row)[w]
      BY <1>1, <1>3, <3>2
    <3> HIDE DEF g
    <3>4. g = Append(rows, row)
      BY <3>1, <3>2, <3>3, SeqEqual
    <3> QED BY <3>4 DEF g
  <2> QED BY <1>3, <2>2, <2>4, <2>5
<1> QED BY <1>2, <1>3

LEMMA LocalIsSeries == LocalSeries \subseteq Series
BY DEF LocalSeries

LEMMA ItemType ==
  ASSUME NEW a \in Item
  PROVE  /\ a.series \in Series /\ a.version \in 1..MaxVersion /\ a.version \in Nat \ {0}
         /\ a.row \in Row
BY Bounds DEF Item

-----------------------------------------------------------------------------
(* The invariant *)

LEMMA InitInv == Init => StoreInv
<1> SUFFICES ASSUME Init PROVE StoreInv
  OBVIOUS
<1>1. \A s \in Series : table[s] = <<>>
  BY DEF Init
<1>2. <<>> \in Seq(Row) /\ <<>> \in [{} -> Row] /\ DOMAIN <<>> = {}
  OBVIOUS
<1>3. TableInv
  BY <1>1, <1>2 DEF TableInv
<1>4. NoJob \in Job
  BY DEF NoJob, Job
<1>5. TypeOK
  BY <1>1, <1>2, <1>4, Bounds DEF Init, TypeOK
<1>6. BatchInv /\ ChoiceInv
  BY DEF Init, BatchInv, ChoiceInv, NoJob
<1> QED BY <1>3, <1>5, <1>6 DEF StoreInv

\* With the table unchanged, only the ingestor that moves can disturb the invariant.
LEMMA QuietInv ==
  ASSUME StoreInv, UNCHANGED table, NEW i \in Ingestors, NEW p, NEW j \in Job,
         p \in {"idle", "read", "append", "batch", "done"},
         at' = [at EXCEPT ![i] = p], job' = [job EXCEPT ![i] = j],
         fetches' \in 0..MaxFetches, alone' \in [Ingestors -> BOOLEAN],
         j.todo \subseteq j.items,
         p \in {"read", "append"} =>
           /\ \A a \in j.items : a.series \in LocalSeries
           /\ \A a, b \in j.items : Rank(a) = Rank(b) => a = b,
         p = "batch" =>
           /\ \A a \in j.items : a.series \notin LocalSeries
           /\ \A a, b \in j.items : a.series = b.series /\ a.version = b.version => a = b,
         p = "append" =>
           \A item \in j.todo : IsNext(j.todo, item) =>
             /\ j.version \in 1..(Len(table[item.series]) + 1)
             /\ j.version = Len(table[item.series]) + 1 /\ Len(table[item.series]) # 0
                  => Payload(table[item.series][Len(table[item.series])]) # Payload(item.row)
  PROVE  StoreInv'
<1>0. /\ \A k \in Ingestors : at'[k] = IF k = i THEN p ELSE at[k]
      /\ \A k \in Ingestors : job'[k] = IF k = i THEN j ELSE job[k]
  BY DEF StoreInv, TypeOK
<1>1. TypeOK'
  BY DEF StoreInv, TypeOK
<1>2. TableInv'
  BY DEF StoreInv, TableInv
<1>3. BatchInv'
  BY <1>0 DEF StoreInv, BatchInv
<1>4. ChoiceInv'
  <2> SUFFICES ASSUME NEW k \in Ingestors, at'[k] = "append",
                      NEW item \in job'[k].todo, IsNext(job'[k].todo, item)
               PROVE  LET rows == table[item.series]
                          n    == Len(rows)
                      IN  /\ job'[k].version \in 1..(n + 1)
                          /\ job'[k].version = n + 1 /\ n # 0
                               => Payload(rows[n]) # Payload(item.row)
    BY DEF ChoiceInv
  <2>1. CASE k = i
    BY <1>0, <2>1
  <2>2. CASE k # i
    BY <1>0, <2>2 DEF StoreInv, ChoiceInv
  <2> QED BY <2>1, <2>2
<1> QED BY <1>1, <1>2, <1>3, <1>4 DEF StoreInv

LEMMA FetchInv ==
  ASSUME StoreInv, NEW i \in Ingestors, NEW st \in Statements, NEW reports \in Feeds[st],
         Fetch(i, st, reports)
  PROVE  StoreInv'
<1> DEFINE batch == Batch(st, reports)
           j     == [NoJob EXCEPT !.items = batch, !.todo = batch]
           p     == IF st \in Versioned THEN "batch" ELSE IF batch = {} THEN "done" ELSE "read"
<1>1. /\ job' = [job EXCEPT ![i] = j] /\ at' = [at EXCEPT ![i] = p] /\ UNCHANGED table
      /\ fetches < MaxFetches /\ fetches' = fetches + 1
  BY DEF Fetch
<1>2. alone' \in [Ingestors -> BOOLEAN] /\ fetches' \in 0..MaxFetches
  BY <1>1, Bounds DEF Fetch, StoreInv, TypeOK
<1>3. batch \subseteq Item
  BY BatchType
<1> HIDE DEF batch
<1>4. j \in Job /\ j.todo = batch /\ j.items = batch
  BY <1>3 DEF NoJob, Job
<1>5. \A a \in batch : a.series \in LocalSeries <=> st \notin Versioned
  <2> SUFFICES ASSUME NEW a \in batch PROVE a.series \in LocalSeries <=> st \notin Versioned
    OBVIOUS
  <2>1. a.series \in Series /\ a.series[1] = st
    BY <1>3, ItemType, BatchUnique DEF batch
  <2> QED BY <2>1 DEF LocalSeries
<1>6. ASSUME st \notin Versioned, NEW a \in batch, NEW b \in batch, Rank(a) = Rank(b)
      PROVE  a = b
  BY <1>6, BatchUnique, RankUnique DEF batch
<1>7. ASSUME NEW a \in batch, NEW b \in batch, a.series = b.series, a.version = b.version
      PROVE  a = b
  BY <1>7, BatchUnique DEF batch
<1>8. /\ p \in {"idle", "read", "append", "batch", "done"} /\ p # "append"
      /\ p = "read" => st \notin Versioned
      /\ p = "batch" => st \in Versioned
  OBVIOUS
<1> HIDE DEF p, j
<1> QED BY <1>1, <1>2, <1>4, <1>5, <1>6, <1>7, <1>8, QuietInv

\* Under local versions the next item is a single one.
LEMMA OneNext ==
  ASSUME StoreInv, NEW i \in Ingestors, at[i] \in {"read", "append"},
         NEW item \in job[i].todo, IsNext(job[i].todo, item),
         NEW other \in job[i].todo, IsNext(job[i].todo, other)
  PROVE  other = item
<1>1. job[i] \in Job /\ job[i].todo \subseteq job[i].items
      /\ \A a, b \in job[i].items : Rank(a) = Rank(b) => a = b
  BY DEF StoreInv, TypeOK, BatchInv
<1>2. Rank(other) <= Rank(item) /\ Rank(item) <= Rank(other)
  BY DEF IsNext
<1>3. Rank(other) \in Int /\ Rank(item) \in Int
  <2>1. other \in Item /\ item \in Item
    BY <1>1 DEF Job
  <2>2. other.series[2] \in Int /\ item.series[2] \in Int
    BY <2>1, ItemType, Bounds DEF Series, Quarters
  <2> QED BY <2>2 DEF Rank
<1> QED BY <1>1, <1>2, <1>3

LEMMA ReadInv ==
  ASSUME StoreInv, NEW i \in Ingestors, ReadLatest(i)
  PROVE  StoreInv'
<1>1. PICK item \in job[i].todo :
        /\ IsNext(job[i].todo, item)
        /\ LET rows == table[item.series]
               rest == job[i].todo \ {item}
           IN  IF Stored(rows, item.row)
               THEN /\ job' = [job EXCEPT ![i].todo = rest]
                    /\ at' = [at EXCEPT ![i] = IF rest = {} THEN "done" ELSE "read"]
               ELSE /\ job' = [job EXCEPT ![i].version = NextVersion(rows)]
                    /\ at' = [at EXCEPT ![i] = "append"]
  BY DEF ReadLatest
<1> DEFINE rows == table[item.series]
           rest == job[i].todo \ {item}
<1>2. /\ at[i] = "read" /\ UNCHANGED <<table, fetches, alone>>
      /\ job[i] \in Job /\ job[i].todo \subseteq job[i].items
      /\ \A a \in job[i].items : a.series \in LocalSeries
      /\ \A a, b \in job[i].items : Rank(a) = Rank(b) => a = b
  BY DEF ReadLatest, StoreInv, TypeOK, BatchInv
<1>3. item \in Item /\ item.series \in LocalSeries /\ rows \in Seq(Row)
  BY <1>2, LocalIsSeries DEF Job, StoreInv, TableInv
<1>4. fetches' \in 0..MaxFetches /\ alone' \in [Ingestors -> BOOLEAN]
  BY <1>2 DEF StoreInv, TypeOK
<1>5. CASE Stored(rows, item.row)
  <2> DEFINE j == [job[i] EXCEPT !.todo = rest]
             p == IF rest = {} THEN "done" ELSE "read"
  <2>1. job' = [job EXCEPT ![i] = j] /\ at' = [at EXCEPT ![i] = p]
    BY <1>1, <1>5
  <2>2. j \in Job /\ j.todo = rest /\ j.items = job[i].items /\ rest \subseteq job[i].items
    BY <1>2 DEF Job
  <2>3. p \in {"idle", "read", "append", "batch", "done"} /\ p # "append" /\ p # "batch"
    OBVIOUS
  <2> HIDE DEF j, p
  <2> QED BY <1>2, <1>4, <2>1, <2>2, <2>3, QuietInv
<1>6. CASE ~Stored(rows, item.row)
  <2> DEFINE j == [job[i] EXCEPT !.version = NextVersion(rows)]
  <2>1. job' = [job EXCEPT ![i] = j] /\ at' = [at EXCEPT ![i] = "append"]
    BY <1>1, <1>6
  <2>2. NextVersion(rows) = Len(rows) + 1 /\ Len(rows) \in Nat
    BY <1>3, NextVersionIsNext
  <2>3. /\ j \in Job /\ j.version = Len(rows) + 1
        /\ j.todo = job[i].todo /\ j.items = job[i].items
    BY <1>2, <2>2 DEF Job
  <2>4. Len(rows) # 0 => Payload(rows[Len(rows)]) # Payload(item.row)
    BY <1>3, <1>6, NewestIsLast DEF Stored
  <2>5. \A other \in job[i].todo : IsNext(job[i].todo, other) => other = item
    BY <1>1, <1>2, OneNext
  <2> HIDE DEF j
  <2>6. \A other \in j.todo : IsNext(j.todo, other) =>
          /\ j.version \in 1..(Len(table[other.series]) + 1)
          /\ j.version = Len(table[other.series]) + 1 /\ Len(table[other.series]) # 0
               => Payload(table[other.series][Len(table[other.series])]) # Payload(other.row)
    BY <2>2, <2>3, <2>4, <2>5
  <2> QED BY <1>2, <1>4, <2>1, <2>3, <2>6, QuietInv
<1> QED BY <1>5, <1>6

LEMMA LeaveInv ==
  ASSUME StoreInv, NEW i \in Ingestors, Raise(i) \/ Return(i)
  PROVE  StoreInv'
<1>1. /\ job' = [job EXCEPT ![i] = NoJob] /\ at' = [at EXCEPT ![i] = "idle"]
      /\ UNCHANGED <<table, fetches>> /\ alone' = [alone EXCEPT ![i] = FALSE]
  BY DEF Raise, Return
<1>2. NoJob \in Job /\ NoJob.todo \subseteq NoJob.items
  BY DEF NoJob, Job
<1>3. fetches' \in 0..MaxFetches /\ alone' \in [Ingestors -> BOOLEAN]
  BY <1>1 DEF StoreInv, TypeOK
<1> QED BY <1>1, <1>2, <1>3, QuietInv

\* What append() does to the table: rows are only added, and only under the versions of
\* the batch.
LEMMA BatchRows ==
  ASSUME StoreInv, NEW i \in Ingestors, AppendBatch(i), NEW s \in Series
  PROVE  /\ s \in LocalSeries => table'[s] = table[s]
         /\ DOMAIN table[s] \subseteq DOMAIN table'[s]
         /\ \A v \in DOMAIN table[s] : table'[s][v] = table[s][v]
         /\ s \notin LocalSeries => DOMAIN table'[s] \subseteq 1..MaxVersion
         /\ table'[s] \in [DOMAIN table'[s] -> Row]
<1> DEFINE new == {item \in job[i].items : item.series = s /\ item.version \notin DOMAIN table[s]}
           versions == {item.version : item \in new}
<1>1. table'[s] = [v \in DOMAIN table[s] \cup versions |->
                     IF v \in DOMAIN table[s] THEN table[s][v]
                     ELSE (CHOOSE item \in new : item.version = v).row]
  BY DEF AppendBatch
<1>2. at[i] = "batch" /\ job[i].items \subseteq Item
      /\ \A a \in job[i].items : a.series \notin LocalSeries
  BY DEF AppendBatch, StoreInv, TypeOK, BatchInv, Job
<1>3. table[s] \in [DOMAIN table[s] -> Row]
  BY DEF StoreInv, TypeOK
<1>4. versions \subseteq 1..MaxVersion
  BY <1>2, ItemType
<1>5. \A v \in versions : (CHOOSE item \in new : item.version = v).row \in Row
  <2> SUFFICES ASSUME NEW v \in versions
               PROVE  (CHOOSE item \in new : item.version = v).row \in Row
    OBVIOUS
  <2>1. \E item \in new : item.version = v
    OBVIOUS
  <2>2. (CHOOSE item \in new : item.version = v) \in new
    BY <2>1
  <2>3. new \subseteq Item
    BY <1>2
  <2> QED BY <2>2, <2>3, ItemType
<1>6. CASE s \in LocalSeries
  <2>1. versions = {}
    BY <1>2, <1>6
  <2>2. table'[s] = [v \in DOMAIN table[s] |-> table[s][v]]
    BY <1>1, <2>1
  <2>3. table'[s] = table[s]
    BY <1>3, <2>2
  <2> QED BY <1>3, <1>6, <2>3
<1>7. CASE s \notin LocalSeries
  <2>1. DOMAIN table[s] \subseteq 1..MaxVersion
    BY <1>7 DEF StoreInv, TableInv
  <2> HIDE DEF versions, new
  <2>2. DOMAIN table'[s] = DOMAIN table[s] \cup versions
    BY <1>1
  <2>3. \A v \in DOMAIN table[s] : table'[s][v] = table[s][v]
    BY <1>1
  <2>4. \A v \in DOMAIN table'[s] : table'[s][v] \in Row
    BY <1>1, <1>3, <1>5, <2>2
  <2>5. table'[s] \in [DOMAIN table'[s] -> Row]
    BY <1>1, <2>2, <2>4
  <2> QED BY <1>4, <1>7, <2>1, <2>2, <2>3, <2>5
<1> QED BY <1>6, <1>7

LEMMA AppendBatchInv ==
  ASSUME StoreInv, NEW i \in Ingestors, AppendBatch(i)
  PROVE  StoreInv'
<1>1. /\ at' = [at EXCEPT ![i] = "done"] /\ UNCHANGED <<job, fetches, alone>>
  BY DEF AppendBatch
<1>2. TableInv'
  BY BatchRows DEF StoreInv, TableInv
<1>3. TypeOK'
  <2>1. table' = [s \in Series |-> table'[s]]
    BY DEF AppendBatch
  <2>2. ASSUME NEW s \in Series PROVE DOMAIN table'[s] \subseteq Nat \ {0}
    <3>1. CASE s \in LocalSeries
      BY <3>1, BatchRows DEF StoreInv, TypeOK
    <3>2. CASE s \notin LocalSeries
      BY <3>2, BatchRows
    <3> QED BY <3>1, <3>2
  <2> QED BY <1>1, <2>1, <2>2, BatchRows DEF StoreInv, TypeOK
<1>4. BatchInv'
  BY <1>1 DEF StoreInv, TypeOK, BatchInv
<1>5. ChoiceInv'
  <2> SUFFICES ASSUME NEW k \in Ingestors, at'[k] = "append",
                      NEW item \in job[k].todo, IsNext(job[k].todo, item)
               PROVE  LET rows == table'[item.series]
                          n    == Len(rows)
                      IN  /\ job[k].version \in 1..(n + 1)
                          /\ job[k].version = n + 1 /\ n # 0
                               => Payload(rows[n]) # Payload(item.row)
    BY <1>1 DEF ChoiceInv
  <2>1. at[k] = "append"
    BY <1>1 DEF StoreInv, TypeOK
  <2>2. item.series \in LocalSeries
    BY <2>1 DEF StoreInv, BatchInv
  <2>3. table'[item.series] = table[item.series]
    BY <2>2, BatchRows, LocalIsSeries
  <2> QED BY <2>1, <2>3 DEF StoreInv, ChoiceInv
<1> QED BY <1>2, <1>3, <1>4, <1>5 DEF StoreInv

\* What one step of append_locally_versioned does to the table: nothing, or one row at
\* the end of one local series, which differs from the row before it.
LEMMA OneRow ==
  ASSUME StoreInv, NEW i \in Ingestors, AppendOne(i)
  PROVE  \E s \in LocalSeries, row \in Row :
           /\ \/ table' = table
              \/ /\ table' = [table EXCEPT ![s] = Append(table[s], row)]
                 /\ table[s] # <<>> => Payload(table[s][Len(table[s])]) # Payload(row)
           /\ \E rest \in SUBSET job[i].todo :
                /\ job' = [job EXCEPT ![i].todo = rest]
                /\ at' = [at EXCEPT ![i] = IF rest = {} THEN "done" ELSE "read"]
<1>1. PICK item \in job[i].todo :
        /\ IsNext(job[i].todo, item)
        /\ LET rows == table[item.series]
               v    == job[i].version
               rest == job[i].todo \ {item}
           IN  /\ ~Conflict(rows, v, item.row)
               /\ table' = [table EXCEPT ![item.series] = Appended(rows, v, item.row)]
               /\ job' = [job EXCEPT ![i].todo = rest]
               /\ at' = [at EXCEPT ![i] = IF rest = {} THEN "done" ELSE "read"]
  BY DEF AppendOne
<1> DEFINE rows == table[item.series]
           v    == job[i].version
           rest == job[i].todo \ {item}
<1>2. at[i] = "append" /\ job[i] \in Job /\ job[i].todo \subseteq job[i].items
      /\ \A a \in job[i].items : a.series \in LocalSeries
  BY DEF AppendOne, StoreInv, TypeOK, BatchInv
<1>3. item.series \in LocalSeries /\ item.row \in Row /\ rows \in Seq(Row)
  BY <1>2, ItemType, LocalIsSeries DEF Job, StoreInv, TableInv
<1>4. v \in 1..(Len(rows) + 1)
      /\ (v = Len(rows) + 1 /\ Len(rows) # 0 => Payload(rows[Len(rows)]) # Payload(item.row))
  BY <1>1, <1>2 DEF StoreInv, ChoiceInv
<1>5. CASE v # Len(rows) + 1
  <2>1. Appended(rows, v, item.row) = rows
    BY <1>1, <1>3, <1>4, <1>5, AppendedRows
  <2>2. table' = table
    BY <1>1, <2>1, <1>3, LocalIsSeries DEF StoreInv, TypeOK
  <2> QED BY <1>1, <1>3, <2>2
<1>6. CASE v = Len(rows) + 1
  <2>1. Appended(rows, v, item.row) = Append(rows, item.row)
    BY <1>1, <1>3, <1>4, <1>6, AppendedRows
  <2>2. table' = [table EXCEPT ![item.series] = Append(rows, item.row)]
    BY <1>1, <2>1
  <2>3. rows # <<>> => Payload(rows[Len(rows)]) # Payload(item.row)
    BY <1>3, <1>4, <1>6, EmptySeq
  <2> QED BY <1>1, <1>3, <2>2, <2>3
<1> QED BY <1>5, <1>6

LEMMA AppendOneInv ==
  ASSUME StoreInv, NEW i \in Ingestors, AppendOne(i)
  PROVE  StoreInv'
<1>1. PICK s \in LocalSeries, row \in Row :
        /\ \/ table' = table
           \/ /\ table' = [table EXCEPT ![s] = Append(table[s], row)]
              /\ table[s] # <<>> => Payload(table[s][Len(table[s])]) # Payload(row)
        /\ \E rest \in SUBSET job[i].todo :
             /\ job' = [job EXCEPT ![i].todo = rest]
             /\ at' = [at EXCEPT ![i] = IF rest = {} THEN "done" ELSE "read"]
  BY OneRow
<1>2. PICK rest \in SUBSET job[i].todo :
        /\ job' = [job EXCEPT ![i].todo = rest]
        /\ at' = [at EXCEPT ![i] = IF rest = {} THEN "done" ELSE "read"]
  BY <1>1
<1>3. at[i] = "append" /\ UNCHANGED <<fetches, alone>>
  BY DEF AppendOne
<1>4. s \in Series /\ table[s] \in Seq(Row)
  BY LocalIsSeries DEF StoreInv, TableInv
<1>5. \A q \in Series : table'[q] = table[q] \/ (q = s /\ table'[q] = Append(table[s], row))
  BY <1>1, <1>4 DEF StoreInv, TypeOK
<1>6. Append(table[s], row) \in Seq(Row) /\ Len(Append(table[s], row)) = Len(table[s]) + 1
      /\ Len(table[s]) \in Nat
  BY <1>4, AppendProperties
<1>7. TableInv'
  BY <1>5, <1>6 DEF StoreInv, TableInv
<1>8. TypeOK'
  <2>1. table' = [q \in Series |-> table'[q]]
    BY <1>1 DEF StoreInv, TypeOK
  <2>2. \A rows \in Seq(Row) : DOMAIN rows \subseteq Nat \ {0} /\ rows \in [DOMAIN rows -> Row]
    OBVIOUS
  <2>3. \A q \in Series : /\ DOMAIN table'[q] \subseteq Nat \ {0}
                          /\ table'[q] \in [DOMAIN table'[q] -> Row]
    BY <1>5, <1>6, <2>2 DEF StoreInv, TypeOK
  <2>4. job' \in [Ingestors -> Job]
    BY <1>2 DEF StoreInv, TypeOK, Job
  <2>5. at' \in [Ingestors -> {"idle", "read", "append", "batch", "done"}]
    BY <1>2 DEF StoreInv, TypeOK
  <2> QED BY <1>3, <2>1, <2>3, <2>4, <2>5 DEF StoreInv, TypeOK
<1>9. /\ \A k \in Ingestors \ {i} : at'[k] = at[k] /\ job'[k] = job[k]
      /\ at'[i] \in {"done", "read"} /\ job'[i].items = job[i].items /\ job'[i].todo = rest
  BY <1>2 DEF StoreInv, TypeOK, Job
<1>10. BatchInv'
  <2>1. ASSUME NEW k \in Ingestors, k # i
        PROVE  at'[k] = at[k] /\ job'[k] = job[k]
    BY <1>9, <2>1
  <2> QED BY <1>3, <1>9, <2>1 DEF StoreInv, BatchInv
<1>11. ChoiceInv'
  <2> SUFFICES ASSUME NEW k \in Ingestors, at'[k] = "append",
                      NEW item \in job'[k].todo, IsNext(job'[k].todo, item)
               PROVE  LET rows == table'[item.series]
                          n    == Len(rows)
                      IN  /\ job'[k].version \in 1..(n + 1)
                          /\ job'[k].version = n + 1 /\ n # 0
                               => Payload(rows[n]) # Payload(item.row)
    BY DEF ChoiceInv
  <2>1. k # i /\ at[k] = "append" /\ job'[k] = job[k]
    BY <1>9
  <2>2. item.series \in LocalSeries /\ item.series \in Series
    BY <2>1, LocalIsSeries DEF StoreInv, BatchInv
  <2> DEFINE rows == table[item.series]
  <2>3. /\ job[k].version \in 1..(Len(rows) + 1)
        /\ job[k].version = Len(rows) + 1 /\ Len(rows) # 0
             => Payload(rows[Len(rows)]) # Payload(item.row)
    BY <2>1 DEF StoreInv, ChoiceInv
  <2>4. CASE table'[item.series] = rows
    BY <2>1, <2>3, <2>4
  <2>5. CASE table'[item.series] # rows
    <3>1. Len(table'[item.series]) = Len(rows) + 1 /\ Len(rows) \in Nat
      BY <1>5, <1>6, <2>2, <2>5
    <3> QED BY <2>1, <2>3, <3>1
  <2> QED BY <2>4, <2>5
<1> QED BY <1>7, <1>8, <1>10, <1>11 DEF StoreInv

LEMMA StepInv == StoreInv /\ [Next]_vars => StoreInv'
<1> SUFFICES ASSUME StoreInv, [Next]_vars PROVE StoreInv'
  OBVIOUS
<1>1. CASE UNCHANGED vars
  BY <1>1 DEF vars, StoreInv, TypeOK, TableInv, BatchInv, ChoiceInv
<1>2. CASE Next
  <2> PICK i \in Ingestors :
        \/ \E st \in Statements : \E reports \in Feeds[st] : Fetch(i, st, reports)
        \/ AppendBatch(i) \/ ReadLatest(i) \/ AppendOne(i) \/ Raise(i) \/ Return(i)
    BY <1>2 DEF Next
  <2> QED BY FetchInv, AppendBatchInv, ReadInv, AppendOneInv, LeaveInv
<1> QED BY <1>1, <1>2

LEMMA AlwaysStoreInv == Spec => []StoreInv
BY InitInv, StepInv, PTL DEF Spec

\* The rows of the table and the locals of the ingestions are well typed.
THEOREM TypeCorrect == Spec => []TypeOK
<1>1. StoreInv => TypeOK
  BY DEF StoreInv
<1> QED BY <1>1, AlwaysStoreInv, PTL

-----------------------------------------------------------------------------
(* The table only grows *)

\* One step adds rows to the end of one local series, or under new provider versions.
LEMMA TableStep ==
  ASSUME StoreInv, [Next]_vars
  PROVE  \/ table' = table
         \/ \E s \in LocalSeries, row \in Row :
              /\ table' = [table EXCEPT ![s] = Append(table[s], row)]
              /\ table[s] # <<>> => Payload(table[s][Len(table[s])]) # Payload(row)
         \/ \E i \in Ingestors : AppendBatch(i)
<1>1. CASE UNCHANGED vars
  BY <1>1 DEF vars
<1>2. CASE Next
  <2> PICK i \in Ingestors :
        \/ \E st \in Statements : \E reports \in Feeds[st] : Fetch(i, st, reports)
        \/ AppendBatch(i) \/ ReadLatest(i) \/ AppendOne(i) \/ Raise(i) \/ Return(i)
    BY <1>2 DEF Next
  <2>1. CASE AppendOne(i)
    BY <2>1, OneRow
  <2>2. CASE AppendBatch(i)
    BY <2>2
  <2>3. ASSUME ~AppendOne(i), ~AppendBatch(i) PROVE table' = table
    BY <2>3 DEF Fetch, ReadLatest, Raise, Return
  <2> QED BY <2>1, <2>2, <2>3
<1> QED BY <1>1, <1>2

-----------------------------------------------------------------------------
(* The refinement of VersionedSeries *)

LEMMA HistoryType ==
  ASSUME NEW rows \in Seq(Row)
  PROVE  /\ History(rows) \in Seq(Figures \X ({NoDate} \cup Days))
         /\ Len(History(rows)) = Len(rows)
         /\ \A v \in 1..Len(rows) : History(rows)[v] = Payload(rows[v])
<1>1. Len(rows) \in Nat /\ DOMAIN rows = 1..Len(rows) /\ \A v \in 1..Len(rows) : rows[v] \in Row
  OBVIOUS
<1>2. \A v \in 1..Len(rows) : Payload(rows[v]) \in Figures \X ({NoDate} \cup Days)
  BY <1>1 DEF Payload, Row
<1> QED BY <1>1, <1>2 DEF History

\* The contents grow by one at the end, like the rows.
LEMMA HistoryAppend ==
  ASSUME NEW rows \in Seq(Row), NEW row \in Row
  PROVE  History(Append(rows, row)) = Append(History(rows), Payload(row))
<1> DEFINE C == Figures \X ({NoDate} \cup Days)
           a == History(Append(rows, row))
           b == Append(History(rows), Payload(row))
           n == Len(rows)
<1>1. /\ Append(rows, row) \in Seq(Row) /\ Len(Append(rows, row)) = n + 1 /\ n \in Nat
      /\ \A v \in 1..n : Append(rows, row)[v] = rows[v]
      /\ Append(rows, row)[n + 1] = row
  BY AppendProperties
<1>2. /\ a \in Seq(C) /\ Len(a) = n + 1
      /\ \A v \in 1..(n + 1) : a[v] = Payload(Append(rows, row)[v])
  BY <1>1, HistoryType
<1>3. Payload(row) \in C
  BY DEF Payload, Row
<1>4. /\ History(rows) \in Seq(C) /\ Len(History(rows)) = n
      /\ \A v \in 1..n : History(rows)[v] = Payload(rows[v])
  BY HistoryType
<1> HIDE DEF C
<1>5. /\ b \in Seq(C) /\ Len(b) = n + 1
      /\ \A v \in 1..n : b[v] = History(rows)[v]
      /\ b[n + 1] = Payload(row)
  BY <1>3, <1>4, AppendProperties
<1> HIDE DEF a, b
<1>6. \A v \in 1..(n + 1) : a[v] = b[v]
  <2> SUFFICES ASSUME NEW v \in 1..(n + 1) PROVE a[v] = b[v]
    OBVIOUS
  <2>1. CASE v = n + 1
    BY <1>1, <1>2, <1>5, <2>1
  <2>2. CASE v \in 1..n
    BY <1>1, <1>2, <1>4, <1>5, <2>2
  <2> QED BY <1>1, <2>1, <2>2
<1>7. a = b
  BY <1>2, <1>5, <1>6, SeqEqual
<1> QED BY <1>7 DEF a, b

LEMMA LogInit == Init => Log!Init
<1> SUFFICES ASSUME Init PROVE LogOf = [s \in LocalSeries |-> <<>>]
  BY DEF Log!Init, LogOf, History
<1>1. \A s \in LocalSeries : table[s] = <<>>
  BY LocalIsSeries DEF Init
<1>2. History(<<>>) = <<>>
  BY DEF History
<1> QED BY <1>1, <1>2 DEF LogOf

LEMMA LogStep ==
  ASSUME StoreInv, [Next]_vars
  PROVE  [Log!Next]_LogOf
<1>1. \A s \in LocalSeries : table[s] \in Seq(Row) /\ s \in Series
  BY LocalIsSeries DEF StoreInv, TableInv
<1>2. SUFFICES \/ LogOf' = LogOf
               \/ \E s \in LocalSeries, c \in Figures \X ({NoDate} \cup Days) :
                    /\ LogOf[s] # <<>> => LogOf[s][Len(LogOf[s])] # c
                    /\ LogOf' = [LogOf EXCEPT ![s] = Append(@, c)]
  BY DEF Log!Next, Log!Restated, LogOf, History
<1>3. CASE table' = table
  BY <1>3 DEF LogOf
<1>4. ASSUME NEW i \in Ingestors, AppendBatch(i) PROVE LogOf' = LogOf
  <2>1. \A s \in LocalSeries : table'[s] = table[s]
    BY <1>1, <1>4, BatchRows
  <2> QED BY <2>1 DEF LogOf
<1>5. ASSUME NEW s \in LocalSeries, NEW row \in Row,
             table' = [table EXCEPT ![s] = Append(table[s], row)],
             table[s] # <<>> => Payload(table[s][Len(table[s])]) # Payload(row)
      PROVE  \E c \in Figures \X ({NoDate} \cup Days) :
               /\ LogOf[s] # <<>> => LogOf[s][Len(LogOf[s])] # c
               /\ LogOf' = [LogOf EXCEPT ![s] = Append(@, c)]
  <2>1. Payload(row) \in Figures \X ({NoDate} \cup Days)
    BY DEF Payload, Row
  <2>2. LogOf[s] = History(table[s]) /\ table[s] \in Seq(Row)
    BY <1>1 DEF LogOf
  <2>3. LogOf[s] # <<>> => LogOf[s][Len(LogOf[s])] # Payload(row)
    <3>1. CASE table[s] = <<>>
      BY <2>2, <3>1, HistoryType, EmptySeq
    <3>2. CASE table[s] # <<>>
      <4>1. Len(table[s]) \in 1..Len(table[s])
        BY <2>2, <3>2, EmptySeq
      <4>2. LogOf[s][Len(LogOf[s])] = Payload(table[s][Len(table[s])])
        BY <2>2, <4>1, HistoryType
      <4> QED BY <1>5, <3>2, <4>2
    <3> QED BY <3>1, <3>2
  <2>4. \A q \in LocalSeries : table'[q] = IF q = s THEN Append(table[s], row) ELSE table[q]
    BY <1>1, <1>5 DEF StoreInv, TypeOK
  <2>5. LogOf' = [LogOf EXCEPT ![s] = Append(@, Payload(row))]
    BY <2>2, <2>4, HistoryAppend DEF LogOf
  <2> QED BY <2>1, <2>3, <2>5
<1> QED BY <1>3, <1>4, <1>5, TableStep

\* For any number of ingestions of any statements, each locally versioned series is a log
\* that only grows and never repeats its newest entry: no number is given twice.
THEOREM VersionsKept == Spec => KeepsVersions
<1>1. Init => Log!Init
  BY LogInit
<1>2. StoreInv /\ [Next]_vars => [Log!Next]_LogOf
  BY LogStep
<1> QED BY <1>1, <1>2, AlwaysStoreInv, PTL DEF Spec, KeepsVersions, Log!Spec

-----------------------------------------------------------------------------
(* The view of a backtest *)

\* No step changes a row or loses one.
LEMMA RowsStay ==
  ASSUME StoreInv, [Next]_vars, NEW s \in Series
  PROVE  /\ DOMAIN table[s] \subseteq DOMAIN table'[s]
         /\ \A v \in DOMAIN table[s] : table'[s][v] = table[s][v]
<1>1. CASE table' = table
  BY <1>1
<1>2. ASSUME NEW q \in LocalSeries, NEW row \in Row,
             table' = [table EXCEPT ![q] = Append(table[q], row)]
      PROVE  /\ DOMAIN table[s] \subseteq DOMAIN table'[s]
             /\ \A v \in DOMAIN table[s] : table'[s][v] = table[s][v]
  <2>1. CASE s # q
    BY <1>2, <2>1
  <2>2. CASE s = q
    <3>1. table[s] \in Seq(Row) /\ table'[s] = Append(table[s], row)
      BY <1>2, <2>2 DEF StoreInv, TypeOK, TableInv
    <3> QED BY <3>1, AppendProperties
  <2> QED BY <2>1, <2>2
<1>3. ASSUME NEW i \in Ingestors, AppendBatch(i)
      PROVE  /\ DOMAIN table[s] \subseteq DOMAIN table'[s]
             /\ \A v \in DOMAIN table[s] : table'[s][v] = table[s][v]
  BY <1>3, BatchRows
<1> QED BY <1>1, <1>2, <1>3, TableStep

\* Of finitely many versions there is a newest one.
LEMMA NewestOf ==
  ASSUME NEW n \in Nat, NEW T \in SUBSET (1..n), T # {}
  PROVE  \E v \in T : \A w \in T : w <= v
<1> DEFINE D == {n - v : v \in T}
<1>1. D # {} /\ D \subseteq Nat
  <2>1. \A v \in T : v \in 1..n
    OBVIOUS
  <2>2. \A v \in T : n - v \in Nat
    BY <2>1
  <2>3. PICK v \in T : TRUE
    OBVIOUS
  <2>4. n - v \in D
    BY <2>3
  <2> QED BY <2>2, <2>4
<1>2. PICK d \in D : \A e \in D : ~(<<e, d>> \in OpToRel(<, Nat))
  BY <1>1, WFMin, NatLessThanWellFounded, Zenon
<1>3. PICK v \in T : d = n - v
  OBVIOUS
<1>4. ASSUME NEW w \in T PROVE w <= v
  <2>1. n - w \in D
    OBVIOUS
  <2>2. ~(n - w < d)
    BY <1>1, <1>2, <2>1 DEF OpToRel
  <2> QED BY <1>1, <1>3, <2>2
<1> QED BY <1>4

LEMMA AsOfIsNewest ==
  ASSUME NEW n \in Nat, NEW rows, DOMAIN rows \subseteq 1..n, NEW d
  PROVE  /\ AsOf(rows, d) = 0 <=> KnownBy(rows, d) = {}
         /\ AsOf(rows, d) # 0 => AsOf(rows, d) \in KnownBy(rows, d)
         /\ \A v \in KnownBy(rows, d) : v <= AsOf(rows, d)
         /\ AsOf(rows, d) \in Nat
<1>1. KnownBy(rows, d) \in SUBSET (1..n)
  BY DEF KnownBy
<1>2. CASE KnownBy(rows, d) = {}
  BY <1>2 DEF AsOf
<1>3. CASE KnownBy(rows, d) # {}
  <2> DEFINE K == KnownBy(rows, d)
  <2>1. \E v \in K : \A w \in K : w <= v
    BY <1>1, <1>3, NewestOf
  <2>2. AsOf(rows, d) = CHOOSE v \in K : \A w \in K : w <= v
    BY <1>3 DEF AsOf
  <2> HIDE DEF K
  <2>3. AsOf(rows, d) \in K /\ \A w \in K : w <= AsOf(rows, d)
    BY <2>1, <2>2
  <2> QED BY <1>1, <1>3, <2>3 DEF K
<1> QED BY <1>2, <1>3

LEMMA BoundedVersions ==
  ASSUME NEW rows, rows \in Seq(Row) \/ DOMAIN rows \subseteq 1..MaxVersion
  PROVE  \E n \in Nat : DOMAIN rows \subseteq 1..n
<1>1. CASE rows \in Seq(Row)
  BY <1>1
<1>2. CASE DOMAIN rows \subseteq 1..MaxVersion
  BY <1>2, Bounds
<1> QED BY <1>1, <1>2

LEMMA ViewStep ==
  ASSUME StoreInv, [Next]_vars, NEW s \in Series, NEW d \in Days
  PROVE  LET before == AsOf(table[s], d)
             after  == AsOf(table'[s], d)
         IN  /\ after >= before
             /\ before # 0 /\ after = before => table'[s][after] = table[s][before]
<1> DEFINE before == AsOf(table[s], d)
           after  == AsOf(table'[s], d)
<1>1. PICK n \in Nat : DOMAIN table[s] \subseteq 1..n
  <2>1. table[s] \in Seq(Row) \/ DOMAIN table[s] \subseteq 1..MaxVersion
    BY DEF StoreInv, TableInv
  <2> QED BY <2>1, BoundedVersions
<1>2. PICK m \in Nat : DOMAIN table'[s] \subseteq 1..m
  <2>1. StoreInv'
    BY StepInv
  <2>2. table'[s] \in Seq(Row) \/ DOMAIN table'[s] \subseteq 1..MaxVersion
    BY <2>1 DEF StoreInv, TableInv
  <2> QED BY <2>2, BoundedVersions
<1>3. KnownBy(table[s], d) \subseteq KnownBy(table'[s], d)
  BY RowsStay DEF KnownBy
<1>4. /\ before \in Nat /\ (before # 0 => before \in KnownBy(table[s], d))
      /\ after \in Nat /\ \A v \in KnownBy(table'[s], d) : v <= after
  BY <1>1, <1>2, AsOfIsNewest
<1>5. after >= before
  BY <1>3, <1>4
<1>6. ASSUME before # 0, after = before PROVE table'[s][after] = table[s][before]
  <2>1. before \in DOMAIN table[s]
    BY <1>4, <1>6 DEF KnownBy
  <2> QED BY <1>6, <2>1, RowsStay
<1> QED BY <1>5, <1>6

\* Whatever is ingested, the row a backtest finds as known on a day is only ever replaced
\* by a newer version, and never changes under its version.
THEOREM ViewsAdvance == Spec => ViewsOnlyAdvance
<1>1. StoreInv /\ [Next]_vars =>
        [\A s \in Series, d \in Days :
           LET before == AsOf(table[s], d)
               after  == AsOf(table'[s], d)
           IN  /\ after >= before
               /\ before # 0 /\ after = before => table'[s][after] = table[s][before]]_vars
  BY ViewStep
<1> QED BY <1>1, AlwaysStoreInv, PTL DEF Spec, ViewsOnlyAdvance

-----------------------------------------------------------------------------
(* An ingestion without others *)

\* Of a lone ingestion, what is not still to do has landed, and the version it chose is
\* the next one.
LoneInv ==
  \A i \in Ingestors : alone[i] =>
    /\ \A k \in Ingestors \ {i} : at[k] = "idle"
    /\ at[i] = "done" => \A item \in job[i].items : Landed(item)
    /\ at[i] \in {"read", "append"} =>
         \A item \in job[i].items : item \notin job[i].todo => Landed(item)
    /\ at[i] = "append" =>
         \A item \in job[i].todo : IsNext(job[i].todo, item) =>
           job[i].version = Len(table[item.series]) + 1

\* Only the ingestor that moves can be a lone one.
LEMMA LoneFrame ==
  ASSUME StoreInv, LoneInv, NEW i \in Ingestors, at[i] # "idle",
         \A k \in Ingestors \ {i} : at'[k] = at[k] /\ (alone'[k] => alone[k]),
         alone'[i] => alone[i],
         alone'[i] =>
           /\ at'[i] = "done" => \A item \in job'[i].items : Landed(item)'
           /\ at'[i] \in {"read", "append"} =>
                \A item \in job'[i].items : item \notin job'[i].todo => Landed(item)'
           /\ at'[i] = "append" =>
                \A item \in job'[i].todo : IsNext(job'[i].todo, item) =>
                  job'[i].version = Len(table'[item.series]) + 1
  PROVE  LoneInv'
<1> SUFFICES ASSUME NEW k \in Ingestors, alone'[k]
             PROVE  /\ \A q \in Ingestors \ {k} : at'[q] = "idle"
                    /\ at'[k] = "done" => \A item \in job'[k].items : Landed(item)'
                    /\ at'[k] \in {"read", "append"} =>
                         \A item \in job'[k].items : item \notin job'[k].todo => Landed(item)'
                    /\ at'[k] = "append" =>
                         \A item \in job'[k].todo : IsNext(job'[k].todo, item) =>
                           job'[k].version = Len(table'[item.series]) + 1
  BY DEF LoneInv
<1>1. k = i
  <2>1. ASSUME k # i PROVE FALSE
    <3>1. alone[k]
      BY <2>1
    <3>2. at[i] = "idle"
      BY <2>1, <3>1 DEF LoneInv
    <3> QED BY <3>2
  <2> QED BY <2>1
<1>2. \A q \in Ingestors \ {i} : at[q] = "idle"
  BY <1>1 DEF LoneInv
<1> QED BY <1>1, <1>2

LEMMA LoneFetch ==
  ASSUME StoreInv, LoneInv, NEW i \in Ingestors, NEW st \in Statements,
         NEW reports \in Feeds[st], Fetch(i, st, reports)
  PROVE  LoneInv'
<1> DEFINE batch == Batch(st, reports)
<1>1. /\ job' = [job EXCEPT ![i] = [NoJob EXCEPT !.items = batch, !.todo = batch]]
      /\ at' = [at EXCEPT ![i] = IF st \in Versioned THEN "batch"
                                 ELSE IF batch = {} THEN "done" ELSE "read"]
      /\ alone' = [j \in Ingestors |-> j = i /\ \A k \in Ingestors \ {i} : at[k] = "idle"]
  BY DEF Fetch
<1>2. job'[i].items = batch /\ job'[i].todo = batch
      /\ at'[i] \in {"batch", "done", "read"} /\ (at'[i] = "done" => batch = {})
  BY <1>1 DEF StoreInv, TypeOK, NoJob
<1>3. \A k \in Ingestors \ {i} : at'[k] = at[k]
  BY <1>1 DEF StoreInv, TypeOK
<1>4. \A k \in Ingestors : alone'[k] => k = i /\ \A q \in Ingestors \ {i} : at[q] = "idle"
  BY <1>1
<1> HIDE DEF batch
<1> QED BY <1>2, <1>3, <1>4 DEF LoneInv

LEMMA LoneLeave ==
  ASSUME StoreInv, LoneInv, NEW i \in Ingestors, Raise(i) \/ Return(i)
  PROVE  LoneInv'
<1>1. at[i] # "idle" /\ at' = [at EXCEPT ![i] = "idle"] /\ alone' = [alone EXCEPT ![i] = FALSE]
  BY DEF Raise, Return
<1>2. ~alone'[i] /\ \A k \in Ingestors \ {i} : at'[k] = at[k] /\ alone'[k] = alone[k]
  BY <1>1 DEF StoreInv, TypeOK
<1> QED BY <1>1, <1>2, LoneFrame

LEMMA LoneRead ==
  ASSUME StoreInv, LoneInv, NEW i \in Ingestors, ReadLatest(i)
  PROVE  LoneInv'
<1>1. PICK item \in job[i].todo :
        /\ IsNext(job[i].todo, item)
        /\ LET rows == table[item.series]
               rest == job[i].todo \ {item}
           IN  IF Stored(rows, item.row)
               THEN /\ job' = [job EXCEPT ![i].todo = rest]
                    /\ at' = [at EXCEPT ![i] = IF rest = {} THEN "done" ELSE "read"]
               ELSE /\ job' = [job EXCEPT ![i].version = NextVersion(rows)]
                    /\ at' = [at EXCEPT ![i] = "append"]
  BY DEF ReadLatest
<1> DEFINE rows == table[item.series]
           rest == job[i].todo \ {item}
<1>2. /\ at[i] = "read" /\ UNCHANGED <<table, fetches, alone>>
      /\ job[i] \in Job /\ job[i].todo \subseteq job[i].items
      /\ \A a \in job[i].items : a.series \in LocalSeries
  BY DEF ReadLatest, StoreInv, TypeOK, BatchInv
<1>3. item \in Item /\ item.series \in LocalSeries /\ rows \in Seq(Row)
  BY <1>2, LocalIsSeries DEF Job, StoreInv, TableInv
<1>4. \A k \in Ingestors \ {i} : at'[k] = at[k]
  BY <1>1 DEF StoreInv, TypeOK
<1>5. alone[i] => \A a \in job[i].items : a \notin job[i].todo => Landed(a)
  BY <1>2 DEF LoneInv
<1>6. \A a : Landed(a)' <=> Landed(a)
  BY <1>2 DEF Landed
<1>7. CASE Stored(rows, item.row)
  <2>1. job'[i].items = job[i].items /\ job'[i].todo = rest
        /\ at'[i] \in {"done", "read"} /\ (at'[i] = "done" => rest = {})
    BY <1>1, <1>7 DEF StoreInv, TypeOK, Job
  <2>2. Landed(item)
    <3>1. rows # <<>>
      BY <1>3, <1>7, EmptySeq DEF Stored
    <3>2. Newest(rows) \in DOMAIN rows
      BY <1>3, <3>1, NewestIsLast
    <3> QED BY <1>3, <1>7, <3>2 DEF Stored, Landed
  <2>3. alone[i] => \A a \in job[i].items : a \notin rest => Landed(a)
    BY <1>5, <2>2
  <2> QED BY <1>2, <1>4, <1>6, <2>1, <2>3, LoneFrame
<1>8. CASE ~Stored(rows, item.row)
  <2>1. job'[i].items = job[i].items /\ job'[i].todo = job[i].todo /\ at'[i] = "append"
        /\ job'[i].version = Len(rows) + 1
    <3>1. /\ job' = [job EXCEPT ![i].version = NextVersion(rows)]
          /\ at' = [at EXCEPT ![i] = "append"]
      BY <1>1, <1>8
    <3>2. NextVersion(rows) = Len(rows) + 1
      BY <1>3, NextVersionIsNext
    <3> HIDE DEF rows
    <3> QED BY <3>1, <3>2 DEF StoreInv, TypeOK, Job
  <2>2. \A other \in job[i].todo : IsNext(job[i].todo, other) => other = item
    BY <1>1, <1>2, OneNext
  <2> QED BY <1>2, <1>4, <1>5, <1>6, <2>1, <2>2, LoneFrame
<1> QED BY <1>7, <1>8

LEMMA LoneAppendOne ==
  ASSUME StoreInv, LoneInv, NEW i \in Ingestors, AppendOne(i)
  PROVE  LoneInv'
<1>1. PICK item \in job[i].todo :
        /\ IsNext(job[i].todo, item)
        /\ LET rows == table[item.series]
               v    == job[i].version
               rest == job[i].todo \ {item}
           IN  /\ ~Conflict(rows, v, item.row)
               /\ table' = [table EXCEPT ![item.series] = Appended(rows, v, item.row)]
               /\ job' = [job EXCEPT ![i].todo = rest]
               /\ at' = [at EXCEPT ![i] = IF rest = {} THEN "done" ELSE "read"]
  BY DEF AppendOne
<1> DEFINE rows == table[item.series]
           v    == job[i].version
           rest == job[i].todo \ {item}
<1>2. /\ at[i] = "append" /\ UNCHANGED <<fetches, alone>>
      /\ job[i] \in Job /\ job[i].todo \subseteq job[i].items
      /\ \A a \in job[i].items : a.series \in LocalSeries
      /\ \A a, b \in job[i].items : Rank(a) = Rank(b) => a = b
  BY DEF AppendOne, StoreInv, TypeOK, BatchInv
<1>3. /\ item \in Item /\ item.series \in LocalSeries /\ item.series \in Series
      /\ item.row \in Row /\ rows \in Seq(Row)
  BY <1>2, ItemType, LocalIsSeries DEF Job, StoreInv, TableInv
<1>4. /\ \A k \in Ingestors \ {i} : at'[k] = at[k]
      /\ job'[i].items = job[i].items /\ job'[i].todo = rest
      /\ at'[i] \in {"done", "read"} /\ (at'[i] = "done" => rest = {})
  BY <1>1 DEF StoreInv, TypeOK, Job
<1>5. ASSUME alone[i], NEW a \in job[i].items, a \notin rest
      PROVE  Landed(a)'
  <2>1. v = Len(rows) + 1 /\ Len(rows) \in Nat
    BY <1>1, <1>2, <1>3, <1>5 DEF LoneInv
  <2>2. Appended(rows, v, item.row) = Append(rows, item.row)
    <3>1. ~Conflict(rows, v, item.row) /\ v \in 1..(Len(rows) + 1)
      BY <1>1, <2>1
    <3> HIDE DEF rows, v
    <3> QED BY <1>3, <2>1, <3>1, AppendedRows
  <2>3. table'[item.series] = Append(rows, item.row)
    BY <1>1, <1>3, <2>2 DEF StoreInv, TypeOK
  <2>4. CASE a = item
    <3> DEFINE new == Append(rows, item.row)
    <3>1. new \in Seq(Row) /\ new # <<>> /\ Len(new) = Len(rows) + 1
          /\ new[Len(rows) + 1] = item.row
      BY <1>3, AppendProperties
    <3> HIDE DEF new
    <3>2. Newest(new) = Len(new) /\ Len(new) \in DOMAIN new
      BY <3>1, NewestIsLast
    <3> QED BY <1>3, <2>3, <2>4, <3>1, <3>2 DEF new, Landed
  <2>5. CASE a # item
    <3>1. Landed(a)
      BY <1>2, <1>5, <2>5 DEF LoneInv
    <3>2. a.series # item.series
      BY <1>2, <2>5 DEF Rank
    <3>3. table'[a.series] = table[a.series]
      BY <1>1, <1>2, <3>2, LocalIsSeries DEF StoreInv, TypeOK
    <3> QED BY <3>1, <3>3 DEF Landed
  <2> QED BY <2>4, <2>5
<1> QED BY <1>2, <1>4, <1>5, LoneFrame

LEMMA LoneAppendBatch ==
  ASSUME StoreInv, LoneInv, NEW i \in Ingestors, AppendBatch(i)
  PROVE  LoneInv'
<1>1. /\ at[i] = "batch" /\ at' = [at EXCEPT ![i] = "done"] /\ UNCHANGED <<job, fetches, alone>>
      /\ \A a \in job[i].items : ~Conflict(table[a.series], a.version, a.row)
      /\ job[i].items \subseteq Item
      /\ \A a \in job[i].items : a.series \notin LocalSeries
      /\ \A a, b \in job[i].items : a.series = b.series /\ a.version = b.version => a = b
  BY DEF AppendBatch, StoreInv, TypeOK, BatchInv, Job
<1>2. ASSUME NEW a \in job[i].items PROVE Landed(a)'
  <2> DEFINE s == a.series
             new == {item \in job[i].items : item.series = s /\ item.version \notin DOMAIN table[s]}
             chosen == CHOOSE item \in new : item.version = a.version
  <2>1. s \in Series /\ a.version \in 1..MaxVersion
    BY <1>1, ItemType
  <2>2. table'[s] = [v \in DOMAIN table[s] \cup {item.version : item \in new} |->
                       IF v \in DOMAIN table[s] THEN table[s][v]
                       ELSE (CHOOSE item \in new : item.version = v).row]
    BY <2>1 DEF AppendBatch
  <2>3. CASE a.version \in DOMAIN table[s]
    <3>1. table'[s][a.version] = table[s][a.version] /\ a.version \in DOMAIN table'[s]
      BY <2>2, <2>3
    <3>2. Payload(table[s][a.version]) = Payload(a.row)
      BY <1>1, <2>3 DEF Conflict
    <3> QED BY <1>1, <3>1, <3>2 DEF Landed
  <2>4. CASE a.version \notin DOMAIN table[s]
    <3>1. a \in new
      BY <2>4
    <3>2. chosen \in new /\ chosen.version = a.version
      BY <3>1
    <3>3. chosen = a
      BY <1>1, <3>2
    <3>4. a.version \in DOMAIN table'[s] /\ table'[s][a.version] = chosen.row
      BY <2>2, <2>4, <3>1
    <3> QED BY <1>1, <3>3, <3>4 DEF Landed
  <2> QED BY <2>3, <2>4
<1>3. /\ \A k \in Ingestors \ {i} : at'[k] = at[k] /\ alone'[k] = alone[k]
      /\ at'[i] = "done" /\ alone'[i] = alone[i] /\ job'[i] = job[i]
  BY <1>1 DEF StoreInv, TypeOK
<1> QED BY <1>1, <1>2, <1>3, LoneFrame

LEMMA LoneStep == StoreInv /\ LoneInv /\ [Next]_vars => LoneInv'
<1> SUFFICES ASSUME StoreInv, LoneInv, [Next]_vars PROVE LoneInv'
  OBVIOUS
<1>1. CASE UNCHANGED vars
  BY <1>1 DEF vars, LoneInv, Landed
<1>2. CASE Next
  <2> PICK i \in Ingestors :
        \/ \E st \in Statements : \E reports \in Feeds[st] : Fetch(i, st, reports)
        \/ AppendBatch(i) \/ ReadLatest(i) \/ AppendOne(i) \/ Raise(i) \/ Return(i)
    BY <1>2 DEF Next
  <2> QED BY LoneFetch, LoneAppendBatch, LoneRead, LoneAppendOne, LoneLeave
<1> QED BY <1>1, <1>2

\* An ingestion during which no other one ran leaves every observation it fetched in the
\* store, whatever state earlier conflicts and failures had left.
THEOREM LoneIngestionsLand == Spec => []LoneIngestionLands
<1>1. Init => LoneInv
  BY DEF Init, LoneInv
<1>2. LoneInv => LoneIngestionLands
  BY DEF LoneInv, LoneIngestionLands
<1> QED BY <1>1, <1>2, LoneStep, AlwaysStoreInv, PTL DEF Spec
=============================================================================
