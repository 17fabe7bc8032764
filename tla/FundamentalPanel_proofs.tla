----------------------- MODULE FundamentalPanel_proofs -----------------------
(***************************************************************************)
(* Theorems about the financial panel, for every set of reports, ingested  *)
(* in any order, and every price.                                          *)
(*                                                                         *)
(* StoredInv says what the store holds: well-formed observations, finitely *)
(* many, one for each version of a figure.  So a figure has one newest     *)
(* version, which is the one _latest_versions keeps, and each of the six   *)
(* calculations makes Sound metrics: that is LikeWithLike and              *)
(* KnownAfterReports.  FeasibleWithoutYear needs that a newest version      *)
(* exists.                                                                 *)
(***************************************************************************)
EXTENDS FundamentalPanel, FiniteSetTheorems, WellFoundedInduction, TLAPS

-----------------------------------------------------------------------------
(* The store *)

StoredInv ==
  /\ stored \subseteq Observation /\ IsFiniteSet(stored)
  /\ \A o \in stored : WellFormed(o)
  /\ OneRowPerVersion(stored) /\ stored \subseteq UNION Reports
  /\ price \in Prices \cup {NoPrice}

LEMMA StoredKept == StoredInv /\ [Next]_vars => StoredInv'
<1> SUFFICES ASSUME StoredInv, [Next]_vars PROVE StoredInv'
  OBVIOUS
<1>1. CASE Ingest
  <2>1. PICK report \in Reports : /\ OneRowPerVersion(stored \cup report)
                                  /\ stored' = stored \cup report
    BY <1>1 DEF Ingest
  <2>2. /\ report \subseteq Observation /\ IsFiniteSet(report)
        /\ \A o \in report : WellFormed(o)
    BY PanelInputs
  <2>3. IsFiniteSet(stored')
    BY <2>1, <2>2, FS_Union DEF StoredInv
  <2>4. OneRowPerVersion(stored')
    BY <2>1
  <2> QED
    BY <1>1, <2>1, <2>2, <2>3, <2>4 DEF StoredInv, Ingest
<1>2. CASE PriceMoves
  BY <1>2 DEF StoredInv, PriceMoves, OneRowPerVersion
<1>3. CASE UNCHANGED vars
  BY <1>3 DEF StoredInv, vars, OneRowPerVersion
<1> QED
  BY <1>1, <1>2, <1>3 DEF Next

\* Whatever is ingested, and in whatever order, the store holds one well-formed
\* observation for each version of a figure: the index of store.py:178-185.
LEMMA StoreIsWellFormed == Spec => []StoredInv
<1>1. Init => StoredInv
  BY FS_EmptySet DEF Init, StoredInv, OneRowPerVersion
<1> QED
  BY <1>1, StoredKept, PTL DEF Spec

\* The fields of an observation.
LEMMA Fields ==
  ASSUME StoredInv, NEW o \in stored
  PROVE  /\ o \in Observation /\ WellFormed(o)
         /\ o.end \in Nat /\ o.type \in {"quarter", "year"} /\ o.consolidated \in BOOLEAN
         /\ o.value \in Int /\ o.version \in Nat /\ o.ingested \in Nat
         /\ o.published \in Nat \cup {Undated}
<1>1. o \in Observation
  BY DEF StoredInv
<1> QED
  BY <1>1 DEF StoredInv, Observation

-----------------------------------------------------------------------------
(* The newest version of a figure *)

\* p is a version of the figure x, type included.
VersionOf(p, x) == SameFigure(p, x) /\ p.type = x.type

\* What _latest_versions keeps is the newest version of its figure.
LEMMA LatestIsNewest ==
  ASSUME StoredInv, NEW o \in LatestVersions(stored), NEW x, VersionOf(o, x)
  PROVE  NewestOf(x) = o
<1> DEFINE Newest(p) == /\ SameFigure(p, x) /\ p.type = x.type
                        /\ \A q \in stored : SameFigure(q, x) /\ q.type = x.type
                                               => q.version <= p.version
<1>1. o \in stored
  BY DEF LatestVersions
<1>2. ASSUME NEW q \in stored, SameFigure(q, x), q.type = x.type
      PROVE  q.version <= o.version
  <2>1. ~Newer(q, o)
    BY <1>2 DEF LatestVersions, SameFigure, VersionOf
  <2> QED
    BY <1>1, <2>1, Fields DEF Newer
<1>3. Newest(o)
  BY <1>2 DEF VersionOf
<1>4. ASSUME NEW p \in stored, Newest(p) PROVE p = o
  <2>1. p.version <= o.version /\ o.version <= p.version
    BY <1>1, <1>2, <1>4 DEF VersionOf
  <2>2. p.version = o.version
    BY <1>1, <2>1, Fields
  <2> QED
    BY <1>1, <1>4, <2>2 DEF StoredInv, OneRowPerVersion, VersionOf, SameFigure
<1>5. NewestOf(x) = CHOOSE p \in stored : Newest(p)
  BY DEF NewestOf
<1> HIDE DEF Newest
<1> QED
  BY <1>1, <1>3, <1>4, <1>5

\* Of finitely many observations one has the largest version: the one that
\* fewest are above of.
LEMMA LargestVersion ==
  ASSUME StoredInv, NEW S \in SUBSET stored, S # {}
  PROVE  \E o \in S : \A p \in S : p.version <= o.version
<1> DEFINE Above(o) == {p \in S : p.version > o.version}
           sets == {Above(o) : o \in S}
<1>1. IsWellFoundedOn(StrictSubsetOrdering(S), SUBSET S)
  BY FS_Subset, FS_StrictSubsetOrderingWellFounded, FS_FiniteSubsetsOfFinite DEF StoredInv
<1>2. sets \in SUBSET (SUBSET S) /\ sets # {}
  OBVIOUS
<1>3. PICK T \in sets : \A U \in sets : ~(<<U, T>> \in StrictSubsetOrdering(S))
  <2> HIDE DEF sets
  <2> QED
    BY <1>1, <1>2, WFMin
<1>4. PICK o \in S : T = Above(o)
  OBVIOUS
<1>5. ASSUME NEW p \in S, p.version > o.version PROVE FALSE
  <2>1. \A q \in S : q.version \in Nat
    BY Fields
  <2>2. Above(p) \subseteq Above(o) /\ Above(p) # Above(o)
    BY <1>5, <2>1
  <2>3. Above(p) \in sets
    OBVIOUS
  <2>4. Above(p) \subseteq S /\ Above(o) \subseteq S
    OBVIOUS
  <2> HIDE DEF sets, Above
  <2> QED
    BY <1>3, <1>4, <2>2, <2>3, <2>4 DEF StrictSubsetOrdering
<1> QED
  BY <1>5, Fields

\* A figure of which the store has no other period type at its end has a newest
\* version, and _latest_versions keeps it.
LEMMA NewestExists ==
  ASSUME StoredInv, NEW x, \E o \in stored : SameFigure(o, x),
         \A o \in stored : SameFigure(o, x) => o.type = x.type
  PROVE  /\ NewestOf(x) \in LatestVersions(stored)
         /\ VersionOf(NewestOf(x), x)
<1> DEFINE S == {o \in stored : SameFigure(o, x)}
<1>1. PICK o \in S : \A p \in S : p.version <= o.version
  BY LargestVersion
<1>2. ASSUME NEW p \in stored, SameFigure(o, p) PROVE ~Newer(p, o)
  <2>1. p \in S
    BY <1>2 DEF SameFigure
  <2>2. p.version <= o.version /\ p.type = o.type
    BY <1>1, <2>1
  <2>3. p.version = o.version => p = o
    BY <1>2, <2>2 DEF StoredInv, OneRowPerVersion, SameFigure
  <2>4. p.version \in Nat /\ o.version \in Nat /\ p.ingested \in Nat
    BY Fields
  <2> QED
    BY <2>2, <2>3, <2>4 DEF Newer
<1>3. o \in LatestVersions(stored) /\ VersionOf(o, x)
  BY <1>2 DEF LatestVersions, VersionOf
<1>4. NewestOf(x) = o
  BY <1>3, LatestIsNewest
<1> QED
  BY <1>3, <1>4

-----------------------------------------------------------------------------
(* What a metric is made of *)

\* The publication date of up to three observations is not before that of one of
\* them; one without a date leaves none.
LEMMA PublicationIsLatest ==
  ASSUME StoredInv, NEW a \in stored, NEW b \in stored, NEW c \in stored,
         NEW o \in {a, b, c}, PublicationOf({a, b, c}) # Undated
  PROVE  o.published # Undated /\ o.published <= PublicationOf({a, b, c})
<1>1. \A p \in {a, b, c} : p.published # Undated /\ p.published \in Nat
  BY Fields DEF PublicationOf
<1> DEFINE days == {p.published : p \in {a, b, c}}
<1>2. \E x \in days : \A y \in days : x >= y
  <2>1. CASE a.published >= b.published /\ a.published >= c.published
    BY <1>1, <2>1
  <2>2. CASE b.published >= a.published /\ b.published >= c.published
    BY <1>1, <2>2
  <2>3. CASE c.published >= a.published /\ c.published >= b.published
    BY <1>1, <2>3
  <2> QED
    BY <1>1, <2>1, <2>2, <2>3
<1>3. PublicationOf({a, b, c}) = Max(days)
  BY <1>1 DEF PublicationOf
<1>4. \A y \in days : Max(days) >= y
  BY <1>2 DEF Max
<1>5. o.published \in days
  OBVIOUS
<1>6. Max(days) \in days
  BY <1>2 DEF Max
<1>7. Max(days) \in Nat
  BY <1>1, <1>6
<1> HIDE DEF days
<1> QED
  BY <1>1, <1>3, <1>4, <1>5, <1>7

\* A metric that emit has made, of the scope and period of o.
Made(metric, code, o, denominator, inputs) ==
  /\ metric.code = code /\ metric.end = o.end /\ metric.type = o.type
  /\ metric.consolidated = o.consolidated
  /\ metric.denominator = denominator /\ metric.inputs = inputs
  /\ metric.published = PublicationOf(inputs)

LEMMA Emitted ==
  ASSUME NEW code, NEW o, NEW numerator, NEW denominator, NEW inputs,
         NEW quote, NEW metric \in Emit(code, o, numerator, denominator, inputs, quote)
  PROVE  Made(metric, code, o, denominator, inputs)
BY DEF Emit, Made

LEMMA Ratio ==
  ASSUME NEW code, NEW n, NEW d, NEW scaled, NEW extra,
         NEW metric \in SafeRatio(code, n, d, scaled, extra)
  PROVE  /\ Compatible(n, d) /\ scaled[2] # 0
         /\ Made(metric, code, n, scaled[2], {n, d} \cup extra)
<1>1. ~(~Compatible(n, d) \/ scaled[2] = 0)
  BY DEF SafeRatio
<1>2. metric \in Emit(code, n, scaled[1], scaled[2], {n, d} \cup extra, NoPrice)
  BY <1>1 DEF SafeRatio
<1> QED
  BY <1>1, <1>2, Emitted

\* The metric has a figure of this code for the period that ends at end.
Has(metric, code, end) ==
  \E o \in metric.inputs : /\ o.code = code /\ o.end = end
                           /\ o.type = metric.type /\ o.consolidated = metric.consolidated

\* The quarters between the metric's period and the one it is compared with.
Distance(metric) == IF metric.type = "year" \/ metric.code = "revenue_yoy_growth" THEN 4 ELSE 1

\* The metric has every figure its definition speaks of.
Grounded(metric) ==
  /\ \A code \in Ground(metric.code) : Has(metric, code, metric.end)
  /\ \A code \in EarlierGround(metric.code) : Has(metric, code, metric.end - Distance(metric))

\* What every metric of the panel is.
Sound(metric) ==
  /\ metric.denominator # 0
  /\ \E a, b, c \in LatestVersions(stored) : metric.inputs = {a, b, c}
  /\ \A o, p \in metric.inputs : Compatible(o, p)
  /\ \A o \in metric.inputs : o.basis # "cumulative"
  /\ metric.published = PublicationOf(metric.inputs)
  /\ Grounded(metric)

\* A grounded metric of newest versions has the figures it needs.
LEMMA NeedsAreInputs ==
  ASSUME StoredInv, NEW metric, Grounded(metric), metric.inputs \subseteq LatestVersions(stored)
  PROVE  Needs(metric) \subseteq metric.inputs
<1> SUFFICES ASSUME NEW p \in stored, p.type = metric.type, p.consolidated = metric.consolidated,
                    \/ p.end = metric.end /\ p.code \in Ground(metric.code)
                    \/ p.end = metric.end - Distance(metric) /\ p.code \in EarlierGround(metric.code)
             PROVE  NewestOf(p) \in metric.inputs
  BY DEF Needs, Distance
<1>1. Has(metric, p.code, p.end)
  BY DEF Grounded
<1>2. PICK o \in metric.inputs : VersionOf(o, p)
  BY <1>1 DEF Has, VersionOf, SameFigure
<1>3. NewestOf(p) = o
  BY <1>2, LatestIsNewest
<1> QED
  BY <1>3

\* What has been made of three compatible newest versions, none accumulated, over
\* a denominator that is not zero, is sound if it is grounded.
LEMMA SoundIfMade ==
  ASSUME NEW metric, NEW code, NEW denominator,
         NEW a \in LatestVersions(stored), NEW b \in LatestVersions(stored),
         NEW c \in LatestVersions(stored),
         Made(metric, code, a, denominator, {a, b, c}),
         Compatible(a, b), Compatible(a, c), denominator # 0,
         \A o \in {a, b, c} : o.basis # "cumulative",
         Grounded(metric)
  PROVE  Sound(metric)
<1>1. metric.inputs = {a, b, c}
  BY DEF Made
<1>2. \A o, p \in {a, b, c} : Compatible(o, p)
  BY DEF Compatible
<1> QED
  BY <1>1, <1>2 DEF Sound, Made

-----------------------------------------------------------------------------
(* The six calculations *)

\* A flow, a balance or a figure per share is not accumulated.
LEMMA NotCumulative ==
  ASSUME StoredInv, NEW o \in stored, o.code \in Flows \cup Balances \cup PerShare
  PROVE  o.basis # "cumulative"
BY Fields DEF WellFormed

LEMMA RevenueFields ==
  ASSUME StoredInv, NEW r \in Revenues(LatestVersions(stored))
  PROVE  /\ r \in LatestVersions(stored) /\ r \in stored
         /\ r.code = "revenue" /\ r.basis # "cumulative"
BY DEF Revenues, Standalone, LatestVersions

LEMMA BesideFields ==
  ASSUME StoredInv, NEW items \in SUBSET LatestVersions(stored), NEW r, NEW code,
         code \in Flows \cup Balances \cup PerShare, NEW o \in Beside(items, r, code)
  PROVE  /\ o \in LatestVersions(stored) /\ o \in stored
         /\ o.code = code /\ o.basis # "cumulative"
         /\ o.end = r.end /\ o.type = r.type /\ o.consolidated = r.consolidated
<1>1. o \in LatestVersions(stored) /\ o \in stored
  BY DEF Beside, LatestVersions
<1>2. /\ o.code = code /\ o.end = r.end /\ o.type = r.type
      /\ o.consolidated = r.consolidated
  BY DEF Beside
<1> QED
  BY <1>1, <1>2, NotCumulative

\* _previous_period finds what ends a year, or a quarter, before.
LEMMA PreviousEnds ==
  ASSUME StoredInv, NEW candidates \in SUBSET stored, NEW o \in stored, NEW k \in {0, 1},
         NEW p \in Previous(candidates, o, k)
  PROVE  /\ p \in candidates /\ Compatible(o, p)
         /\ p.end = o.end - (IF o.type = "year" \/ k = 1 THEN 4 ELSE 1)
<1>1. p \in candidates /\ Compatible(o, p)
  BY DEF Previous, Compatible
<1>2. CASE o.type = "year"
  <2>1. Max({k, 1}) = 1
    BY DEF Max
  <2>2. YearOf(p) = YearOf(o) - 1
    BY <1>2, <2>1 DEF Previous
  <2>3. o.end % 4 = p.end % 4
    BY <1>1, <1>2, PanelInputs DEF StoredInv, SameYearEnd, Compatible
  <2>4. o.end \in Nat /\ p.end \in Nat
    BY <1>1, Fields
  <2>5. (p.end - 1) \div 4 = (o.end - 1) \div 4 - 1
    BY <2>2 DEF YearOf
  <2>6. p.end = o.end - 4
    BY <2>3, <2>4, <2>5
  <2> QED
    BY <1>1, <1>2, <2>6
<1>3. CASE o.type # "year"
  <2>1. p.end = IF k > 0 THEN o.end - 4 * k ELSE o.end - 1
    BY <1>3 DEF Previous
  <2> QED
    BY <1>1, <1>3, <2>1, Fields
<1> QED
  BY <1>2, <1>3

\* A ratio of the revenue to that of an earlier period is sound.
LEMMA RateIsSound ==
  ASSUME StoredInv, NEW r \in Revenues(LatestVersions(stored)), NEW code, NEW k \in {0, 1},
         NEW base \in Previous(Revenues(LatestVersions(stored)), r, k),
         \/ code = "revenue_yoy_growth" /\ (r.type = "year" \/ k = 1)
         \/ code = "revenue_qoq_growth" /\ k = 0 /\ r.type # "year",
         NEW metric \in SafeRatio(code, r, base, <<r.value - base.value, base.value>>, {})
  PROVE  Sound(metric)
<1>1. Revenues(LatestVersions(stored)) \in SUBSET stored
  BY RevenueFields
<1>2. /\ base \in Revenues(LatestVersions(stored))
      /\ base.end = r.end - (IF r.type = "year" \/ k = 1 THEN 4 ELSE 1)
  BY <1>1, PreviousEnds
<1>3. /\ r \in LatestVersions(stored) /\ base \in LatestVersions(stored)
      /\ r.code = "revenue" /\ base.code = "revenue"
      /\ \A o \in {r, base} : o.basis # "cumulative"
  BY <1>2, RevenueFields
<1>4. Compatible(r, base) /\ base.value # 0 /\ Made(metric, code, r, base.value, {r, base, base})
  <2>1. /\ Compatible(r, base) /\ <<r.value - base.value, base.value>>[2] # 0
        /\ Made(metric, code, r, <<r.value - base.value, base.value>>[2], {r, base} \cup {})
    BY Ratio
  <2>2. {r, base} \cup {} = {r, base, base}
    OBVIOUS
  <2> QED
    BY <2>1, <2>2
<1>5. /\ metric.inputs = {r, base, base} /\ metric.end = r.end /\ metric.type = r.type
      /\ metric.consolidated = r.consolidated /\ metric.code = code
  BY <1>4 DEF Made
<1>6. Has(metric, "revenue", metric.end)
  BY <1>3, <1>5 DEF Has
<1>7. Has(metric, "revenue", metric.end - Distance(metric))
  <2>1. base.end = metric.end - Distance(metric)
    BY <1>2, <1>5 DEF Distance
  <2> QED
    BY <1>3, <1>4, <1>5, <2>1 DEF Has, Compatible
<1>8. Grounded(metric)
  BY <1>5, <1>6, <1>7 DEF Grounded, Ground, EarlierGround
<1> QED
  BY <1>3, <1>4, <1>8, SoundIfMade

LEMMA GrowthIsSound ==
  ASSUME StoredInv, NEW r \in Revenues(LatestVersions(stored)),
         NEW metric \in Growth(LatestVersions(stored), r)
  PROVE  Sound(metric)
<1>1. CASE r.type = "year"
  BY <1>1, RateIsSound DEF Growth
<1>2. CASE r.type # "year"
  BY <1>2, RateIsSound DEF Growth
<1> QED
  BY <1>1, <1>2

\* What is made of two figures of one period is sound if its definition speaks of
\* these two and of no earlier period.
LEMMA PairIsSound ==
  ASSUME StoredInv, NEW n \in LatestVersions(stored), NEW d \in LatestVersions(stored),
         n.basis # "cumulative", d.basis # "cumulative", n.end = d.end, Compatible(n, d),
         NEW code, Ground(code) = {n.code, d.code}, EarlierGround(code) = {},
         NEW denominator, denominator # 0,
         NEW metric, Made(metric, code, n, denominator, {n, d})
  PROVE  Sound(metric)
<1>1. {n, d} = {n, d, d}
  OBVIOUS
<1>2. /\ metric.inputs = {n, d} /\ metric.end = n.end /\ metric.type = n.type
      /\ metric.consolidated = n.consolidated /\ metric.code = code
  BY DEF Made
<1>3. Has(metric, n.code, metric.end) /\ Has(metric, d.code, metric.end)
  BY <1>2 DEF Has, Compatible
<1>4. Grounded(metric)
  BY <1>2, <1>3 DEF Grounded
<1>5. Compatible(n, n)
  BY DEF Compatible
<1> QED
  BY <1>1, <1>4, SoundIfMade

LEMMA MarginsAreSound ==
  ASSUME StoredInv, NEW r \in Revenues(LatestVersions(stored)),
         NEW metric \in Margins(LatestVersions(stored), r)
  PROVE  Sound(metric)
<1> DEFINE items == LatestVersions(stored)
<1>1. \E pair \in {<<"gross_margin", "gross_profit">>, <<"operating_margin", "operating_profit">>,
                  <<"net_margin", "net_income">>} :
        \E n \in Beside(Standalone(items), r, pair[2]) :
          metric \in SafeRatio(pair[1], n, r, <<n.value, r.value>>, {})
  BY DEF Margins
<1>2. PICK pair \in {<<"gross_margin", "gross_profit">>, <<"operating_margin", "operating_profit">>,
                    <<"net_margin", "net_income">>} :
        \E n \in Beside(Standalone(items), r, pair[2]) :
          metric \in SafeRatio(pair[1], n, r, <<n.value, r.value>>, {})
  BY <1>1
<1>3. PICK n \in Beside(Standalone(items), r, pair[2]) :
        metric \in SafeRatio(pair[1], n, r, <<n.value, r.value>>, {})
  BY <1>2
<1>4. Standalone(items) \in SUBSET items /\ pair[2] \in Flows
  BY DEF Standalone, Flows
<1>5. n \in items /\ n.code = pair[2] /\ n.end = r.end /\ n.basis # "cumulative"
  BY <1>4, BesideFields
<1>6. Ground(pair[1]) = {pair[2], "revenue"} /\ EarlierGround(pair[1]) = {}
  BY DEF Ground, EarlierGround
<1>7. /\ Compatible(n, r) /\ <<n.value, r.value>>[2] # 0
      /\ Made(metric, pair[1], n, <<n.value, r.value>>[2], {n, r} \cup {})
  BY <1>3, Ratio
<1>8. r.value # 0 /\ Made(metric, pair[1], n, r.value, {n, r})
  BY <1>7
<1>9. r \in items /\ r.code = "revenue" /\ r.basis # "cumulative"
  BY RevenueFields
<1> HIDE DEF items
<1> QED
  BY <1>5, <1>6, <1>7, <1>8, <1>9, PairIsSound DEF items

LEMMA LeverageIsSound ==
  ASSUME StoredInv, NEW r \in Revenues(LatestVersions(stored)),
         NEW metric \in Leverage(LatestVersions(stored), r)
  PROVE  Sound(metric)
<1> DEFINE items == LatestVersions(stored)
<1>1. PICK l \in Beside(items, r, "total_liabilities"), e \in Beside(items, r, "equity") :
        metric \in SafeRatio("debt_to_equity", l, e, <<l.value, e.value>>, {})
  BY DEF Leverage
<1>2. /\ l \in items /\ l.code = "total_liabilities" /\ l.end = r.end /\ l.basis # "cumulative"
      /\ e \in items /\ e.code = "equity" /\ e.end = r.end /\ e.basis # "cumulative"
  BY BesideFields DEF Balances
<1>3. /\ Compatible(l, e) /\ <<l.value, e.value>>[2] # 0
      /\ Made(metric, "debt_to_equity", l, <<l.value, e.value>>[2], {l, e} \cup {})
  BY <1>1, Ratio
<1>4. e.value # 0 /\ Made(metric, "debt_to_equity", l, e.value, {l, e})
  BY <1>3
<1>5. /\ Ground("debt_to_equity") = {"total_liabilities", "equity"}
      /\ EarlierGround("debt_to_equity") = {}
  BY DEF Ground, EarlierGround
<1> HIDE DEF items
<1> QED
  BY <1>2, <1>3, <1>4, <1>5, PairIsSound DEF items

LEMMA FreeCashFlowIsSound ==
  ASSUME StoredInv, NEW r \in Revenues(LatestVersions(stored)),
         NEW metric \in FreeCashFlow(LatestVersions(stored), r)
  PROVE  Sound(metric)
<1> DEFINE items == LatestVersions(stored)
<1> DEFINE Cash(o, c) == Emit("free_cash_flow", o, o.value - c.value, 1, {o, c}, NoPrice)
<1>0. metric \in UNION {UNION {IF Compatible(o, c) THEN Cash(o, c) ELSE {}
                                : c \in Beside(items, r, "capital_expenditure")}
                         : o \in Beside(items, r, "operating_cash_flow")}
  BY DEF FreeCashFlow
<1> HIDE DEF Cash
<1>1. PICK o \in Beside(items, r, "operating_cash_flow"),
           c \in Beside(items, r, "capital_expenditure") :
        Compatible(o, c) /\ metric \in Cash(o, c)
  BY <1>0
<1>2. /\ o \in items /\ o.code = "operating_cash_flow" /\ o.end = r.end /\ o.basis # "cumulative"
      /\ c \in items /\ c.code = "capital_expenditure" /\ c.end = r.end /\ c.basis # "cumulative"
  BY BesideFields DEF Flows
<1>3. Made(metric, "free_cash_flow", o, 1, {o, c})
  BY <1>1, Emitted DEF Cash
<1>4. /\ Ground("free_cash_flow") = {"operating_cash_flow", "capital_expenditure"}
      /\ EarlierGround("free_cash_flow") = {}
  BY DEF Ground, EarlierGround
<1> HIDE DEF items
<1> QED
  BY <1>1, <1>2, <1>3, <1>4, PairIsSound DEF items

LEMMA ReturnIsSound ==
  ASSUME StoredInv, NEW r \in Revenues(LatestVersions(stored)), NEW code, NEW balance,
         \/ code = "roe" /\ balance = "equity"
         \/ code = "roa" /\ balance = "total_assets",
         NEW metric \in Return(LatestVersions(stored), r, code, balance)
  PROVE  Sound(metric)
<1> DEFINE items == LatestVersions(stored)
           factor == IF r.type = "quarter" THEN 4 ELSE 1
           balances == {o \in items : o.code = balance}
<1>1. \E n \in Beside(items, r, "net_income") : \E b \in Beside(items, r, balance) :
        \E prior \in Previous(balances, b, 0) :
          metric \in SafeRatio(code, n, b, <<2 * factor * n.value, b.value + prior.value>>, {prior})
  <2> DEFINE Of(n, b, prior) ==
               SafeRatio(code, n, b, <<2 * factor * n.value, b.value + prior.value>>, {prior})
             Over(n, b) == UNION {Of(n, b, prior) : prior \in Previous(balances, b, 0)}
             All(n) == UNION {Over(n, b) : b \in Beside(items, r, balance)}
  <2>1. metric \in UNION {All(n) : n \in Beside(items, r, "net_income")}
    BY DEF Return
  <2>2. PICK n \in Beside(items, r, "net_income") : metric \in All(n)
    <3> HIDE DEF All
    <3> QED
      BY <2>1
  <2>3. PICK b \in Beside(items, r, balance) : metric \in Over(n, b)
    <3> HIDE DEF Over
    <3> QED
      BY <2>2
  <2>4. PICK prior \in Previous(balances, b, 0) : metric \in Of(n, b, prior)
    <3> HIDE DEF Of
    <3> QED
      BY <2>3
  <2> QED
    BY <2>4
<1>2. PICK n \in Beside(items, r, "net_income") : \E b \in Beside(items, r, balance) :
        \E prior \in Previous(balances, b, 0) :
          metric \in SafeRatio(code, n, b, <<2 * factor * n.value, b.value + prior.value>>, {prior})
  BY <1>1
<1>3. PICK b \in Beside(items, r, balance) :
        \E prior \in Previous(balances, b, 0) :
          metric \in SafeRatio(code, n, b, <<2 * factor * n.value, b.value + prior.value>>, {prior})
  BY <1>2
<1>4. PICK prior \in Previous(balances, b, 0) :
        metric \in SafeRatio(code, n, b, <<2 * factor * n.value, b.value + prior.value>>, {prior})
  BY <1>3
<1>5. /\ n \in items /\ n.code = "net_income" /\ n.end = r.end /\ n.type = r.type
      /\ n.basis # "cumulative"
      /\ b \in items /\ b.code = balance /\ b.end = r.end /\ b.type = r.type
      /\ b.consolidated = r.consolidated /\ b.basis # "cumulative" /\ b \in stored
  BY BesideFields DEF Flows, Balances
<1>6. balances \in SUBSET stored
  BY DEF LatestVersions
<1>7. /\ prior \in balances /\ Compatible(b, prior)
      /\ prior.end = b.end - (IF b.type = "year" \/ 0 = 1 THEN 4 ELSE 1)
  BY <1>5, <1>6, PreviousEnds
<1>8. prior \in items /\ prior.code = balance /\ prior.basis # "cumulative"
  BY <1>6, <1>7, NotCumulative DEF Balances
<1> DEFINE denominator == b.value + prior.value
<1>9. /\ Compatible(n, b) /\ denominator # 0
      /\ Made(metric, code, n, denominator, {n, b, prior})
  <2>1. /\ Compatible(n, b)
        /\ <<2 * factor * n.value, denominator>>[2] # 0
        /\ Made(metric, code, n, <<2 * factor * n.value, denominator>>[2], {n, b} \cup {prior})
    BY <1>4, Ratio
  <2>2. {n, b} \cup {prior} = {n, b, prior}
    OBVIOUS
  <2>3. <<2 * factor * n.value, denominator>>[2] = denominator
    OBVIOUS
  <2> QED
    BY <2>1, <2>2, <2>3
<1>10. /\ metric.inputs = {n, b, prior} /\ metric.end = n.end /\ metric.type = n.type
       /\ metric.consolidated = n.consolidated /\ metric.code = code
  BY <1>9 DEF Made
<1>11. Has(metric, "net_income", metric.end) /\ Has(metric, balance, metric.end)
  BY <1>5, <1>9, <1>10 DEF Has, Compatible
<1>12. Has(metric, balance, metric.end - Distance(metric))
  <2>1. prior.end = metric.end - Distance(metric)
    BY <1>5, <1>7, <1>10 DEF Distance
  <2> QED
    BY <1>7, <1>8, <1>9, <1>10, <2>1 DEF Has, Compatible
<1>13. Grounded(metric)
  BY <1>10, <1>11, <1>12 DEF Grounded, Ground, EarlierGround
<1>14. Compatible(n, prior)
  BY <1>7, <1>9 DEF Compatible
<1> HIDE DEF items, denominator
<1> QED
  BY <1>5, <1>8, <1>9, <1>13, <1>14, SoundIfMade DEF items

LEMMA ValuationIsSound ==
  ASSUME StoredInv, NEW code, NEW perShare,
         \/ code = "pe" /\ perShare = "eps_ttm"
         \/ code = "pb" /\ perShare = "book_value_per_share",
         NEW metric \in Valuation(LatestVersions(stored), code, perShare)
  PROVE  Sound(metric)
<1>1. PICK o \in LatestVersions(stored) :
        /\ o.code = perShare /\ ~(o.value <= 0)
        /\ metric \in Emit(code, o, price.value, o.value, {o}, price)
  BY DEF Valuation
<1>2. o \in stored /\ o.value \in Int
  BY Fields DEF LatestVersions
<1>3. o.basis # "cumulative"
  BY <1>1, <1>2, NotCumulative DEF PerShare
<1>4. o.value # 0
  BY <1>1, <1>2
<1>5. Made(metric, code, o, o.value, {o, o})
  <2>1. {o} = {o, o}
    OBVIOUS
  <2> QED
    BY <1>1, <2>1, Emitted
<1>6. Ground(code) = {o.code, o.code} /\ EarlierGround(code) = {}
  BY <1>1 DEF Ground, EarlierGround
<1>7. Compatible(o, o)
  BY DEF Compatible
<1> QED
  BY <1>1, <1>3, <1>4, <1>5, <1>6, <1>7, PairIsSound

LEMMA MetricsAreSound ==
  ASSUME StoredInv, NEW metric \in PanelMetrics(stored)
  PROVE  Sound(metric)
<1> DEFINE items == LatestVersions(stored)
<1>1. \/ \E r \in Revenues(items) :
           \/ metric \in Growth(items, r)
           \/ metric \in Margins(items, r)
           \/ metric \in Return(items, r, "roe", "equity")
           \/ metric \in Return(items, r, "roa", "total_assets")
           \/ metric \in Leverage(items, r)
           \/ metric \in FreeCashFlow(items, r)
      \/ metric \in Valuation(items, "pe", "eps_ttm")
      \/ metric \in Valuation(items, "pb", "book_value_per_share")
  BY DEF PanelMetrics
<1> QED
  BY <1>1, GrowthIsSound, MarginsAreSound, ReturnIsSound, LeverageIsSound,
     FreeCashFlowIsSound, ValuationIsSound

-----------------------------------------------------------------------------
(* The properties of the panel *)

\* Whatever arrived, and in whatever order, a metric is made of the newest
\* versions of its figures, all of one scope, period type and unit, none of them
\* accumulated, over a denominator that is not zero.
THEOREM MetricsAreLikeWithLike == Spec => []LikeWithLike
<1>1. StoredInv => LikeWithLike
  <2> SUFFICES ASSUME StoredInv, NEW metric \in PanelMetrics(stored)
               PROVE  /\ metric.denominator # 0
                      /\ \A o, p \in metric.inputs : /\ o.unit = p.unit /\ o.type = p.type
                                                     /\ o.consolidated = p.consolidated
                      /\ \A o \in metric.inputs : o = NewestOf(o) /\ o.basis # "cumulative"
    BY DEF LikeWithLike
  <2>1. Sound(metric)
    BY MetricsAreSound
  <2>2. ASSUME NEW o \in metric.inputs PROVE o = NewestOf(o)
    <3>1. o \in LatestVersions(stored)
      BY <2>1 DEF Sound
    <3>2. VersionOf(o, o)
      BY DEF VersionOf, SameFigure
    <3> QED
      BY <3>1, <3>2, LatestIsNewest
  <2> QED
    BY <2>1, <2>2 DEF Sound, Compatible
<1> QED
  BY <1>1, StoreIsWellFormed, PTL

\* No metric claims to have been known before one of the reported figures its
\* definition speaks of, those of the earlier period included.
THEOREM MetricsAreKnownAfterReports == Spec => []KnownAfterReports
<1>1. StoredInv => KnownAfterReports
  <2> SUFFICES ASSUME StoredInv, NEW metric \in PanelMetrics(stored),
                      metric.published # Undated, NEW o \in Needs(metric)
               PROVE  o.published # Undated /\ o.published <= metric.published
    BY DEF KnownAfterReports
  <2>1. Sound(metric)
    BY MetricsAreSound
  <2>2. PICK a, b, c \in LatestVersions(stored) : metric.inputs = {a, b, c}
    BY <2>1 DEF Sound
  <2>3. a \in stored /\ b \in stored /\ c \in stored
    BY DEF LatestVersions
  <2>4. o \in {a, b, c}
    <3>1. metric.inputs \subseteq LatestVersions(stored)
      BY <2>2
    <3> QED
      BY <2>1, <2>2, <3>1, NeedsAreInputs DEF Sound
  <2>5. metric.published = PublicationOf({a, b, c})
    BY <2>1, <2>2 DEF Sound
  <2> QED
    BY <2>3, <2>4, <2>5, PublicationIsLatest
<1> QED
  BY <1>1, StoreIsWellFormed, PTL

\* The figure of a quarter at whose end no year ends is the newest version of it.
LEMMA QuarterFigure ==
  ASSUME StoredInv, NEW end, NEW consolidated, NEW code \in Flows,
         HasFigures(end, "quarter", consolidated, {code}),
         ~\E o \in stored : o.end = end /\ o.type = "year",
         NEW x, x = [end |-> end, type |-> "quarter", code |-> code, consolidated |-> consolidated]
  PROVE  /\ NewestOf(x) \in Standalone(LatestVersions(stored))
         /\ NewestOf(x).end = end /\ NewestOf(x).type = "quarter"
         /\ NewestOf(x).consolidated = consolidated /\ NewestOf(x).code = code
<1>1. /\ x.end = end /\ x.type = "quarter" /\ x.code = code
      /\ x.consolidated = consolidated
  OBVIOUS
<1>2. \E o \in stored : SameFigure(o, x)
  BY <1>1 DEF HasFigures, SameFigure
<1>3. \A o \in stored : SameFigure(o, x) => o.type = x.type
  BY <1>1, Fields DEF SameFigure
<1>4. NewestOf(x) \in LatestVersions(stored) /\ VersionOf(NewestOf(x), x)
  BY <1>2, <1>3, NewestExists
<1>5. NewestOf(x).code = code /\ NewestOf(x) \in stored
  BY <1>1, <1>4 DEF VersionOf, SameFigure, LatestVersions
<1>6. NewestOf(x).basis \in {"standalone", "annual"}
  BY <1>5, Fields DEF WellFormed
<1> QED
  BY <1>1, <1>4, <1>6 DEF VersionOf, SameFigure, Standalone

\* Every quarter that is not also the end of a reported year shows its net margin
\* as soon as the store has both figures in one unit over a revenue not zero: no
\* accumulated figure, restatement, other scope or missing date hides it.
THEOREM FeasibleMarginsAreShown == Spec => []FeasibleWithoutYear
<1>1. StoredInv => FeasibleWithoutYear
  <2> SUFFICES ASSUME StoredInv, NEW end \in Ends, NEW consolidated \in BOOLEAN,
                      NetMarginFeasible(end, consolidated),
                      ~\E o \in stored : o.end = end /\ o.type = "year"
               PROVE  ShowsNetMargin(end, consolidated)
    BY DEF FeasibleWithoutYear
  <2> DEFINE items == LatestVersions(stored)
             Figure(code) == NewestOf([end |-> end, type |-> "quarter", code |-> code,
                                       consolidated |-> consolidated])
  <2>1. PICK r : r = Figure("revenue")
    OBVIOUS
  <2>2. PICK n : n = Figure("net_income")
    OBVIOUS
  <2>3. /\ r \in Standalone(items) /\ r.end = end /\ r.type = "quarter"
        /\ r.consolidated = consolidated /\ r.code = "revenue"
    <3>1. HasFigures(end, "quarter", consolidated, {"revenue"})
      BY DEF NetMarginFeasible, HasFigures
    <3> QED
      BY <2>1, <3>1, QuarterFigure DEF Flows
  <2>4. /\ n \in Standalone(items) /\ n.end = end /\ n.type = "quarter"
        /\ n.consolidated = consolidated /\ n.code = "net_income"
    <3>1. HasFigures(end, "quarter", consolidated, {"net_income"})
      BY DEF NetMarginFeasible, HasFigures
    <3> QED
      BY <2>2, <3>1, QuarterFigure DEF Flows
  <2>5. r.unit = n.unit /\ r.value # 0
    BY <2>1, <2>2 DEF NetMarginFeasible
  <2>6. r \in Revenues(items) /\ n \in Beside(Standalone(items), r, "net_income")
    BY <2>3, <2>4 DEF Revenues, Beside
  <2>7. PICK metric : metric \in Emit("net_margin", n, n.value, r.value, {n, r} \cup {}, NoPrice)
    BY DEF Emit
  <2>8. metric \in SafeRatio("net_margin", n, r, <<n.value, r.value>>, {})
    <3>1. Compatible(n, r)
      BY <2>3, <2>4, <2>5 DEF Compatible
    <3> QED
      BY <2>5, <2>7, <3>1 DEF SafeRatio
  <2>9. metric \in Margins(items, r)
    BY <2>6, <2>8 DEF Margins
  <2>10. metric \in PanelMetrics(stored)
    BY <2>6, <2>9 DEF PanelMetrics
  <2>11. Made(metric, "net_margin", n, r.value, {n, r} \cup {})
    BY <2>7, Emitted
  <2> QED
    BY <2>4, <2>10, <2>11 DEF ShowsNetMargin, Made
<1> QED
  BY <1>1, StoreIsWellFormed, PTL
=============================================================================
