-------------------------- MODULE FundamentalPanel --------------------------
(***************************************************************************)
(* The financial panel of one symbol: the growth, margin, return, leverage *)
(* and valuation figures calculated from whatever observations have been   *)
(* ingested so far, and the dates and versions the figures carry.          *)
(*                                                                         *)
(* Source: backend/app/data/fundamentals/metrics.py and get_fundamentals   *)
(* of service.py.  A period is the number of the quarter it ends with: the *)
(* fourth quarter of year y ends with 4 * y, and so does a calendar year.  *)
(* Every metric code stands in one statement.  Values are whole numbers    *)
(* and a ratio is kept as numerator and denominator; its rounding to six   *)
(* places, labels, sources and warning texts are left out.                 *)
(***************************************************************************)
EXTENDS Integers, FiniteSets, FiniteSetsExt

CONSTANTS
  Reports,   \* the reports a provider can deliver, each a set of observations
  Prices,    \* the prices the price provider can give, [value, unit, day]
  Undated,   \* the publication date of an observation that has none
  NoPrice

\* normalize_observations: a cumulative quarter has a metric code of its own
\* (revenue_cumulative) and revenue as its base code.
Observation ==
  [end : Nat, type : {"quarter", "year"}, code : STRING, base : STRING,
   consolidated : BOOLEAN, value : Int, unit : STRING,
   basis : {"standalone", "annual", "cumulative", "point_in_time", "ratio"},
   version : Nat \ {0}, ingested : Nat, published : Nat \cup {Undated}]

Flows == {"revenue", "gross_profit", "operating_profit", "net_income",
          "operating_cash_flow", "capital_expenditure"}
Balances == {"equity", "total_assets", "total_liabilities"}
PerShare == {"eps_ttm", "book_value_per_share"}

\* What RawFinancialObservation and normalize_observations let through: the basis
\* of a figure follows from its statement and its period, and an accumulated
\* quarter has a code that is none of these.  A figure per share stands in the ratio
\* statement or in the balance sheet.
WellFormed(o) ==
  /\ o.code \in Flows => o.basis = IF o.type = "year" THEN "annual" ELSE "standalone"
  /\ o.code \in Balances => o.basis = "point_in_time"
  /\ o.code \in PerShare => o.basis \in {"ratio", "point_in_time"}

\* The company's years all end with the same quarter.
SameYearEnd(rows) ==
  \A o, p \in rows : o.type = "year" /\ p.type = "year" => o.end % 4 = p.end % 4

ASSUME PanelInputs ==
  /\ \A report \in Reports :
       /\ report \subseteq Observation /\ IsFiniteSet(report)
       /\ \A o \in report : WellFormed(o)
  /\ SameYearEnd(UNION Reports)
  /\ Undated \notin Nat
  /\ NoPrice \notin Prices
  /\ \A quote \in Prices : quote.value \in Int /\ quote.day \in Nat

VARIABLES
  stored,   \* the observations of the store, every version of them
  price     \* what the price provider answers

vars == <<stored, price>>

-----------------------------------------------------------------------------
(* The newest version of every figure *)

\* The key of _latest_versions.  The period type is not part of it.
SameFigure(o, p) ==
  o.end = p.end /\ o.code = p.code /\ o.consolidated = p.consolidated

Newer(o, p) == o.version > p.version \/ (o.version = p.version /\ o.ingested > p.ingested)

\* The unique index of the store: a version of a figure is one observation, and
\* append refuses a report that has other content for it.
OneRowPerVersion(rows) ==
  \A o, p \in rows :
    SameFigure(o, p) /\ o.type = p.type /\ o.version = p.version => o = p

\* Mutant: the observation ingested last is taken, whatever its version.
LatestIngested(observations) ==
  {o \in observations : \A p \in observations :
     SameFigure(o, p) => o.ingested >= p.ingested}

LatestVersions(observations) ==
  {o \in observations : \A p \in observations : SameFigure(o, p) => ~Newer(p, o)}

\* Mutant: a figure that is also known accumulated counts as accumulated.
StandaloneOnly(items) ==
  {o \in items : /\ o.basis \in {"standalone", "annual"}
                 /\ ~\E p \in items : p.basis = "cumulative" /\ p.end = o.end /\ p.base = o.base}

Standalone(items) == {o \in items : o.basis \in {"standalone", "annual"}}

-----------------------------------------------------------------------------
(* Which figures can be put together *)

Compatible(o, p) ==
  /\ o.consolidated = p.consolidated
  /\ o.unit = p.unit
  /\ o.type = p.type

YearOf(o) == (o.end - 1) \div 4

\* _previous_period: the year before, the quarter before, or the same quarter
\* yearOffset years ago.
Previous(candidates, o, yearOffset) ==
  {p \in candidates :
     /\ Compatible(o, p)
     /\ IF o.type = "year" THEN YearOf(p) = YearOf(o) - Max({yearOffset, 1})
        ELSE p.end = IF yearOffset > 0 THEN o.end - 4 * yearOffset ELSE o.end - 1}

\* by_period: the figure of this code beside o.
Beside(items, o, code) ==
  {p \in items : p.end = o.end /\ p.type = o.type /\ p.consolidated = o.consolidated
                 /\ p.code = code}

-----------------------------------------------------------------------------
(* _MetricBuilder.emit and _safe_ratio *)

\* Mutant: undated inputs are passed over.
PublicationOfDated(inputs) ==
  Max({0} \cup {o.published : o \in {p \in inputs : p.published # Undated}})

PublicationOf(inputs) ==
  IF \E o \in inputs : o.published = Undated THEN Undated
  ELSE Max({o.published : o \in inputs})

\* The trace of a metric: a price it was calculated from is no input, and its
\* trading date is not looked at.
Emit(code, o, numerator, denominator, inputs, quote) ==
  {[code |-> code, end |-> o.end, type |-> o.type, consolidated |-> o.consolidated,
    numerator |-> numerator, denominator |-> denominator, inputs |-> inputs, price |-> quote,
    published |-> PublicationOf(inputs), version |-> Max({i.version : i \in inputs})]}

\* n over d, of which extra more observations are the ground; scaled are the
\* two numbers the ratio is calculated from.
SafeRatio(code, n, d, scaled, extra) ==
  IF ~Compatible(n, d) \/ scaled[2] = 0 THEN {}
  ELSE Emit(code, n, scaled[1], scaled[2], {n, d} \cup extra, NoPrice)

-----------------------------------------------------------------------------
(* calculate_panel_metrics *)

Revenues(items) == {o \in Standalone(items) : o.code = "revenue"}

Growth(items, revenue) ==
  LET Rate(code, yearOffset) ==
        UNION {SafeRatio(code, revenue, base, <<revenue.value - base.value, base.value>>, {})
                 : base \in Previous(Revenues(items), revenue, yearOffset)}
  IN  IF revenue.type = "year" THEN Rate("revenue_yoy_growth", 0)
      ELSE Rate("revenue_qoq_growth", 0) \cup Rate("revenue_yoy_growth", 1)

Margins(items, revenue) ==
  LET Margin(code, numerator) ==
        UNION {SafeRatio(code, n, revenue, <<n.value, revenue.value>>, {})
                 : n \in Beside(Standalone(items), revenue, numerator)}
  IN  Margin("gross_margin", "gross_profit") \cup Margin("operating_margin", "operating_profit")
        \cup Margin("net_margin", "net_income")

\* Net income of the period, times four for a quarter, over the average of the
\* balance at its end and at the end of the period before.
Return(items, revenue, code, balance) ==
  LET factor == IF revenue.type = "quarter" THEN 4 ELSE 1
  IN  UNION {UNION {UNION {
        SafeRatio(code, n, b, <<2 * factor * n.value, b.value + prior.value>>, {prior})
          : prior \in Previous({o \in items : o.code = balance}, b, 0)}
          : b \in Beside(items, revenue, balance)}
          : n \in Beside(items, revenue, "net_income")}

Leverage(items, revenue) ==
  UNION {UNION {SafeRatio("debt_to_equity", l, e, <<l.value, e.value>>, {})
                  : e \in Beside(items, revenue, "equity")}
                  : l \in Beside(items, revenue, "total_liabilities")}

FreeCashFlow(items, revenue) ==
  UNION {UNION {
    IF Compatible(o, c) THEN Emit("free_cash_flow", o, o.value - c.value, 1, {o, c}, NoPrice)
    ELSE {}
      : c \in Beside(items, revenue, "capital_expenditure")}
      : o \in Beside(items, revenue, "operating_cash_flow")}

\* The newest consolidated figure per share, when it and the price are positive
\* and of one unit.
Valuation(items, code, perShare) ==
  LET figures == {o \in items : o.code = perShare /\ o.consolidated}
  IN  UNION {IF price = NoPrice THEN {}
             ELSE IF o.value <= 0 \/ price.value <= 0 \/ o.unit # price.unit THEN {}
             ELSE Emit(code, o, price.value, o.value, {o}, price)
               : o \in {p \in figures : \A q \in figures : q.end <= p.end}}

PanelMetrics(observations) ==
  LET items == LatestVersions(observations)
      OfPeriod(r) == Growth(items, r) \cup Margins(items, r)
                       \cup Return(items, r, "roe", "equity")
                       \cup Return(items, r, "roa", "total_assets")
                       \cup Leverage(items, r) \cup FreeCashFlow(items, r)
  IN  Valuation(items, "pe", "eps_ttm") \cup Valuation(items, "pb", "book_value_per_share")
        \cup (UNION {OfPeriod(r) : r \in Revenues(items)})

-----------------------------------------------------------------------------
Init == stored = {} /\ price = NoPrice

\* A report is ingested; reports arrive in any order, corrections included.
Ingest ==
  /\ \E report \in Reports :
       /\ ~(report \subseteq stored)
       /\ OneRowPerVersion(stored \cup report)
       /\ stored' = stored \cup report
  /\ UNCHANGED price

PriceMoves ==
  /\ price' \in Prices \cup {NoPrice}
  /\ UNCHANGED stored

Next == Ingest \/ PriceMoves

Spec == Init /\ [][Next]_vars

-----------------------------------------------------------------------------
(* Properties *)

\* The newest version the store has of the figure o is a version of.
NewestOf(o) ==
  CHOOSE p \in stored : /\ SameFigure(p, o) /\ p.type = o.type
                        /\ \A q \in stored : SameFigure(q, o) /\ q.type = o.type
                                               => q.version <= p.version

\* The codes of the figures a metric is made of, of its own period and of the
\* one it is compared or averaged with.
Ground(code) ==
  CASE code \in {"revenue_qoq_growth", "revenue_yoy_growth"} -> {"revenue"}
    [] code = "gross_margin" -> {"gross_profit", "revenue"}
    [] code = "operating_margin" -> {"operating_profit", "revenue"}
    [] code = "net_margin" -> {"net_income", "revenue"}
    [] code = "roe" -> {"net_income", "equity"}
    [] code = "roa" -> {"net_income", "total_assets"}
    [] code = "debt_to_equity" -> {"total_liabilities", "equity"}
    [] code = "free_cash_flow" -> {"operating_cash_flow", "capital_expenditure"}
    [] code = "pe" -> {"eps_ttm"}
    [] code = "pb" -> {"book_value_per_share"}

EarlierGround(code) ==
  CASE code \in {"revenue_qoq_growth", "revenue_yoy_growth"} -> {"revenue"}
    [] code = "roe" -> {"equity"}
    [] code = "roa" -> {"total_assets"}
    [] OTHER -> {}

\* The figures of the store a metric is about, by its definition.
Needs(metric) ==
  LET step == IF metric.type = "year" \/ metric.code = "revenue_yoy_growth" THEN 4 ELSE 1
  IN  {NewestOf(o) : o \in {p \in stored :
         /\ p.type = metric.type /\ p.consolidated = metric.consolidated
         /\ \/ p.end = metric.end /\ p.code \in Ground(metric.code)
            \/ p.end = metric.end - step /\ p.code \in EarlierGround(metric.code)}}

\* No metric claims to have been known before one of the reported figures it rests
\* on, the balance or the revenue of the earlier period included; one figure without
\* a publication date leaves the metric without one.  The price of a multiple is no
\* reported figure: KnownAfterPrice is about it.
KnownAfterReports ==
  \A metric \in PanelMetrics(stored) :
    metric.published # Undated =>
      \A o \in Needs(metric) : o.published # Undated /\ o.published <= metric.published

\* DESIGN.md:47 "Missing or future publication metadata must never leak into a
\* historical run": no multiple claims to have been known before the trading day of
\* the price it was calculated from.
KnownAfterPrice ==
  \A metric \in PanelMetrics(stored) :
    metric.published # Undated /\ metric.price # NoPrice =>
      metric.price.day <= metric.published

\* Whatever arrived, and in whatever order, a metric is made of the newest
\* versions of its figures, all of one scope, period type and unit, and none
\* accumulated over several quarters.
LikeWithLike ==
  \A metric \in PanelMetrics(stored) :
    /\ metric.denominator # 0
    /\ \A o, p \in metric.inputs : /\ o.unit = p.unit /\ o.type = p.type
                                   /\ o.consolidated = p.consolidated
    /\ \A o \in metric.inputs : o = NewestOf(o) /\ o.basis # "cumulative"

\* The store has figures of code for every period the metric needs.
HasFigures(end, type, consolidated, codes) ==
  \A code \in codes : \E o \in stored :
    o.end = end /\ o.type = type /\ o.consolidated = consolidated /\ o.code = code

\* The net margin of a quarter is feasible: the store has both figures, in
\* one unit, over a revenue that is not zero.
NetMarginFeasible(end, consolidated) ==
  /\ HasFigures(end, "quarter", consolidated, {"revenue", "net_income"})
  /\ LET Figure(code) == NewestOf([end |-> end, type |-> "quarter", code |-> code,
                                   consolidated |-> consolidated])
     IN  Figure("revenue").unit = Figure("net_income").unit /\ Figure("revenue").value # 0

ShowsNetMargin(end, consolidated) ==
  \E metric \in PanelMetrics(stored) :
    /\ metric.code = "net_margin" /\ metric.type = "quarter"
    /\ metric.end = end /\ metric.consolidated = consolidated

Ends == {o.end : o \in stored}

\* metrics.py:261 "Calculate all feasible initial-panel metrics from explicit
\* inputs": every quarter with both figures shows its net margin.
AllFeasible ==
  \A end \in Ends, consolidated \in BOOLEAN :
    NetMarginFeasible(end, consolidated) => ShowsNetMargin(end, consolidated)

\* The same for the quarters whose end is not also the end of a reported year:
\* no cumulative figure, restatement, other scope or missing date hides a
\* margin that can be calculated.
FeasibleWithoutYear ==
  \A end \in Ends, consolidated \in BOOLEAN :
    /\ NetMarginFeasible(end, consolidated)
    /\ ~\E o \in stored : o.end = end /\ o.type = "year"
    => ShowsNetMargin(end, consolidated)
=============================================================================
