------------------------ MODULE MCFundamentalPanel --------------------------
(***************************************************************************)
(* An instance of FundamentalPanel: the third and the fourth quarter of a  *)
(* year, the quarter and the year after it, corrections, an accumulated    *)
(* figure, a figure in another unit, one of the separate company, a zero   *)
(* revenue and undated reports, ingested in any order.                     *)
(***************************************************************************)
EXTENDS FundamentalPanel

Figure(end, type, code, value, basis, version, ingested, published) ==
  [end |-> end, type |-> type, code |-> code, base |-> code, consolidated |-> TRUE,
   value |-> value, unit |-> "million", basis |-> basis, version |-> version,
   ingested |-> ingested, published |-> published]

Quarter(end, code, value, version, ingested, published) ==
  Figure(end, "quarter", code, value, "standalone", version, ingested, published)
Balance(end, value, version, ingested, published) ==
  Figure(end, "quarter", "equity", value, "point_in_time", version, ingested, published)
PerShareFigure(end, code, value, basis, ingested, published) ==
  Figure(end, "quarter", code, value, basis, 1, ingested, published)
Annual(end, code, value, ingested, published) ==
  Figure(end, "year", code, value, "annual", 1, ingested, published)
Accumulated(end, code, base, value, ingested, published) ==
  [Figure(end, "quarter", code, value, "cumulative", 1, ingested, published) EXCEPT !.base = base]
Separate(o) == [o EXCEPT !.consolidated = FALSE]
InBillions(o) == [o EXCEPT !.unit = "billion"]

MCReports == {
  \* the third quarter, and the fourth with its balance
  {Quarter(3, "revenue", 10, 1, 1, 1), Balance(3, 5, 1, 1, 1)},
  {Quarter(4, "revenue", 12, 1, 2, 2), Quarter(4, "net_income", 2, 1, 2, 2), Balance(4, 6, 1, 2, 2)},
  \* a correction to no revenue, one of the balance without a date, and a later one
  {Quarter(4, "revenue", 0, 2, 4, 4)},
  {Balance(4, 7, 2, 5, Undated)},
  {Balance(4, 8, 3, 8, 6)},
  \* the annual report
  {Annual(4, "revenue", 40, 3, 3), Annual(4, "net_income", 8, 3, 3),
   Figure(4, "year", "equity", 6, "point_in_time", 1, 3, 3)},
  \* the next quarter: accumulated, of the separate company, and its first version late
  {Quarter(5, "revenue", 15, 2, 6, 5), Quarter(5, "net_income", 3, 1, 6, 5), Balance(5, 9, 1, 6, 5),
   InBillions(Quarter(5, "gross_profit", 1, 1, 6, 5)),
   Quarter(5, "operating_cash_flow", 4, 1, 6, 5), Quarter(5, "capital_expenditure", 1, 1, 6, 5)},
  {Quarter(5, "revenue", 14, 1, 7, 5)},
  {Accumulated(5, "revenue_cumulative", "revenue", 15, 6, 5),
   Accumulated(5, "net_income_cumulative", "net_income", 3, 6, 5)},
  {Separate(Quarter(5, "revenue", 9, 1, 6, 5)), Separate(Quarter(5, "net_income", 2, 1, 6, 5))},
  \* the quarter a year after the fourth, and two figures per share
  {Quarter(8, "revenue", 20, 1, 9, 8), Figure(8, "quarter", "total_liabilities", 3, "point_in_time", 1, 9, 8),
   Balance(8, 0, 1, 9, 8)},
  {PerShareFigure(4, "eps_ttm", 2, "ratio", 2, 2),
   PerShareFigure(4, "book_value_per_share", 5, "point_in_time", 2, Undated)},
  {PerShareFigure(5, "eps_ttm", 0, "ratio", 6, 5),
   PerShareFigure(5, "book_value_per_share", 4, "point_in_time", 6, 5)}}

\* A price of a day before the last reports and one of a later day.
MCPrices == {[value |-> 20, unit |-> "million", day |-> d] : d \in {2, 7}}
=============================================================================
