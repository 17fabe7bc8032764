---------------------------- MODULE BacktestReport ----------------------------
(***************************************************************************)
(* What a finished backtest reports: the curves run() appends to at the    *)
(* end of each session's marking, and the metrics of a window of them      *)
(* (backend/app/quant/backtest/metrics.py, compute_metrics and summarize). *)
(*                                                                         *)
(* A ratio is a pair <<n, d>> with d > 0, compared by cross-multiplication;*)
(* a metric built on a square root is represented by whether it is defined.*)
(***************************************************************************)
EXTENDS Backtest

CONSTANTS
  InSampleEnd,    \* last session of in_sample_period
  OutOfSampleStart,  \* first session of out_of_sample_period, after the last if none
  DailyRiskFree,  \* risk_free_rate_annual / trading_days_per_year, over RateUnit
  BenchmarkCloses \* per session, the benchmark's close; 0 when it has none

ASSUME Windows ==
  /\ InSampleEnd \in 1..MaxSessions /\ OutOfSampleStart \in Nat
  /\ OutOfSampleStart > InSampleEnd
  /\ OutOfSampleStart <= MaxSessions \/ InSampleEnd = MaxSessions
  /\ DailyRiskFree \in Nat
  /\ BenchmarkCloses \in [1..MaxSessions -> Nat]

VARIABLES equityCurve, exposureCurve, notionalCurve

curves == <<equityCurve, exposureCurve, notionalCurve>>

-----------------------------------------------------------------------------
(* The curves *)

\* Mutant: the session's notional starts from the session before.
NotionalNotReset == IF notionalCurve = <<>> THEN sessionNotional
                    ELSE sessionNotional + notionalCurve[Len(notionalCurve)]

\* What the orders of the session traded; halt exits come after the marking.
Notional == sessionNotional

EndSession ==
  /\ EndMark
  /\ equityCurve' = Append(equityCurve, equity')
  /\ exposureCurve' = Append(exposureCurve,
       IF equity' > 0 THEN <<marketValue * RateUnit, equity'>> ELSE <<0, 1>>)
  /\ notionalCurve' = Append(notionalCurve, Notional)

ReportInit == Init /\ equityCurve = <<>> /\ exposureCurve = <<>> /\ notionalCurve = <<>>

ReportNext ==
  \/ EndSession
  \/ /\ OpenSession \/ ExecuteOrder \/ EndExecute \/ MarkPosition \/ DecideSymbol \/ Finish
     /\ UNCHANGED curves

ReportSpec == ReportInit /\ [][ReportNext]_<<vars, curves>>

-----------------------------------------------------------------------------
(* Windows *)

Less(p, q) == p[1] * q[2] < q[1] * p[2]

\* The periods must not overlap; sessions may lie between them, and the full period
\* has those too.
FullPeriod == 1..MaxSessions
InSample == 1..InSampleEnd
OutOfSample == OutOfSampleStart..MaxSessions
Between == (InSampleEnd + 1)..(OutOfSampleStart - 1)

\* The periods summarize() reports: there may be no out-of-sample one.
SummaryPeriods == {FullPeriod, InSample} \cup {p \in {OutOfSample} : p # {}}

\* The sessions of the calendar that the period contains.
Window(period) == {n \in 1..session : n \in period}

\* Mutant: a window opens with its own first mark.
OpeningAtFirst(w) == equityCurve[Min(w)]

\* Equity at the close of the session before the window.
OpeningEquity(w) == IF Min(w) > 1 THEN equityCurve[Min(w) - 1] ELSE InitialCapital

\* A value over the one before, less one.
Return(before, after) == IF before = 0 THEN <<0, 1>> ELSE <<after - before, before>>

SessionReturn(w, n) ==
  Return(IF n = Min(w) THEN OpeningEquity(w) ELSE equityCurve[n - 1], equityCurve[n])

\* Equity over its highest value since session `from`.
Drawdown(from, n) ==
  LET peak == Max({equityCurve[k] : k \in from..n})
  IN  IF peak > 0 THEN <<equityCurve[n] - peak, peak>> ELSE <<0, 1>>

Deepest(drawdowns) == CHOOSE p \in drawdowns : \A q \in drawdowns : ~Less(q, p)

ClosedIn(w) == {t \in trades : t.exitDay \in w}

SumOf(field(_), ts) == SumFunction([t \in ts |-> field(t)])

-----------------------------------------------------------------------------
(* compute_metrics *)

\* The sums and counts the metrics are quotients of.
Tally(w) ==
  LET closed == ClosedIn(w)
      net(t) == t.netPnl
      held(t) == t.exitDay - t.entryDay
  IN  [sessions |-> Cardinality(w), trades |-> Cardinality(closed),
       wins |-> Cardinality({t \in closed : t.netPnl > 0}),
       grossProfit |-> SumOf(net, {t \in closed : t.netPnl > 0}),
       grossLoss |-> -SumOf(net, {t \in closed : t.netPnl < 0}),
       holding |-> SumOf(held, closed),
       notional |-> SumFunction([n \in w |-> notionalCurve[n]]),
       equity |-> SumFunction([n \in w |-> equityCurve[n]])]

\* An excess return is negative, or differs from another one.
Downside(w) == \E n \in w : Less(SessionReturn(w, n), <<DailyRiskFree, RateUnit>>)
Varies(w) == \E m, n \in w : Less(SessionReturn(w, m), SessionReturn(w, n))

\* The metrics a window has a value for.
Defined(w) ==
  LET tally == Tally(w) IN
  {metric \in {"total_return", "cagr", "volatility", "sharpe", "sortino", "win_rate",
               "profit_factor", "average_holding_period_days", "turnover"} :
     CASE metric = "total_return" -> w # {} /\ OpeningEquity(w) # 0
       [] metric = "cagr" -> w # {} /\ OpeningEquity(w) > 0 /\ equityCurve[Max(w)] > 0
       [] metric = "volatility" -> tally.sessions >= 2
       [] metric = "sharpe" -> Varies(w)
       [] metric = "sortino" -> Downside(w)
       [] metric \in {"win_rate", "average_holding_period_days"} -> tally.trades > 0
       [] metric = "profit_factor" -> tally.grossLoss > 0
       [] metric = "turnover" -> tally.equity # 0}

\* Final over opening equity, total_return plus one.
Growth(w) == <<equityCurve[Max(w)], OpeningEquity(w)>>

MaxDrawdown(w) == Deepest({Drawdown(Min(w), n) : n \in w})

\* drawdown_curve of the whole run.
DrawdownCurve == [n \in 1..session |-> Drawdown(1, n)]

-----------------------------------------------------------------------------
(* The comparison with the benchmark *)

\* The benchmark has a positive close on every session of the window.
Priced(w) == \A n \in w : BenchmarkCloses[n] > 0

BenchmarkReturn(n) == Return(BenchmarkCloses[n - 1], BenchmarkCloses[n])

\* The lists compute_metrics zips: the strategy's begins with the return of the
\* first session, over the opening equity, the benchmark's with that of the second.
Returns(w) == [k \in 1..Cardinality(w) |-> SessionReturn(w, Min(w) + k - 1)]
BenchmarkReturns(w) == [k \in 1..(Cardinality(w) - 1) |-> BenchmarkReturn(Min(w) + k)]

\* What beta, alpha, correlation, tracking error and information ratio are made of.
Paired(w) ==
  IF w = {} \/ ~Priced(w) THEN <<>>
  ELSE [k \in DOMAIN BenchmarkReturns(w) |-> <<Returns(w)[k], BenchmarkReturns(w)[k]>>]

-----------------------------------------------------------------------------
(* Properties *)

\* What a position entered in session `from` at the price paid is marked at: its
\* last positive close since then, or the price paid while there is none.
MarkOf(s, from, paid) ==
  LET closes == {i \in DOMAIN rows[s] : rows[s][i].day >= from /\ rows[s][i].close > 0}
  IN  IF closes = {} THEN paid ELSE rows[s][Max(closes)].close * RateUnit

\* What it gained from its entry to that mark.
GainToMark(s, from, paid, quantity) == (MarkOf(s, from, paid) - paid) * quantity * RateUnit

\* Price times quantity, of each fill of a set.
ValueOf(fs) == SumFunction([f \in fs |-> f.price * f.quantity])

\* The report can be recomputed from the records it is published with, whatever
\* the session brought.  Equity is the capital, plus the profit of the closed
\* trades, plus the open positions' gain up to their last close, and what the
\* session's halt exits fetched beyond the mark is the one thing it has not seen
\* yet.  The curve of traded notional has the value of every fill exactly once,
\* except the halt exits, which come after their session's entry in it.  No
\* session's exposure exceeds the whole equity.
CurvesMatchRecord ==
  LET haltedToday == {t \in trades : t.reason = "halt" /\ t.exitDay = session}
      beyondMark == [t \in haltedToday |->
        t.netPnl - GainToMark(t.symbol, t.entryDay, t.entryPrice, t.quantity)]
      paper == [s \in Held |->
        GainToMark(s, positions[s].entryDay, positions[s].entryPrice, positions[s].quantity)
          - positions[s].entryCosts]
      haltFills == {f \in fills : f.reason = "halt"}
  IN  phase = "decide" /\ session > 0 =>
        /\ equityCurve[session] + SumFunction(beyondMark)
             = InitialCapital + PnlAfterCosts + SumFunction(paper)
        /\ SumFunction(notionalCurve) + ValueOf(haltFills) = ValueOf(fills)
        /\ ~Less(<<1, 1>>, exposureCurve[session])

\* Growing by p and then by q is growing by the whole.
Composes(whole, p, q) == whole[1] * p[2] * q[2] = p[1] * q[1] * whole[2]

\* The metrics of the in-sample and the out-of-sample window and what happens in
\* the sessions between them make up the metrics of the run: growths multiply to
\* the full growth, counts and sums add up, the full drawdown is at least as deep
\* and the deepest point of the drawdown curve.  A metric defined in a part is
\* defined in the whole, and CAGR if it is defined in the part that ends the run.
WindowsCompose ==
  LET full == Window(FullPeriod)
      in == Window(InSample)
      between == Window(Between)
      out == Window(OutOfSample)
      before == in \cup between
      parts == {Window(p) : p \in SummaryPeriods \ {FullPeriod}}
      unseen == <<equityCurve[Min(out) - 1], equityCurve[Max(in)]>>
      added == [f \in DOMAIN Tally(full) |->
                  Tally(in)[f] + (Tally(between)[f] + Tally(out)[f])]
  IN  phase = "done" /\ out # {} =>
        /\ Composes(Growth(before), Growth(in), unseen)
        /\ Composes(Growth(full), Growth(before), Growth(out))
        /\ Tally(full) = added
        /\ \A w \in parts : ~Less(MaxDrawdown(w), MaxDrawdown(full))
        /\ \A n \in full : ~Less(DrawdownCurve[n], MaxDrawdown(full))
        /\ \A w \in parts : Defined(w) \ {"cagr"} \subseteq Defined(full)
        /\ "cagr" \in Defined(out) => "cagr" \in Defined(full)

-----------------------------------------------------------------------------
(* What the definitions published with the metrics say and the code does not do *)

\* metrics.py DEFINITIONS, beta: both series' daily returns "over sessions where
\* both series have a return": the two returns of a pair are of one session.
PairsAreOfOneSession ==
  phase = "done" => \A p \in SummaryPeriods :
    LET w == Window(p)
    IN  \A k \in DOMAIN Paired(w) : \E n \in w \ {Min(w)} :
          Paired(w)[k] = <<SessionReturn(w, n), BenchmarkReturn(n)>>

\* metrics.py DEFINITIONS, turnover: "total traded notional across both sides ...
\* Both a buy and the matching sell count toward the numerator."
TurnoverCountsBothSides ==
  phase = "done" => Tally(Window(FullPeriod)).notional = ValueOf(fills)
=============================================================================
