------------------------------ MODULE MCBacktest ------------------------------
EXTENDS BacktestReport

BarOf(open, close, volume, valid, status) ==
  [traded |-> TRUE, open |-> open, close |-> close, volume |-> volume,
   valid |-> valid, status |-> status]
GapOf(status) == [traded |-> FALSE, status |-> status]

\* The capital buys two shares at the low price, of which the thin bar gives one
\* under the participation cap, and none at the high price.
Low  == BarOf(1, 1, 2, TRUE, "active")
High == BarOf(3, 3, 5, TRUE, "active")

\* Every kind of day the rules tell apart: without volume, with an invalid row,
\* with both, with a halted status, and suspended.
Troubled ==
  {BarOf(1, 3, 0, TRUE, "active"), BarOf(1, 1, 5, FALSE, "active"),
   BarOf(3, 3, 0, FALSE, "active"), BarOf(1, 1, 5, TRUE, "halted"), GapOf("halted")}

\* Two quiet rows before the period, one too few for the strategy's warm-up.
MCHistory ==
  [s \in Symbols |-> [i \in 1..2 |->
     [day |-> 0, open |-> 1, close |-> 1, volume |-> 2, valid |-> TRUE, status |-> "active"]]]

\* Symbol 1 meets every kind of day.  Symbol 2 trades every day and goes up and
\* down, so it asks for a slot or gives one back whenever symbol 1 does, and the
\* calendar goes on while symbol 1 has gaps.
MCMarketDays ==
  [n \in 1..MaxSessions |-> [s \in Symbols |->
     IF s = 1 THEN {Low, High} \cup Troubled
     ELSE {IF n % 2 = 1 THEN High ELSE Low}]]

\* The benchmark rises once, between the first and the second session.
MCBenchmarkCloses == [n \in 1..MaxSessions |-> IF n = 1 THEN 10 ELSE 11]
=============================================================================
