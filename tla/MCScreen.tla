------------------------------ MODULE MCScreen ------------------------------
EXTENDS Screen

BarOf(close, volume, valid, critical, status) ==
  [bar |-> TRUE, status |-> status,
   row |-> [day |-> 0, open |-> close, close |-> close, volume |-> volume,
            valid |-> valid, critical |-> critical]]
GapOf(status) == [bar |-> FALSE, status |-> status]

Low  == BarOf(1, 2, TRUE, FALSE, "active")
High == BarOf(2, 2, TRUE, FALSE, "active")
Gap  == GapOf("active")

\* Every kind of day the filters and the criteria tell apart: without volume,
\* with an invalid row that has no close and one that is critical, halted, and none.
Troubled ==
  {BarOf(2, 0, TRUE, FALSE, "active"), BarOf(0, 2, FALSE, FALSE, "active"),
   BarOf(2, 2, FALSE, TRUE, "active"), BarOf(2, 2, TRUE, FALSE, "halted")}

\* Symbol 1 meets trouble from the third day on; symbol 2 trades or has a gap,
\* which keeps the market's sessions apart from the days of symbol 1, and may be
\* listed after the first screen.
MCDayMenu ==
  [d \in 1..MaxDay |-> [s \in Symbols |->
     IF s = 1 THEN IF d = 1 THEN {Low, High}
                   ELSE IF d = 2 THEN {Low, Gap}
                   ELSE {High, Gap} \cup Troubled
     ELSE IF d <= 2 THEN {Low, Gap} ELSE {High, Gap}]]

\* Symbol 2 before symbol 1, and symbol 1 alone, given twice.
MCCandidateLists == {<<2, 1>>, <<1, 1>>}
MCFlaggedSets == {{}, {2}}
=============================================================================
