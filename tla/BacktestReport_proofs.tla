------------------------ MODULE BacktestReport_proofs ------------------------
(* Recording the curves leaves the session loop as it is: what is proved of   *)
(* the loop holds of every run that reports, and the curves have one value    *)
(* for every session that was marked.                                         *)
EXTENDS BacktestReport, Backtest_proofs

\* The reporting backtest implements the session loop: appending to the curves
\* at the end of each marking neither adds nor removes a step of run().
THEOREM ReportIsBacktest == ReportSpec => Spec
<1>1. ReportInit => Init
  BY DEF ReportInit
<1>2. [ReportNext]_<<vars, curves>> => [Next]_vars
  <2>1. ReportNext => Next
    BY DEF ReportNext, EndSession, Next
  <2>2. UNCHANGED <<vars, curves>> => UNCHANGED vars
    OBVIOUS
  <2> QED
    BY <2>1, <2>2
<1> QED
  BY <1>1, <1>2, PTL DEF ReportSpec, Spec

\* So the reported run has the properties of the loop.
THEOREM ReportedRunIsSound ==
  ReportSpec => [](OrderBook /\ AuditTrail /\ Ledger /\ NoFrozenPosition
                     /\ ExitAtFirstExecutableBar /\ HaltFillWithinHolding)
BY ReportIsBacktest, OrderBookCorrect, AuditIsComplete, LedgerBalances, NoPositionIsFrozen,
   ExitsAtFirstExecutableBar, HaltFillsWithinHolding, PTL

\* The sessions phase 2 has completed.
Marked == IF phase \in {"execute", "mark"} THEN session - 1 ELSE session

\* A session the marking completed, and no other, has a value in every curve, and
\* the last equity reported is the one the next orders are sized by.
CurvesInv ==
  /\ equityCurve \in Seq(Int) /\ notionalCurve \in Seq(Nat) /\ exposureCurve \in Seq(Int \X Int)
  /\ Len(equityCurve) = Marked /\ Len(notionalCurve) = Marked /\ Len(exposureCurve) = Marked
  /\ Marked > 0 => equityCurve[Marked] = equity

\* Appending to a curve.
LEMMA Appended ==
  ASSUME NEW S, NEW w \in Seq(S), NEW x \in S
  PROVE  /\ Append(w, x) \in Seq(S) /\ Len(Append(w, x)) = Len(w) + 1
         /\ Append(w, x)[Len(w) + 1] = x
OBVIOUS

LEMMA CurvesKept ==
  ASSUME TypeOK, CurvesInv, [ReportNext]_<<vars, curves>>
  PROVE  CurvesInv'
<1>0. session \in Nat /\ Marked \in Int
  BY Portfolio DEF TypeOK, Marked
<1>1. CASE EndSession
  <2>1. phase = "mark" /\ phase' = "decide" /\ session' = session
    BY <1>1 DEF EndSession, EndMark, market
  <2>2. Marked' = Marked + 1
    BY <1>0, <2>1 DEF Marked
  <2>3. equity' \in Int /\ sessionNotional \in Nat
    BY <1>1, EndMarkType DEF EndSession, TypeOK
  <2>4. (IF equity' > 0 THEN <<marketValue * RateUnit, equity'>> ELSE <<0, 1>>) \in Int \X Int
    <3>1. marketValue \in Int /\ RateUnit \in Int
      BY Frictions DEF TypeOK
    <3>2. marketValue * RateUnit \in Int
      BY <3>1
    <3> QED
      BY <2>3, <3>2
  <2> DEFINE exposure == IF equity' > 0 THEN <<marketValue * RateUnit, equity'>> ELSE <<0, 1>>
  <2>5. /\ equityCurve' = Append(equityCurve, equity')
        /\ exposureCurve' = Append(exposureCurve, exposure)
        /\ notionalCurve' = Append(notionalCurve, sessionNotional)
    BY <1>1 DEF EndSession, Notional
  <2> HIDE DEF exposure
  <2>6. exposure \in Int \X Int
    BY <2>4 DEF exposure
  <2>7. /\ equityCurve' \in Seq(Int) /\ notionalCurve' \in Seq(Nat)
        /\ exposureCurve' \in Seq(Int \X Int)
    BY <2>3, <2>5, <2>6, Appended DEF CurvesInv
  <2>8. /\ Len(equityCurve') = Marked + 1 /\ Len(notionalCurve') = Marked + 1
        /\ Len(exposureCurve') = Marked + 1 /\ equityCurve'[Marked + 1] = equity'
    BY SMTT(30), <2>3, <2>5, <2>6, Appended DEF CurvesInv
  <2> QED
    BY <2>2, <2>7, <2>8 DEF CurvesInv
<1>2. CASE /\ OpenSession \/ ExecuteOrder \/ EndExecute \/ MarkPosition \/ DecideSymbol \/ Finish
           /\ UNCHANGED curves
  <2>1. Marked' = Marked
    BY <1>0, <1>2 DEF Marked, OpenSession, ExecuteOrder, EndExecute, MarkPosition, DecideSymbol,
                      Finish, market
  <2>2. UNCHANGED <<equityCurve, exposureCurve, notionalCurve, equity>>
    BY <1>2 DEF OpenSession, ExecuteOrder, EndExecute, MarkPosition, DecideSymbol, Finish,
                curve, curves
  <2> QED
    BY <2>1, <2>2 DEF CurvesInv
<1>3. CASE UNCHANGED <<vars, curves>>
  BY <1>3 DEF vars, market, work, curve, curves, CurvesInv, Marked
<1> QED
  BY <1>1, <1>2, <1>3 DEF ReportNext

\* Every completed session has exactly one value in each of the three curves, and
\* the last equity reported is the reference of the next session's sizing.
THEOREM CurvesCoverSessions == ReportSpec => []CurvesInv
<1>1. ReportInit => CurvesInv
  BY DEF ReportInit, Init, CurvesInv, Marked
<1>2. TypeOK /\ CurvesInv /\ [ReportNext]_<<vars, curves>> => CurvesInv'
  BY CurvesKept
<1> QED
  BY <1>1, <1>2, ReportIsBacktest, TypeCorrect, PTL DEF ReportSpec

-----------------------------------------------------------------------------
(* Sums over a part *)

Part(f, U) == [x \in U |-> f[x]]

\* The sum over a part is one of the sums over the whole.
LEMMA PartialSum ==
  ASSUME NEW S, IsFiniteSet(S), NEW f, NEW g, SumsOver(S, f, g), NEW U \in SUBSET S
  PROVE  SumFunction(Part(f, U)) = g[U]
<1> DEFINE h == Part(f, U)
<1>1. h \in [U -> Int] /\ IsFiniteSet(U) /\ \A x \in U : f[x] = h[x]
  BY FS_Subset DEF SumsOver, Part
<1> HIDE DEF h
<1>2. PICK k \in [SUBSET U -> Int] : Running(h, U, k) /\ SumFunction(h) = k[U]
  BY <1>1, SumRuns
<1>3. U \in SUBSET U /\ Running(f, S, g) /\ Running(h, U, k)
  BY <1>2 DEF SumsOver
<1>4. g[U] = k[U]
  BY <1>1, <1>3, RunningAgree, SMTT(30)
<1> QED
  BY <1>2, <1>4 DEF h

\* The sum over the union of two disjoint parts is the sum of their sums.
LEMMA SumSplit ==
  ASSUME NEW S, IsFiniteSet(S), NEW f \in [S -> Int],
         NEW A \in SUBSET S, NEW R \in SUBSET S, A \cup R = S, A \cap R = {}
  PROVE  Adds(SumFunction(f), SumFunction(Part(f, A)), SumFunction(Part(f, R)))
<1>1. PICK g \in [SUBSET S -> Int] : Running(f, S, g) /\ SumFunction(f) = g[S]
  BY SumRuns
<1>2. SumsOver(S, f, g)
  BY <1>1 DEF SumsOver
<1>3. SumFunction(Part(f, A)) = g[A] /\ SumFunction(Part(f, R)) = g[R]
  BY <1>2, PartialSum
<1> DEFINE B == {U \in SUBSET A : g[U \cup R] # g[U] + g[R]}
<1>4. B = {}
  <2> SUFFICES ASSUME B # {} PROVE FALSE
    OBVIOUS
  <2>1. B \in SUBSET (SUBSET A) /\ IsFiniteSet(A)
    BY FS_Subset
  <2>2. PICK M \in B : \A U \in B : U \subseteq M => U = M
    <3> HIDE DEF B
    <3> QED
      BY <2>1, SmallestSubset
  <2>3. g[{}] = 0 /\ g[R] \in Int
    <3>1. {} \in SUBSET S
      OBVIOUS
    <3>2. g = [s \in SUBSET S |-> IF s = {} THEN 0 ELSE f[First(s)] + g[s \ {First(s)}]]
      BY <1>1 DEF Running
    <3> QED
      BY <3>1, <3>2, Zenon
  <2>4. M # {}
    <3> SUFFICES ASSUME M = {} PROVE FALSE
      OBVIOUS
    <3>1. M \cup R = R
      OBVIOUS
    <3>2. g[M \cup R] # g[M] + g[R]
      BY <2>2
    <3>3. g[M] = 0
      BY <2>3
    <3> HIDE DEF B
    <3> QED
      BY <2>3, <3>1, <3>2, <3>3
  <2>5. PICK x \in M : TRUE
    BY <2>4
  <2> DEFINE V == M \ {x}
  <2>6. V \in SUBSET A /\ V # M /\ V \subseteq M /\ x \notin R /\ x \in S
    BY <2>2, <2>5
  <2>7. M \in SUBSET S /\ M \cup R \in SUBSET S /\ x \in M \cup R
    BY <2>2, <2>5
  <2>8. Splits(f, g, M, x) /\ Splits(f, g, M \cup R, x)
    BY <1>2, <2>5, <2>7, RunningAny
  <2>9. (M \cup R) \ {x} = V \cup R
    BY <2>6
  <2>10. g[V \cup R] = g[V] + g[R]
    BY <2>2, <2>6
  <2>11. V \in SUBSET S /\ g[V] \in Int /\ f[x] \in Int
    BY <2>6
  <2>12. g[M] = f[x] + g[V] /\ g[M \cup R] = f[x] + g[V \cup R]
    BY <2>8, <2>9 DEF Splits
  <2> HIDE DEF V
  <2> QED
    BY <2>2, <2>3, <2>10, <2>11, <2>12
<1>5. g[A \cup R] = g[A] + g[R]
  BY <1>4
<1> QED
  BY <1>1, <1>3, <1>5 DEF Adds

\* A sum of numbers of one sign has that sign.
LEMMA SumSign ==
  ASSUME NEW S, IsFiniteSet(S), NEW f \in [S -> Int], NEW k \in {1, -1},
         \A x \in S : k * f[x] >= 0
  PROVE  k * SumFunction(f) >= 0
<1>1. PICK g \in [SUBSET S -> Int] : Running(f, S, g) /\ SumFunction(f) = g[S]
  BY SumRuns
<1>2. SumsOver(S, f, g)
  BY <1>1 DEF SumsOver
<1> DEFINE B == {U \in SUBSET S : ~(k * g[U] >= 0)}
<1>3. B = {}
  <2> SUFFICES ASSUME B # {} PROVE FALSE
    OBVIOUS
  <2>1. B \in SUBSET (SUBSET S)
    OBVIOUS
  <2>2. PICK M \in B : \A U \in B : U \subseteq M => U = M
    <3> HIDE DEF B
    <3> QED
      BY <2>1, SmallestSubset
  <2>3. g[{}] = 0
    <3>1. {} \in SUBSET S
      OBVIOUS
    <3>2. g = [s \in SUBSET S |-> IF s = {} THEN 0 ELSE f[First(s)] + g[s \ {First(s)}]]
      BY <1>1 DEF Running
    <3> QED
      BY <3>1, <3>2, Zenon
  <2>4. M # {}
    <3> SUFFICES ASSUME M = {} PROVE FALSE
      OBVIOUS
    <3>1. g[M] = 0 /\ ~(k * g[M] >= 0)
      BY <2>2, <2>3
    <3> QED
      BY <3>1
  <2>5. PICK x \in M : TRUE
    BY <2>4
  <2> DEFINE V == M \ {x}
  <2>6. V \in SUBSET S /\ V # M /\ V \subseteq M /\ x \in S /\ M \in SUBSET S
    BY <2>2, <2>5
  <2>7. Splits(f, g, M, x)
    BY <1>2, <2>5, <2>6, RunningAny
  <2>8. k * g[V] >= 0 /\ g[V] \in Int /\ f[x] \in Int /\ k * f[x] >= 0
    BY <2>2, <2>6
  <2>9. g[M] = f[x] + g[V]
    BY <2>7 DEF Splits
  <2>10. ~(k * g[M] >= 0)
    BY <2>2
  <2> HIDE DEF V, B
  <2>11. CASE k = 1
    BY <2>8, <2>9, <2>10, <2>11
  <2>12. CASE k = -1
    BY <2>8, <2>9, <2>10, <2>12
  <2> QED
    BY <2>11, <2>12
<1> QED
  BY <1>1, <1>3

Parts(S, A, R) == IsFiniteSet(S) /\ A \cup R = S /\ A \cap R = {}

LEMMA CardinalitySplit ==
  ASSUME NEW S, NEW A, NEW R, Parts(S, A, R)
  PROVE  /\ Cardinality(S) = Cardinality(A) + Cardinality(R)
         /\ Cardinality(A) \in Nat /\ Cardinality(R) \in Nat
<1>1. IsFiniteSet(A) /\ IsFiniteSet(R)
  BY FS_Subset DEF Parts
<1>2. Cardinality(S) = Cardinality(A) + Cardinality(R) - Cardinality({})
  <2>1. Cardinality(A \cup R) = Cardinality(A) + Cardinality(R) - Cardinality(A \cap R)
    BY <1>1, FS_Union
  <2>2. A \cup R = S /\ A \cap R = {}
    BY DEF Parts
  <2> QED
    BY <2>1, <2>2, Zenon
<1>3. Cardinality({}) = 0
  BY FS_EmptySet
<1>4. Cardinality(A) \in Nat /\ Cardinality(R) \in Nat
  BY <1>1, FS_CardinalityType
<1> QED
  BY <1>2, <1>3, <1>4

LEMMA SumOfParts ==
  ASSUME NEW S, NEW A, NEW R, Parts(S, A, R), NEW f \in [S -> Int]
  PROVE  /\ SumFunction(f) = SumFunction([x \in A |-> f[x]]) + SumFunction([x \in R |-> f[x]])
         /\ SumFunction([x \in A |-> f[x]]) \in Int
         /\ SumFunction([x \in R |-> f[x]]) \in Int
<1>1. IsFiniteSet(S) /\ A \in SUBSET S /\ R \in SUBSET S /\ A \cup R = S /\ A \cap R = {}
  BY DEF Parts
<1>2. Adds(SumFunction(f), SumFunction(Part(f, A)), SumFunction(Part(f, R)))
  BY <1>1, SumSplit
<1>3. IsFiniteSet(A) /\ IsFiniteSet(R)
  BY <1>1, FS_Subset
<1>4. Part(f, A) \in [A -> Int] /\ Part(f, R) \in [R -> Int]
  BY <1>1 DEF Part
<1>5. SumFunction(Part(f, A)) \in Int /\ SumFunction(Part(f, R)) \in Int
  BY <1>3, <1>4, SumType
<1> QED
  BY <1>2, <1>5 DEF Adds, Part

\* Finitely many numbers have a largest.
LEMMA MaxIsLargest ==
  ASSUME NEW S, IsFiniteSet(S), S # {}
  PROVE  S \subseteq Nat => Max(S) \in S /\ \A y \in S : Max(S) >= y
<1> DEFINE Above(x) == {y \in S : y > x}
           sets == {Above(x) : x \in S}
<1>1. sets \in SUBSET (SUBSET S) /\ sets # {}
  OBVIOUS
<1>2. PICK T \in sets : \A U \in sets : U \subseteq T => U = T
  <2> HIDE DEF sets
  <2> QED
    BY <1>1, SmallestSubset
<1>3. PICK x \in S : T = Above(x)
  OBVIOUS
<1> SUFFICES ASSUME S \subseteq Nat PROVE Max(S) \in S /\ \A y \in S : Max(S) >= y
  OBVIOUS
<1>0. \A y \in S : y \in Nat
  OBVIOUS
<1>4. ASSUME NEW y \in S, y > x PROVE FALSE
  <2>1. \A z \in S : z > y => z > x
    BY <1>0, <1>4
  <2>2. Above(y) \subseteq Above(x)
    BY <2>1
  <2>3. Above(y) \in sets
    OBVIOUS
  <2>4. y \in Above(x) /\ y \notin Above(y)
    BY <1>0, <1>4
  <2> HIDE DEF sets, Above
  <2> QED
    BY <1>2, <1>3, <2>2, <2>3, <2>4
<1>5. \A y \in S : x >= y
  BY <1>0, <1>4
<1> HIDE DEF Above, sets
<1> QED
  BY <1>5 DEF Max

-----------------------------------------------------------------------------
(* The record of the fills *)

\* A fill is the entry of a position that is held or the entry or the exit of a
\* closed trade, so that each is recorded once.
FillInv ==
  /\ \A f \in fills :
       /\ f.side = "sell" => \E t \in trades : t.symbol = f.symbol /\ t.exitDay = f.day
       /\ f.side = "buy" => \/ f.symbol \in Held /\ positions[f.symbol].entryDay = f.day
                            \/ \E t \in trades : t.symbol = f.symbol /\ t.entryDay = f.day
  /\ IsFiniteSet(fills)

\* The fill of a full exit.
ExitFill(s, price, rowDay, reason) ==
  [symbol |-> s, side |-> "sell", day |-> session, rowDay |-> rowDay, price |-> price,
   quantity |-> positions[s].quantity, reason |-> reason]

EntryFill(s, price, q) ==
  [symbol |-> s, side |-> "buy", day |-> session, rowDay |-> session, price |-> price,
   quantity |-> q, reason |-> "order"]

LEMMA FillsKept ==
  ASSUME TypeOK, OrderInv, TradeInv, FillInv, [Next]_vars PROVE FillInv'
<1>0. \A s \in Held : s \in Symbols
  BY HeldType
<1>1. CASE Kept
  BY <1>1 DEF Kept, FillInv
<1>2. ASSUME NEW o \in queue, FillEntry(o) PROVE FillInv'
  <2>1. PICK price \in Nat, q \in Nat \ {0} : Enters(o.symbol, price, q)
    BY <1>2, EntryFilled
  <2>2. o.symbol \notin Held /\ Held' = Held \cup {o.symbol}
    BY <1>2, EntryFilled
  <2> DEFINE new == EntryFill(o.symbol, price, q)
  <2>3. fills' = fills \cup {new} /\ trades' = trades
    BY <2>1 DEF Enters, EntryFill
  <2>4. new.side = "buy" /\ new.symbol = o.symbol /\ new.day = session
    BY DEF EntryFill
  <2> HIDE DEF new
  <2>5. \A s \in Held : positions'[s] = positions[s]
    BY <1>0, <2>1, <2>2 DEF Enters
  <2>6. positions'[o.symbol].entryDay = session
    BY <2>1 DEF Enters
  <2>7. IsFiniteSet(fills')
    BY <2>3, FS_AddElement DEF FillInv
  <2> QED
    BY <2>2, <2>3, <2>4, <2>5, <2>6, <2>7 DEF FillInv
<1>3. ASSUME NEW s \in Held, Leaves(s) PROVE FillInv'
  <2>1. PICK price \in Nat, rowDay \in Nat, reason \in {"order", "halt"} :
          ClosePosition(s, price, rowDay, reason)
    BY <1>3 DEF Leaves
  <2>2. PICK t : trades' = trades \cup {t} /\ Closes(t, s, price, reason)
    BY <2>1, TradeClosed
  <2>3. Held' = Held \ {s}
    BY <1>0, <2>1, HeldAfterExit
  <2> DEFINE new == ExitFill(s, price, rowDay, reason)
  <2>4. fills' = fills \cup {new}
    BY <2>1 DEF ClosePosition, ExitFill
  <2>5. new.side = "sell" /\ new.symbol = s /\ new.day = session
    BY DEF ExitFill
  <2> HIDE DEF new
  <2>6. \A r \in Held' : positions'[r] = positions[r]
    BY <1>0, <2>1, <2>3 DEF ClosePosition, TypeOK
  <2>7. IsFiniteSet(fills')
    BY <2>4, FS_AddElement DEF FillInv
  <2> QED
    BY <2>2, <2>3, <2>4, <2>5, <2>6, <2>7 DEF FillInv, Closes
<1> QED
  BY <1>1, <1>2, <1>3, MoneyStep

\* What an entry or an exit records is new.
LEMMA NewEntryFill ==
  ASSUME TypeOK, OrderInv, TradeInv, FillInv, NEW o \in queue, FillEntry(o), NEW price, NEW q
  PROVE  EntryFill(o.symbol, price, q) \notin fills
<1>1. o \in Outstanding /\ o.side = "buy" /\ o.symbol \notin Held /\ session \in Nat
  BY EntryFilled, Portfolio DEF Outstanding, TypeOK
<1>2. o.decided = session - 1
  BY <1>1 DEF OrderInv, OrderBook, Outstanding
<1>3. \A t \in trades : /\ t.symbol = o.symbol => t.exitDay <= session - 1
                        /\ t.entryDay <= t.exitDay
  BY <1>1, <1>2 DEF TradeInv
<1>4. \A t \in trades : t.entryDay \in Nat /\ t.exitDay \in Nat
  BY DEF TypeOK, Trade
<1>5. \A t \in trades : t.symbol = o.symbol => t.entryDay # session
  BY <1>1, <1>3, <1>4
<1> QED
  BY <1>1, <1>5 DEF FillInv, EntryFill

LEMMA NewExitFill ==
  ASSUME TypeOK, TradeInv, FillInv, NEW s \in Held, NEW price, NEW rowDay, NEW reason
  PROVE  ExitFill(s, price, rowDay, reason) \notin fills
<1>1. positions[s].entryDay \in Nat /\ positions[s].entryDay <= session /\ session \in Nat
  BY HeldType, Portfolio DEF TradeInv, Position, TypeOK
<1>2. \A t \in trades : t.symbol = s => t.exitDay < positions[s].entryDay /\ t.exitDay \in Nat
  BY DEF TradeInv, TypeOK, Trade
<1>3. \A t \in trades : t.symbol = s => t.exitDay # session
  BY <1>1, <1>2
<1> QED
  BY <1>3 DEF FillInv, ExitFill

LEMMA FillInvariant == Spec => []FillInv
<1>1. Init => FillInv
  BY FS_EmptySet DEF Init, FillInv
<1>2. TypeOK /\ OrderInv /\ TradeInv /\ FillInv /\ [Next]_vars => FillInv'
  BY FillsKept
<1> QED
  BY <1>1, <1>2, TypeCorrect, OrderInvariant, TradeInvariant, PTL DEF Spec

-----------------------------------------------------------------------------
(* The notional curve *)

OrderFills == {f \in fills : f.reason = "order"}

Value(f) == f.price * f.quantity

Traded == SumFunction([f \in OrderFills |-> Value(f)])

\* The notional of a session in progress is not in the curve yet.
Uncurved == IF phase \in {"execute", "mark"} THEN sessionNotional ELSE 0

NotionalInv == SumFunction(notionalCurve) + Uncurved = Traded

LEMMA ValueType ==
  ASSUME TypeOK, NEW f \in fills
  PROVE  Value(f) \in Nat
<1>1. f.price \in Nat /\ f.quantity \in Nat
  BY DEF TypeOK, Fill
<1> QED
  BY <1>1 DEF Value

LEMMA OrderFillsSum ==
  ASSUME TypeOK, FillInv
  PROVE  /\ IsFiniteSet(OrderFills)
         /\ [f \in OrderFills |-> Value(f)] \in [OrderFills -> Int]
         /\ Traded \in Int
<1>1. IsFiniteSet(OrderFills)
  BY FS_Subset DEF FillInv, OrderFills
<1>2. [f \in OrderFills |-> Value(f)] \in [OrderFills -> Int]
  BY ValueType DEF OrderFills
<1> QED
  BY <1>1, <1>2, SumType DEF Traded

\* A fill of an order adds its value.
LEMMA TradedByOrder ==
  ASSUME TypeOK, FillInv, NEW f, f \notin fills, fills' = fills \cup {f}, f.reason = "order",
         Value(f) \in Int
  PROVE  Adds(Traded', Value(f), Traded)
<1> DEFINE a == [x \in OrderFills |-> Value(x)]
           b == [x \in OrderFills' |-> Value(x)]
<1>1. OrderFills' = OrderFills \cup {f} /\ f \notin OrderFills
  BY DEF OrderFills
<1>2. a \in [OrderFills -> Int] /\ IsFiniteSet(OrderFills)
  BY OrderFillsSum
<1>3. b \in [OrderFills \cup {f} -> Int] /\ (\A y \in OrderFills : b[y] = a[y])
      /\ b[f] = Value(f)
  BY <1>1, ValueType DEF OrderFills
<1>4. Traded' = SumFunction(b) /\ Traded = SumFunction(a)
  BY DEF Traded, Value
<1> HIDE DEF a, b
<1>5. Adds(SumFunction(b), b[f], SumFunction(a))
  BY <1>1, <1>2, <1>3, SumInsert
<1> QED
  BY <1>3, <1>4, <1>5

LEMMA TradedUnchanged ==
  ASSUME OrderFills' = OrderFills
  PROVE  Traded' = Traded
BY DEF Traded, Value

\* Appending to a curve adds to its sum.
LEMMA SumAppended ==
  ASSUME NEW w \in Seq(Int), NEW x \in Int
  PROVE  Adds(SumFunction(Append(w, x)), x, SumFunction(w))
<1> DEFINE n == Len(w)
           S == 1..n
           h == Append(w, x)
<1>1. n \in Nat /\ w \in [S -> Int] /\ n + 1 \notin S /\ IsFiniteSet(S)
  BY SMTT(30), FS_Interval
<1>2. h \in Seq(Int) /\ Len(h) = n + 1 /\ h[n + 1] = x
  BY Appended
<1>3. \A y \in S : h[y] = w[y]
  OBVIOUS
<1> HIDE DEF h
<1>4. h \in [1..(n + 1) -> Int]
  BY <1>1, <1>2
<1>5. 1..(n + 1) = S \cup {n + 1}
  BY <1>1
<1>6. h \in [S \cup {n + 1} -> Int]
  BY <1>4, <1>5
<1> HIDE DEF S
<1>7. Adds(SumFunction(h), h[n + 1], SumFunction(w))
  BY <1>1, <1>3, <1>6, SumInsert
<1> QED
  BY <1>2, <1>7 DEF h

LEMMA CurveSumType ==
  ASSUME NEW w \in Seq(Int)
  PROVE  SumFunction(w) \in Int
<1>1. w \in [1..Len(w) -> Int] /\ IsFiniteSet(1..Len(w))
  BY FS_Interval
<1> QED
  BY <1>1, SumType

LEMMA NotionalKept ==
  ASSUME TypeOK, OrderInv, TradeInv, FillInv, CurvesInv, NotionalInv,
         [ReportNext]_<<vars, curves>>
  PROVE  NotionalInv'
<1>0. /\ SumFunction(notionalCurve) \in Int /\ Traded \in Int /\ sessionNotional \in Int
      /\ notionalCurve \in Seq(Int)
  <2>1. notionalCurve \in Seq(Int)
    BY DEF CurvesInv
  <2> QED
    BY <2>1, CurveSumType, OrderFillsSum DEF TypeOK
<1>1. CASE EndSession
  <2>1. /\ phase = "mark" /\ phase' = "decide" /\ fills' = fills
        /\ notionalCurve' = Append(notionalCurve, sessionNotional)
    BY <1>1 DEF EndSession, EndMark, book, Notional
  <2>2. Adds(SumFunction(notionalCurve'), sessionNotional, SumFunction(notionalCurve))
    BY <1>0, <2>1, SumAppended
  <2>3. Traded' = Traded
    BY <2>1, TradedUnchanged DEF OrderFills
  <2> QED
    BY <1>0, <2>1, <2>2, <2>3 DEF NotionalInv, Uncurved, Adds
<1>2. CASE (OpenSession \/ EndExecute \/ MarkPosition \/ Finish) /\ UNCHANGED curves
  <2>1. fills' = fills /\ Uncurved' = Uncurved
    BY <1>2 DEF OpenSession, EndExecute, MarkPosition, Finish, book, Uncurved
  <2>2. Traded' = Traded
    BY <2>1, TradedUnchanged DEF OrderFills
  <2> QED
    BY <1>2, <2>1, <2>2 DEF NotionalInv, curves
<1>3. CASE UNCHANGED <<vars, curves>>
  <2>1. Traded' = Traded
    BY <1>3, TradedUnchanged DEF vars, book, OrderFills
  <2> QED
    BY <1>3, <2>1 DEF vars, book, work, curves, NotionalInv, Uncurved
<1>4. CASE ExecuteOrder /\ UNCHANGED curves
  <2>1. PICK o \in queue : KeepOrder(o) \/ CancelOrder(o) \/ FillEntry(o) \/ FillExit(o)
    BY <1>4 DEF ExecuteOrder
  <2>2. phase = "execute" /\ phase' = "execute" /\ notionalCurve' = notionalCurve
    BY <1>4 DEF ExecuteOrder, curves
  <2>3. Uncurved = sessionNotional /\ Uncurved' = sessionNotional'
    BY <2>2 DEF Uncurved
  <2>4. CASE KeepOrder(o) \/ CancelOrder(o)
    <3>1. fills' = fills /\ sessionNotional' = sessionNotional
      BY <2>4 DEF KeepOrder, CancelOrder
    <3>2. Traded' = Traded
      BY <3>1, TradedUnchanged DEF OrderFills
    <3> QED
      BY <2>2, <2>3, <3>1, <3>2 DEF NotionalInv
  <2>5. ASSUME NEW f, f \notin fills, fills' = fills \cup {f}, f.reason = "order",
               Value(f) \in Int, sessionNotional' = sessionNotional + Value(f)
        PROVE  NotionalInv'
    <3>1. Adds(Traded', Value(f), Traded)
      BY <2>5, TradedByOrder
    <3> QED
      BY <1>0, <2>2, <2>3, <2>5, <3>1 DEF NotionalInv, Adds
  <2>6. CASE FillEntry(o)
    <3>1. PICK price \in Nat, q \in Nat \ {0} : Enters(o.symbol, price, q)
      BY <2>6, EntryFilled
    <3> DEFINE f == EntryFill(o.symbol, price, q)
    <3>2. f.reason = "order" /\ Value(f) = price * q /\ price * q \in Int
      BY CostType DEF EntryFill, Value
    <3>3. f \notin fills
      BY <2>6, NewEntryFill
    <3>4. fills' = fills \cup {f} /\ sessionNotional' = sessionNotional + price * q
      BY <3>1 DEF Enters, EntryFill
    <3> HIDE DEF f
    <3> QED
      BY <2>5, <3>2, <3>3, <3>4
  <2>7. CASE FillExit(o)
    <3>1. o.symbol \in Held /\ o \in Order /\ session \in Nat
      BY <2>7, Portfolio DEF FillExit, Blocker, TypeOK
    <3>2. PICK price \in Nat : ClosePosition(o.symbol, price, session, "order")
      BY <2>7, <3>1, ExitPriceType
    <3> DEFINE f == ExitFill(o.symbol, price, session, "order")
               q == positions[o.symbol].quantity
    <3>3. q \in Nat
      BY <3>1, HeldType DEF Position
    <3>4. f.reason = "order" /\ f.price = price /\ f.quantity = q
      BY DEF ExitFill
    <3>5. f \notin fills
      BY <3>1, NewExitFill
    <3>6. fills' = fills \cup {f} /\ sessionNotional' = sessionNotional + price * q
      BY <3>2 DEF ClosePosition, ExitFill
    <3> HIDE DEF f, q
    <3>7. Value(f) = price * q /\ price * q \in Int
      BY <3>3, <3>4, CostType DEF Value
    <3> QED
      BY <2>5, <3>4, <3>5, <3>6, <3>7
  <2> QED
    BY <2>1, <2>4, <2>6, <2>7
<1>5. CASE DecideSymbol /\ UNCHANGED curves
  <2>1. PICK s \in toDecide :
          \/ HaltExit(s)
          \/ UNCHANGED fills
    BY <1>5 DEF DecideSymbol, Schedule, book
  <2>2. phase = "decide" /\ phase' = "decide" /\ notionalCurve' = notionalCurve
    BY <1>5 DEF DecideSymbol, curves
  <2>3. OrderFills' = OrderFills
    BY <2>1 DEF HaltExit, ClosePosition, OrderFills
  <2> QED
    BY <2>2, <2>3, TradedUnchanged DEF NotionalInv, Uncurved
<1> QED
  BY <1>1, <1>2, <1>3, <1>4, <1>5 DEF ReportNext

-----------------------------------------------------------------------------
(* The marks *)

\* The rows up to a session that a position entered earlier can be marked at.
ClosesIn(w, from, last) == {i \in DOMAIN w : w[i].day >= from /\ w[i].day <= last /\ w[i].close > 0}

MarkedAt(w, from, last, paid) ==
  IF ClosesIn(w, from, last) = {} THEN paid
  ELSE w[Max(ClosesIn(w, from, last))].close * RateUnit

\* The session whose bar a position was last marked at.
LastMarked(s) ==
  IF phase = "execute" \/ (phase = "mark" /\ s \in toMark) THEN session - 1 ELSE session

\* Every position is marked at its last positive close, from the rows.
MarkInv ==
  \A s \in Held :
    positions[s].lastMark
      = MarkedAt(rows[s], positions[s].entryDay, LastMarked(s), positions[s].entryPrice)

LEMMA LastClose ==
  ASSUME NEW w \in Seq(Row), NEW from, NEW last, ClosesIn(w, from, last) # {}
  PROVE  Max(ClosesIn(w, from, last)) \in ClosesIn(w, from, last)
<1> DEFINE S == ClosesIn(w, from, last)
<1>1. S \subseteq 1..Len(w) /\ Len(w) \in Nat
  <2>1. DOMAIN w = 1..Len(w) /\ Len(w) \in Nat
    OBVIOUS
  <2>2. S \subseteq DOMAIN w
    BY DEF ClosesIn
  <2> QED
    BY <2>1, <2>2
<1> HIDE DEF S
<1>2. IsFiniteSet(S)
  <2>1. IsFiniteSet(1..Len(w))
    BY <1>1, FS_Interval
  <2> QED
    BY <1>1, <2>1, FS_Subset
<1>3. S \subseteq Nat
  BY <1>1
<1>4. S # {} => Max(S) \in S
  BY <1>2, <1>3, MaxIsLargest
<1> QED
  BY <1>4 DEF S

\* A row of a later session changes no mark.
LEMMA LaterRowsDoNotMark ==
  ASSUME NEW w \in Seq(Row), NEW v, NEW from, NEW last, NEW paid,
         \A i \in DOMAIN w : i \in DOMAIN v /\ v[i] = w[i],
         \A i \in DOMAIN v : (i \in DOMAIN w /\ v[i] = w[i]) \/ ~(v[i].day <= last)
  PROVE  MarkedAt(v, from, last, paid) = MarkedAt(w, from, last, paid)
<1>1. ClosesIn(v, from, last) = ClosesIn(w, from, last)
  BY DEF ClosesIn
<1>2. CASE ClosesIn(w, from, last) = {}
  BY <1>1, <1>2 DEF MarkedAt
<1>3. CASE ClosesIn(w, from, last) # {}
  <2>1. Max(ClosesIn(w, from, last)) \in DOMAIN w
    BY <1>3, LastClose DEF ClosesIn
  <2> QED
    BY <1>1, <1>3, <2>1 DEF MarkedAt
<1> QED
  BY <1>2, <1>3

\* What MarkPosition looks at in a session: today's close, or the mark before.
LEMMA MarkedToday ==
  ASSUME TypeOK, RowsInv, NEW s \in Symbols, NEW from \in Nat, from <= session, session > 0,
         NEW paid
  PROVE  MarkedAt(rows[s], from, session, paid)
           = IF TradesToday(s) /\ Today(s).close > 0 THEN Today(s).close * RateUnit
             ELSE MarkedAt(rows[s], from, session - 1, paid)
<1> DEFINE w == rows[s]
           S == ClosesIn(w, from, session)
<1>0. /\ w \in Seq(Row) /\ DOMAIN w = 1..Len(w) /\ Len(w) \in Nat /\ session \in Nat
      /\ \A i \in DOMAIN w : w[i].day \in Nat /\ w[i].day <= session
  <2>1. w \in Seq(Row) /\ session \in Nat
    BY Portfolio DEF TypeOK
  <2>2. \A i \in DOMAIN w : w[i].day \in Nat
    BY <2>1, DayType
  <2> QED
    BY <2>1, <2>2 DEF RowsInv
<1>1. CASE TradesToday(s) /\ Today(s).close > 0
  <2>1. Len(w) \in S
    BY <1>0, <1>1 DEF TradesToday, Today, ClosesIn
  <2>2. \A y \in S : y <= Len(w) /\ y \in Nat
    BY <1>0 DEF ClosesIn
  <2>3. Max(S) = Len(w)
    <3> HIDE DEF S, w
    <3>1. \E x \in S : \A y \in S : x >= y
      BY <2>1, <2>2
    <3>2. Max(S) \in S /\ \A y \in S : Max(S) >= y
      BY <3>1 DEF Max
    <3> QED
      BY <1>0, <2>1, <2>2, <3>2
  <2> QED
    BY <1>1, <2>1, <2>3 DEF MarkedAt, Today
<1>2. CASE ~(TradesToday(s) /\ Today(s).close > 0)
  <2>1. \A i \in S : w[i].day # session
    BY <1>2, OnlyToday DEF ClosesIn
  <2>2. S = ClosesIn(w, from, session - 1)
    BY <1>0, <2>1 DEF ClosesIn
  <2> QED
    BY <1>2, <2>2 DEF MarkedAt
<1> QED
  BY <1>1, <1>2

\* The report's mark is that of the last session.
LEMMA MarkOfSession ==
  ASSUME TypeOK, RowsInv, NEW s \in Symbols, NEW from, NEW paid
  PROVE  MarkOf(s, from, paid) = MarkedAt(rows[s], from, session, paid)
<1>1. \A i \in DOMAIN rows[s] : rows[s][i].day <= session
  BY DEF RowsInv
<1> QED
  BY <1>1 DEF MarkOf, MarkedAt, ClosesIn

\* Only the decision phase is entered before the first session.
Started == phase # "decide" => session > 0

LEMMA StartedInvariant == Spec => []Started
<1>1. Init => Started
  BY DEF Init, Started
<1>2. TypeOK /\ Started /\ [Next]_vars => Started'
  <2> SUFFICES ASSUME TypeOK, Started, [Next]_vars PROVE Started'
    OBVIOUS
  <2>1. CASE OpenSession
    BY <2>1, SessionStep DEF Started
  <2>2. CASE ~OpenSession
    BY <2>2 DEF Started, Next, ExecuteOrder, EndExecute, MarkPosition, EndMark, DecideSymbol,
                Finish, vars, market, work
  <2> QED
    BY <2>1, <2>2
<1> QED
  BY <1>1, <1>2, TypeCorrect, PTL DEF Spec

LEMMA MarksKept ==
  ASSUME TypeOK, OrderInv, RowsInv, TradeInv, Started, MarkInv, [Next]_vars
  PROVE  MarkInv'
<1>0. /\ session \in Nat /\ \A s \in Symbols : rows[s] \in Seq(Row)
      /\ \A s \in Held : /\ s \in Symbols /\ positions[s].entryDay \in Nat
                         /\ positions[s].entryDay <= session
  BY HeldType, Portfolio DEF TypeOK, TradeInv, Position
<1>1. CASE OpenSession
  <2>1. /\ positions' = positions /\ phase = "decide" /\ phase' = "execute"
        /\ session' = session + 1
    BY <1>1 DEF OpenSession
  <2> SUFFICES ASSUME NEW s \in Held
               PROVE  positions[s].lastMark = MarkedAt(rows'[s], positions[s].entryDay,
                                                       session, positions[s].entryPrice)
    BY <1>0, <2>1 DEF MarkInv, LastMarked, Held
  <2>2. /\ \A i \in DOMAIN rows[s] : i \in DOMAIN rows'[s] /\ rows'[s][i] = rows[s][i]
        /\ \A i \in DOMAIN rows'[s] : \/ i \in DOMAIN rows[s] /\ rows'[s][i] = rows[s][i]
                                      \/ ~(rows'[s][i].day <= session)
    BY <1>0, RowsStep
  <2>3. MarkedAt(rows'[s], positions[s].entryDay, session, positions[s].entryPrice)
          = MarkedAt(rows[s], positions[s].entryDay, session, positions[s].entryPrice)
    BY <1>0, <2>2, LaterRowsDoNotMark
  <2> QED
    BY <2>1, <2>3 DEF MarkInv, LastMarked
<1>2. CASE MarkPosition
  <2>1. PICK x \in toMark : \E m :
          /\ m = IF TradesToday(x) /\ Today(x).close > 0 THEN Today(x).close * RateUnit
                 ELSE positions[x].lastMark
          /\ positions' = [positions EXCEPT ![x].lastMark = m] /\ toMark' = toMark \ {x}
    BY <1>2 DEF MarkPosition
  <2>2. PICK m :
          /\ m = IF TradesToday(x) /\ Today(x).close > 0 THEN Today(x).close * RateUnit
                 ELSE positions[x].lastMark
          /\ positions' = [positions EXCEPT ![x].lastMark = m] /\ toMark' = toMark \ {x}
    BY <2>1
  <2>3. /\ phase = "mark" /\ phase' = "mark" /\ session' = session /\ rows' = rows
        /\ Held' = Held /\ x \in Held /\ x \in Symbols /\ positions[x] \in Position
    BY <1>0, <1>2, MarkPositionStep, HeldType DEF MarkPosition, market, TypeOK
  <2>4. positions'[x] = [positions[x] EXCEPT !.lastMark = m]
    BY <2>2, <2>3 DEF TypeOK
  <2>5. /\ positions'[x].lastMark = m /\ positions'[x].entryDay = positions[x].entryDay
        /\ positions'[x].entryPrice = positions[x].entryPrice
    BY <2>3, <2>4 DEF Position
  <2>6. session > 0
    BY <2>3 DEF Started
  <2>7. positions[x].lastMark = MarkedAt(rows[x], positions[x].entryDay, session - 1,
                                         positions[x].entryPrice)
    BY <2>1, <2>3 DEF MarkInv, LastMarked
  <2>8. m = MarkedAt(rows[x], positions[x].entryDay, session, positions[x].entryPrice)
    BY <1>0, <2>2, <2>3, <2>6, <2>7, MarkedToday
  <2>9. ASSUME NEW s \in Held
        PROVE  positions'[s].lastMark = MarkedAt(rows[s], positions'[s].entryDay,
                                                 LastMarked(s)', positions'[s].entryPrice)
    <3>1. CASE s = x
      BY <2>2, <2>3, <2>5, <2>8, <3>1 DEF LastMarked
    <3>2. CASE s # x
      <4>1. positions'[s] = positions[s] /\ LastMarked(s)' = LastMarked(s)
        BY <1>0, <2>2, <2>3, <3>2 DEF LastMarked, TypeOK
      <4> QED
        BY <4>1 DEF MarkInv
    <3> QED
      BY <3>1, <3>2
  <2> QED
    BY <2>3, <2>9 DEF MarkInv
<1>3. CASE EndExecute \/ EndMark \/ Finish \/ UNCHANGED vars
  <2>1. positions' = positions /\ rows' = rows /\ Held' = Held
    BY <1>3 DEF EndExecute, EndMark, Finish, vars, book, market, Held
  <2>2. \A s \in Held : LastMarked(s)' = LastMarked(s)
    BY <1>3 DEF EndExecute, EndMark, Finish, vars, work, market, LastMarked
  <2> QED
    BY <2>1, <2>2 DEF MarkInv
<1>4. CASE ExecuteOrder
  <2>1. PICK o \in queue : KeepOrder(o) \/ CancelOrder(o) \/ FillEntry(o) \/ FillExit(o)
    BY <1>4 DEF ExecuteOrder
  <2>2. /\ phase = "execute" /\ phase' = "execute" /\ rows' = rows /\ session' = session
    BY <1>4 DEF ExecuteOrder, market
  <2>3. \A s : LastMarked(s)' = LastMarked(s) /\ LastMarked(s) = session - 1
    BY <2>2 DEF LastMarked
  <2>4. CASE KeepOrder(o) \/ CancelOrder(o)
    BY <2>2, <2>3, <2>4 DEF KeepOrder, CancelOrder, MarkInv, Held
  <2>5. CASE FillEntry(o)
    <3>1. /\ o.symbol \in Symbols /\ Held' = Held \cup {o.symbol} /\ o.symbol \notin Held
      BY <2>5, EntryFilled
    <3>2. PICK price \in Nat, q \in Nat \ {0} : Enters(o.symbol, price, q)
      BY <2>5, EntryFilled
    <3>3. ClosesIn(rows[o.symbol], session, session - 1) = {}
      <4>1. \A i \in DOMAIN rows[o.symbol] : rows[o.symbol][i].day \in Nat
        BY <1>0, <3>1, DayType
      <4> QED
        BY <1>0, <4>1 DEF ClosesIn
    <3>4. MarkedAt(rows[o.symbol], session, session - 1, price) = price
      BY <3>3 DEF MarkedAt
    <3>5. \A s \in Held : positions'[s] = positions[s]
      BY <1>0, <3>1, <3>2 DEF Enters
    <3>6. /\ positions'[o.symbol].lastMark = price /\ positions'[o.symbol].entryDay = session
          /\ positions'[o.symbol].entryPrice = price
      BY <3>2 DEF Enters
    <3> QED
      BY <2>2, <2>3, <3>1, <3>4, <3>5, <3>6 DEF MarkInv
  <2>6. CASE FillExit(o)
    <3>1. \A s \in Held' : s \in Held /\ positions'[s] = positions[s]
      BY <1>0, <2>6 DEF FillExit, ClosePosition, Held, TypeOK
    <3> QED
      BY <2>2, <2>3, <3>1 DEF MarkInv
  <2> QED
    BY <2>1, <2>4, <2>5, <2>6
<1>5. CASE DecideSymbol
  <2>1. PICK s \in toDecide : HaltExit(s) \/ UNCHANGED positions
    BY <1>5 DEF DecideSymbol, Schedule, book
  <2>2. /\ phase = "decide" /\ phase' = "decide" /\ rows' = rows /\ session' = session
    BY <1>5 DEF DecideSymbol, market
  <2>3. \A r : LastMarked(r)' = LastMarked(r)
    BY <2>2 DEF LastMarked
  <2>4. \A r \in Held' : r \in Held /\ positions'[r] = positions[r]
    BY <1>0, <2>1 DEF HaltExit, ClosePosition, Held, TypeOK
  <2> QED
    BY <2>2, <2>3, <2>4 DEF MarkInv
<1> QED
  BY <1>1, <1>2, <1>3, <1>4, <1>5 DEF Next

LEMMA MarkInvariant == Spec => []MarkInv
<1>1. Init => MarkInv
  BY DEF Init, MarkInv, Held
<1>2. TypeOK /\ OrderInv /\ RowsInv /\ TradeInv /\ Started /\ MarkInv /\ [Next]_vars => MarkInv'
  BY MarksKept
<1> QED
  BY <1>1, <1>2, TypeCorrect, OrderInvariant, RowsInvariant, TradeInvariant, StartedInvariant, PTL
     DEF Spec

-----------------------------------------------------------------------------
(* The equity and the exposure curve *)

\* What a position gained since its entry, which a closed one would be charged for.
Paper(s) ==
  (positions[s].lastMark - positions[s].entryPrice) * positions[s].quantity * RateUnit
    - positions[s].entryCosts

PaperOf(S) == SumFunction([s \in S |-> Paper(s)])
StakeOf(S) == SumFunction([s \in S |-> Stake(s)])

HaltedToday == {t \in trades : t.reason = "halt" /\ t.exitDay = session}

\* What a halt exit fetched beyond the mark of its session.
BeyondMark(t) == t.netPnl - GainToMark(t.symbol, t.entryDay, t.entryPrice, t.quantity)

Beyond == SumFunction([t \in HaltedToday |-> BeyondMark(t)])

\* The accumulator of the marking is worth what was paid for the positions marked so
\* far and what they gained; a marked session's equity is its records' but for what
\* halt exits fetched beyond the mark; and no exposure is above the equity.
EquityInv ==
  /\ phase = "mark" =>
       marketValue * RateUnit = PaperOf(Held \ toMark) + StakeOf(Held \ toMark)
  /\ phase \in {"execute", "mark"} => HaltedToday = {}
  /\ phase = "decide" /\ session > 0 =>
       equity + Beyond = InitialCapital + PnlAfterCosts + PaperOf(Held)
  /\ phase = "decide" /\ session > 0 => ~Less(<<1, 1>>, exposureCurve[session])

LEMMA PaperType ==
  ASSUME TypeOK, NEW s \in Held
  PROVE  /\ Paper(s) \in Int /\ Stake(s) \in Int
         /\ Paper(s) + Stake(s) = positions[s].lastMark * positions[s].quantity * RateUnit
<1>1. /\ positions[s].entryPrice \in Nat /\ positions[s].quantity \in Nat
      /\ positions[s].entryCosts \in Nat /\ positions[s].lastMark \in Nat
  BY HeldType DEF Position
<1> DEFINE bought == positions[s].entryPrice * positions[s].quantity * RateUnit
           worth == positions[s].lastMark * positions[s].quantity * RateUnit
<1>2. bought \in Nat /\ worth \in Nat
  BY <1>1, CostType
<1>3. (positions[s].lastMark - positions[s].entryPrice) * positions[s].quantity * RateUnit
        = worth - bought
  BY <1>1, Frictions
<1>4. Paper(s) = (worth - bought) - positions[s].entryCosts
  BY <1>3 DEF Paper
<1>5. Stake(s) = bought + positions[s].entryCosts
  BY DEF Stake
<1> HIDE DEF bought, worth
<1>6. Paper(s) + Stake(s) = worth /\ Paper(s) \in Int /\ Stake(s) \in Int
  BY <1>1, <1>2, <1>4, <1>5
<1> QED
  BY <1>6 DEF worth

LEMMA PaperSumType ==
  ASSUME TypeOK, NEW S \in SUBSET Held
  PROVE  PaperOf(S) \in Int /\ StakeOf(S) \in Int /\ IsFiniteSet(S)
<1>1. IsFiniteSet(S)
  BY HeldFinite, FS_Subset
<1>2. [s \in S |-> Paper(s)] \in [S -> Int] /\ [s \in S |-> Stake(s)] \in [S -> Int]
  BY PaperType
<1> QED
  BY <1>1, <1>2, SumType DEF PaperOf, StakeOf

\* The sums of the next state over the same positions and one newly marked.
LEMMA PaperInsert ==
  ASSUME TypeOK, NEW S \in SUBSET Held, NEW x, x \notin S,
         \A s \in S : positions'[s] = positions[s], Paper(x)' \in Int, Stake(x)' \in Int
  PROVE  /\ Adds(PaperOf(S \cup {x})', Paper(x)', PaperOf(S))
         /\ Adds(StakeOf(S \cup {x})', Stake(x)', StakeOf(S))
<1>0. /\ IsFiniteSet(S) /\ \A s \in S : Paper(s) \in Int /\ Stake(s) \in Int
      /\ \A s \in S : Paper(s)' = Paper(s) /\ Stake(s)' = Stake(s)
  BY PaperSumType, PaperType DEF Paper, Stake
<1>1. Adds(PaperOf(S \cup {x})', Paper(x)', PaperOf(S))
  <2> DEFINE f == [s \in S |-> Paper(s)]
             h == [s \in S \cup {x} |-> Paper(s)']
  <2>1. f \in [S -> Int] /\ h \in [S \cup {x} -> Int] /\ (\A y \in S : h[y] = f[y])
        /\ h[x] = Paper(x)'
    BY <1>0
  <2>2. PaperOf(S \cup {x})' = SumFunction(h) /\ PaperOf(S) = SumFunction(f)
    BY DEF PaperOf, Paper
  <2> HIDE DEF f, h
  <2>3. Adds(SumFunction(h), h[x], SumFunction(f))
    BY <1>0, <2>1, SumInsert
  <2> QED
    BY <2>1, <2>2, <2>3
<1>2. Adds(StakeOf(S \cup {x})', Stake(x)', StakeOf(S))
  <2> DEFINE f == [s \in S |-> Stake(s)]
             h == [s \in S \cup {x} |-> Stake(s)']
  <2>1. f \in [S -> Int] /\ h \in [S \cup {x} -> Int] /\ (\A y \in S : h[y] = f[y])
        /\ h[x] = Stake(x)'
    BY <1>0
  <2>2. StakeOf(S \cup {x})' = SumFunction(h) /\ StakeOf(S) = SumFunction(f)
    BY DEF StakeOf, Stake
  <2> HIDE DEF f, h
  <2>3. Adds(SumFunction(h), h[x], SumFunction(f))
    BY <1>0, <2>1, SumInsert
  <2> QED
    BY <2>1, <2>2, <2>3
<1> QED
  BY <1>1, <1>2

\* Nothing is marked yet when the marking begins.
LEMMA MarkingBegins ==
  ASSUME TypeOK, EndExecute
  PROVE  marketValue' * RateUnit = PaperOf(Held \ toMark)' + StakeOf(Held \ toMark)'
<1>1. (Held \ toMark)' = {} /\ marketValue' = 0
  BY DEF EndExecute, book, Held
<1>2. [s \in {} |-> Paper(s)'] \in [{} -> Int] /\ [s \in {} |-> Stake(s)'] \in [{} -> Int]
  OBVIOUS
<1>3. PaperOf(Held \ toMark)' = 0 /\ StakeOf(Held \ toMark)' = 0
  BY <1>1, <1>2, SumEmpty DEF PaperOf, StakeOf, Paper, Stake
<1> QED
  BY <1>1, <1>3, Frictions

LEMMA MarkingGoesOn ==
  ASSUME TypeOK, MarkPosition,
         marketValue * RateUnit = PaperOf(Held \ toMark) + StakeOf(Held \ toMark)
  PROVE  marketValue' * RateUnit = PaperOf(Held \ toMark)' + StakeOf(Held \ toMark)'
<1>1. PICK x \in toMark : \E m :
        /\ positions' = [positions EXCEPT ![x].lastMark = m]
        /\ marketValue' = marketValue + m * positions[x].quantity
        /\ toMark' = toMark \ {x}
  BY DEF MarkPosition
<1>2. PICK m :
        /\ positions' = [positions EXCEPT ![x].lastMark = m]
        /\ marketValue' = marketValue + m * positions[x].quantity
        /\ toMark' = toMark \ {x}
  BY <1>1
<1>3. x \in Held /\ x \in Symbols /\ positions[x] \in Position
  BY HeldType DEF TypeOK, MarkPosition
<1>4. TypeOK' /\ Held' = Held
  BY MarkPositionStep
<1>5. positions'[x] = [positions[x] EXCEPT !.lastMark = m]
  BY <1>2, <1>3 DEF TypeOK
<1>6. positions'[x] \in Position
  BY <1>3, <1>4 DEF TypeOK, Held
<1> DEFINE q == positions[x].quantity
<1>7. /\ positions'[x].lastMark = m /\ positions'[x].quantity = q
      /\ positions'[x].entryPrice = positions[x].entryPrice
      /\ positions'[x].entryCosts = positions[x].entryCosts
  BY <1>3, <1>5 DEF Position
<1>8. m \in Nat /\ q \in Nat /\ positions[x].entryPrice \in Nat /\ positions[x].entryCosts \in Nat
  BY <1>3, <1>6, <1>7 DEF Position
<1> HIDE DEF q
<1>9. /\ Paper(x)' \in Int /\ Stake(x)' \in Int
      /\ Paper(x)' + Stake(x)' = m * q * RateUnit
  <2> DEFINE bought == positions[x].entryPrice * q * RateUnit
             worth == m * q * RateUnit
  <2>1. bought \in Nat /\ worth \in Nat
    BY <1>8, CostType
  <2>2. (m - positions[x].entryPrice) * q * RateUnit = worth - bought
    BY <1>8, Frictions
  <2>3. Paper(x)' = (worth - bought) - positions[x].entryCosts
    BY <1>7, <2>2 DEF Paper
  <2>4. Stake(x)' = bought + positions[x].entryCosts
    BY <1>7 DEF Stake
  <2> HIDE DEF bought, worth
  <2>5. Paper(x)' + Stake(x)' = worth /\ Paper(x)' \in Int /\ Stake(x)' \in Int
    BY <1>8, <2>1, <2>3, <2>4
  <2> QED
    BY <2>5 DEF worth
<1>0. PICK S \in SUBSET Held : S = Held \ toMark
  OBVIOUS
<1>10. (Held \ toMark)' = S \cup {x} /\ x \notin S /\ S \in SUBSET Held
  BY <1>0, <1>2, <1>3, <1>4
<1>11. \A s \in S : positions'[s] = positions[s]
  BY <1>0, <1>2, HeldType DEF TypeOK
<1>12. /\ Adds(PaperOf(S \cup {x})', Paper(x)', PaperOf(S))
       /\ Adds(StakeOf(S \cup {x})', Stake(x)', StakeOf(S))
  BY <1>9, <1>10, <1>11, PaperInsert
<1>13. PaperOf(S) \in Int /\ StakeOf(S) \in Int
  BY <1>10, PaperSumType
<1>14. marketValue' * RateUnit = marketValue * RateUnit + m * q * RateUnit
  <2>1. marketValue' = marketValue + m * q
    BY <1>2 DEF q
  <2>2. marketValue \in Nat /\ m * q \in Nat /\ RateUnit \in Nat
    BY <1>8, CostType, Frictions DEF TypeOK
  <2> QED
    BY <2>1, <2>2
<1>15. marketValue * RateUnit = PaperOf(S) + StakeOf(S)
  BY <1>0
<1>16. PaperOf(Held \ toMark)' = PaperOf(S \cup {x})' /\ StakeOf(Held \ toMark)' = StakeOf(S \cup {x})'
  BY <1>10 DEF PaperOf, StakeOf
<1> QED
  BY <1>9, <1>12, <1>13, <1>14, <1>15, <1>16 DEF Adds

\* The marking is done: equity is cash and what the positions are worth.
LEMMA MarkingEnds ==
  ASSUME TypeOK, TradeInv, EndSession, EquityInv, CurvesInv, Ledger, CashNonNegative
  PROVE  EquityInv'
<1>1. /\ phase = "mark" /\ phase' = "decide" /\ toMark = {} /\ session' = session
      /\ positions' = positions /\ trades' = trades /\ cash' = cash
      /\ equity' = cash + marketValue * RateUnit
  BY DEF EndSession, EndMark, market, book
<1>2. Held \ toMark = Held
  BY <1>1
<1>3. marketValue * RateUnit = PaperOf(Held) + StakeOf(Held)
  BY <1>1, <1>2 DEF EquityInv
<1>4. Invested = StakeOf(Held)
  BY DEF Invested, StakeOf, Stake
<1>5. PaperOf(Held) \in Int /\ StakeOf(Held) \in Int
  BY PaperSumType
<1>6. InitialCapital \in Int /\ PnlAfterCosts \in Int
  BY LedgerType, Construction DEF ConfigAccepted
<1> DEFINE worth == marketValue * RateUnit
<1>7. worth \in Nat
  BY Frictions DEF TypeOK
<1>8. equity' = cash + worth
  BY <1>1
<1>9. worth = PaperOf(Held) + StakeOf(Held)
  BY <1>3
<1> HIDE DEF worth
<1>10. equity' = InitialCapital + PnlAfterCosts + PaperOf(Held)
  BY SMTT(30), <1>4, <1>5, <1>6, <1>7, <1>8, <1>9 DEF Ledger, TypeOK
<1>11. PaperOf(Held)' = PaperOf(Held) /\ PnlAfterCosts' = PnlAfterCosts
  BY <1>1 DEF PaperOf, Paper, Held, PnlAfterCosts
<1>13. HaltedToday' = {} /\ Beyond' = 0
  <2>1. HaltedToday' = {}
    BY <1>1 DEF EquityInv, HaltedToday
  <2>2. [t \in {} |-> BeyondMark(t)'] \in [{} -> Int]
    OBVIOUS
  <2> QED
    BY <2>1, <2>2, SumEmpty DEF Beyond
<1>14. equity' \in Int
  BY <1>7, <1>8 DEF TypeOK
<1>12. ~Less(<<1, 1>>, exposureCurve'[session])
  <2> DEFINE exposure == IF equity' > 0 THEN <<worth, equity'>> ELSE <<0, 1>>
  <2>1. exposureCurve' = Append(exposureCurve, exposure)
    BY DEF EndSession, worth
  <2>2. session \in Nat /\ Marked = session - 1
    BY <1>1, Portfolio DEF TypeOK, Marked
  <2>3. Len(exposureCurve) + 1 = session /\ exposureCurve \in Seq(Int \X Int)
    BY <2>2 DEF CurvesInv
  <2>4. equity' \in Int /\ worth <= equity'
    BY <1>7, <1>8 DEF CashNonNegative, TypeOK
  <2>5. exposure \in Int \X Int /\ exposure[1] <= exposure[2]
    BY <1>7, <2>4
  <2> HIDE DEF exposure
  <2>6. exposureCurve'[session] = exposure
    BY <2>1, <2>3, <2>5, Appended
  <2> QED
    BY <2>5, <2>6 DEF Less
<1> QED
  BY <1>1, <1>10, <1>11, <1>12, <1>13, <1>14 DEF EquityInv

\* The trades a session's halts closed, and what they fetched beyond the mark.
LEMMA BeyondType ==
  ASSUME TypeOK, RowsInv, NEW t \in Trade
  PROVE  BeyondMark(t) \in Int
<1>1. /\ t.symbol \in Symbols /\ t.entryDay \in Nat /\ t.entryPrice \in Nat /\ t.quantity \in Nat
      /\ t.netPnl \in Int /\ RateUnit \in Nat
  BY Frictions DEF Trade
<1>2. MarkOf(t.symbol, t.entryDay, t.entryPrice) \in Nat
  <2> DEFINE w == rows[t.symbol]
             S == ClosesIn(w, t.entryDay, session)
  <2>1. MarkOf(t.symbol, t.entryDay, t.entryPrice) = MarkedAt(w, t.entryDay, session, t.entryPrice)
    BY <1>1, MarkOfSession
  <2>2. w \in Seq(Row)
    BY <1>1 DEF TypeOK
  <2>3. CASE S = {}
    BY <1>1, <2>1, <2>3 DEF MarkedAt
  <2>4. CASE S # {}
    <3>1. Max(S) \in DOMAIN w
      BY <2>2, <2>4, LastClose DEF ClosesIn
    <3>2. w[Max(S)] \in Row
      BY <2>2, <3>1, DayType
    <3>4. w[Max(S)].close \in Nat
      BY <3>2 DEF Row
    <3>3. w[Max(S)].close * RateUnit \in Nat
      BY <1>1, <3>4
    <3> QED
      BY <2>1, <2>4, <3>3 DEF MarkedAt
  <2> QED
    BY <2>3, <2>4
<1>3. PICK mark \in Nat : mark = MarkOf(t.symbol, t.entryDay, t.entryPrice)
  BY <1>2
<1>4. (mark - t.entryPrice) * t.quantity * RateUnit \in Int
  BY <1>1
<1> QED
  BY <1>1, <1>3, <1>4 DEF BeyondMark, GainToMark

\* A halt exit moves what the position gained to the mark into the profit of its
\* trade, and what it fetched beyond the mark is what the curve has not seen.
LEMMA HaltAfterMarking ==
  ASSUME TypeOK, RowsInv, TradeInv, MarkInv, EquityInv, phase = "decide", session > 0,
         phase' = phase, UNCHANGED <<session, rows, equity>>,
         NEW s \in Held, NEW price \in Nat, NEW rowDay,
         ClosePosition(s, price, rowDay, "halt"), TypeOK'
  PROVE  (equity + Beyond = InitialCapital + PnlAfterCosts + PaperOf(Held))'
<1> DEFINE p == positions[s]
           gained == (p.lastMark - p.entryPrice) * p.quantity * RateUnit
           gross == (price - p.entryPrice) * p.quantity * RateUnit
           cost == CostOf(price, p.quantity)
<1>1. /\ s \in Symbols /\ p.entryPrice \in Nat /\ p.quantity \in Nat /\ p.entryCosts \in Nat
      /\ p.lastMark \in Nat /\ p.entryDay \in Nat /\ p.entryDay <= session /\ session \in Nat
  <2>1. s \in Symbols /\ p \in Position
    BY HeldType
  <2>2. p.entryDay <= session /\ session \in Nat
    BY Portfolio DEF TradeInv, TypeOK
  <2> QED
    BY <2>1, <2>2 DEF Position
<1>2. PICK t : trades' = trades \cup {t} /\ Closes(t, s, price, "halt")
  BY TradeClosed
<1>3. t \notin trades
  <2>1. \A x \in trades : x.symbol = s => x.exitDay < p.entryDay /\ x.exitDay \in Nat
    BY DEF TradeInv, TypeOK, Trade
  <2> QED
    BY <1>1, <1>2, <2>1 DEF Closes
<1>4. cost \in Nat /\ gross \in Int /\ gained \in Int
  <2>1. cost \in Nat
    BY <1>1, CostType
  <2>2. \A a, b, c, d \in Int : (a - b) * c * d \in Int
    OBVIOUS
  <2>3. gross \in Int /\ gained \in Int
    BY <1>1, <2>2, Frictions
  <2> QED
    BY <2>1, <2>3
<1>5. /\ Gain(t) = gross - (p.entryCosts + cost) /\ t.netPnl = gross - cost
      /\ t.symbol = s /\ t.entryDay = p.entryDay /\ t.entryPrice = p.entryPrice
      /\ t.quantity = p.quantity /\ t.reason = "halt" /\ t.exitDay = session
  BY <1>2 DEF Closes, Gain
<1>6. Paper(s) = gained - p.entryCosts
  BY DEF Paper
<1>7. BeyondMark(t) = (gross - cost) - gained
  <2>1. p.lastMark = MarkOf(s, p.entryDay, p.entryPrice)
    BY <1>1, MarkOfSession DEF MarkInv, LastMarked
  <2> QED
    BY <1>5, <2>1 DEF BeyondMark, GainToMark
<1>8. Held' = Held \ {s} /\ \A r \in Held' : r \in Held /\ positions'[r] = positions[r]
  BY <1>1, HeldAfterExit DEF ClosePosition, TypeOK, Held
<1> HIDE DEF p, gained, gross, cost
<1>9. Adds(PnlAfterCosts', Gain(t), PnlAfterCosts)
  BY <1>1, <1>2, <1>3, <1>4, <1>5, PnlByExit
<1>10. Adds(PaperOf(Held), Paper(s), PaperOf(Held)') /\ PaperOf(Held)' \in Int
  <2> DEFINE f == [r \in Held \ {s} |-> Paper(r)]
             h == [r \in (Held \ {s}) \cup {s} |-> Paper(r)]
             S == Held \ {s}
  <2>1. f \in [S -> Int] /\ h \in [S \cup {s} -> Int] /\ (\A y \in S : h[y] = f[y])
        /\ h[s] = Paper(s) /\ IsFiniteSet(S) /\ s \notin S
    BY PaperType, PaperSumType
  <2>2. \A r \in S : Paper(r)' = Paper(r)
    BY <1>8 DEF Paper
  <2>3. f = [r \in Held' |-> Paper(r)'] /\ (Held \ {s}) \cup {s} = Held
    BY <1>8, <2>2
  <2>4. PaperOf(Held)' = SumFunction(f) /\ PaperOf(Held) = SumFunction(h)
    BY <2>3 DEF PaperOf, Paper
  <2> HIDE DEF f, h, S
  <2>5. Adds(SumFunction(h), h[s], SumFunction(f)) /\ SumFunction(f) \in Int
    BY <2>1, SumInsert, SumType
  <2> QED
    BY <2>1, <2>4, <2>5
<1>11. Adds(Beyond', BeyondMark(t), Beyond) /\ Beyond \in Int
  <2> DEFINE S == HaltedToday
             f == [x \in HaltedToday |-> BeyondMark(x)]
             h == [x \in HaltedToday \cup {t} |-> BeyondMark(x)]
  <2>1. HaltedToday' = HaltedToday \cup {t} /\ t \notin HaltedToday
    BY <1>2, <1>3, <1>5 DEF HaltedToday
  <2>2. IsFiniteSet(S)
    BY FS_Subset DEF TradeInv, HaltedToday
  <2>3. \A x \in HaltedToday \cup {t} : x \in Trade
    BY <1>2 DEF TypeOK, HaltedToday
  <2>4. f \in [S -> Int] /\ h \in [S \cup {t} -> Int] /\ (\A y \in S : h[y] = f[y])
        /\ h[t] = BeyondMark(t)
    BY <2>3, BeyondType
  <2>5. \A x : BeyondMark(x)' = BeyondMark(x)
    BY DEF BeyondMark, GainToMark, MarkOf
  <2>6. Beyond' = SumFunction(h) /\ Beyond = SumFunction(f)
    BY <2>1, <2>5 DEF Beyond
  <2> HIDE DEF f, h
  <2>7. Adds(SumFunction(h), h[t], SumFunction(f)) /\ SumFunction(f) \in Int
    BY <2>1, <2>2, <2>4, SumInsert, SumType
  <2> QED
    BY <2>4, <2>6, <2>7
<1>12. equity + Beyond = InitialCapital + PnlAfterCosts + PaperOf(Held)
  BY DEF EquityInv
<1>13. /\ PnlAfterCosts \in Int /\ InitialCapital \in Int /\ equity \in Int
       /\ PaperOf(Held) \in Int
  BY LedgerType, Frictions, PaperSumType DEF TypeOK
<1>15. equity' = equity
  OBVIOUS
<1> QED
  BY <1>1, <1>4, <1>5, <1>6, <1>7, <1>9, <1>10, <1>11, <1>12, <1>13, <1>15 DEF Adds

LEMMA EquityKept ==
  ASSUME TypeOK, OrderInv, RowsInv, TradeInv, MarkInv, EquityInv, CurvesInv, Ledger,
         CashNonNegative, [ReportNext]_<<vars, curves>>
  PROVE  EquityInv'
<1>0. session \in Nat /\ \A t \in trades : t.exitDay \in Nat /\ t.exitDay <= session
  BY Portfolio DEF TypeOK, Trade, TradeInv
<1>1. CASE EndSession
  BY <1>1, MarkingEnds
<1>2. CASE EndExecute
  <2>1. /\ phase = "execute" /\ phase' = "mark" /\ session' = session /\ trades' = trades
    BY <1>2 DEF EndExecute, market, book
  <2>2. HaltedToday' = {}
    BY <2>1 DEF EquityInv, HaltedToday
  <2> QED
    BY <1>2, <2>1, <2>2, MarkingBegins DEF EquityInv
<1>3. CASE MarkPosition
  <2>1. phase = "mark" /\ phase' = "mark" /\ session' = session /\ trades' = trades
    BY <1>3 DEF MarkPosition, market
  <2>2. HaltedToday' = {}
    BY <2>1 DEF EquityInv, HaltedToday
  <2> QED
    BY <1>3, <2>1, <2>2, MarkingGoesOn DEF EquityInv
<1>4. CASE OpenSession
  <2>1. phase' = "execute" /\ session' = session + 1 /\ trades' = trades
    BY <1>4 DEF OpenSession
  <2>2. HaltedToday' = {}
    BY <1>0, <2>1 DEF HaltedToday
  <2> QED
    BY <2>1, <2>2 DEF EquityInv
<1>5. CASE ExecuteOrder
  <2>1. phase = "execute" /\ phase' = "execute" /\ session' = session
    BY <1>5 DEF ExecuteOrder, market
  <2>2. PICK o \in queue : KeepOrder(o) \/ CancelOrder(o) \/ FillEntry(o) \/ FillExit(o)
    BY <1>5 DEF ExecuteOrder
  <2>3. \A t \in trades' : t \in trades \/ t.reason = "order"
    BY <2>2 DEF KeepOrder, CancelOrder, FillEntry, FillExit, ClosePosition
  <2>4. HaltedToday' = {}
    BY <2>1, <2>3 DEF EquityInv, HaltedToday
  <2> QED
    BY <2>1, <2>4 DEF EquityInv
<1>6. CASE Finish
  BY <1>6 DEF Finish, EquityInv
<1>7. CASE DecideSymbol /\ UNCHANGED curves
  <2>1. /\ phase = "decide" /\ phase' = "decide" /\ session' = session /\ equity' = equity
        /\ exposureCurve' = exposureCurve /\ rows' = rows
    BY <1>7 DEF DecideSymbol, market, curve, curves
  <2>2. PICK s \in toDecide :
          \/ SignalOf(s) = "halt_exit" /\ HaltExit(s)
          \/ UNCHANGED <<positions, trades>>
    BY <1>7 DEF DecideSymbol, Schedule, book
  <2>3. CASE SignalOf(s) = "halt_exit" /\ HaltExit(s)
    <3>1. s \in Held /\ HaltPrice(s) \in Nat
      BY <2>3, HaltExitLong, HaltPriceType DEF TypeOK
    <3>2. ClosePosition(s, HaltPrice(s), HaltRowDay(s), "halt")
      BY <2>3 DEF HaltExit
    <3>3. TypeOK'
      BY <1>7, TypeCorrectStep DEF Next
    <3>4. session > 0 => (equity + Beyond = InitialCapital + PnlAfterCosts + PaperOf(Held))'
      BY <2>1, <3>1, <3>2, <3>3, HaltAfterMarking
    <3> QED
      BY <2>1, <3>4 DEF EquityInv
  <2>4. CASE UNCHANGED <<positions, trades>>
    <3>1. /\ PaperOf(Held)' = PaperOf(Held) /\ PnlAfterCosts' = PnlAfterCosts
          /\ Beyond' = Beyond
      BY <2>1, <2>4 DEF PaperOf, Paper, Held, PnlAfterCosts, HaltedToday, Beyond, BeyondMark,
                        GainToMark, MarkOf
    <3> QED
      BY <2>1, <3>1 DEF EquityInv
  <2> QED
    BY <2>2, <2>3, <2>4
<1>8. CASE UNCHANGED <<vars, curves>>
  <2>1. UNCHANGED <<phase, session, rows, toMark, marketValue, positions, trades, equity,
                    exposureCurve>>
    BY <1>8 DEF vars, market, work, book, curve, curves
  <2>2. /\ PaperOf(Held)' = PaperOf(Held) /\ PnlAfterCosts' = PnlAfterCosts
        /\ HaltedToday' = HaltedToday /\ Held' = Held /\ Beyond' = Beyond
        /\ PaperOf(Held \ toMark)' = PaperOf(Held \ toMark)
        /\ StakeOf(Held \ toMark)' = StakeOf(Held \ toMark)
    BY <2>1 DEF PaperOf, StakeOf, Stake, Paper, Held, PnlAfterCosts, HaltedToday, Beyond,
                BeyondMark, GainToMark, MarkOf
  <2> QED
    BY <2>1, <2>2 DEF EquityInv
<1> QED
  BY <1>1, <1>2, <1>3, <1>4, <1>5, <1>6, <1>7, <1>8 DEF ReportNext

\* Seen from the rows, what the open positions gained is what their marks say.
LEMMA PaperFromRows ==
  ASSUME TypeOK, RowsInv, MarkInv, phase = "decide"
  PROVE  [s \in Held |-> Paper(s)]
           = [s \in Held |->
                GainToMark(s, positions[s].entryDay, positions[s].entryPrice,
                           positions[s].quantity) - positions[s].entryCosts]
<1>1. ASSUME NEW s \in Held
      PROVE  MarkOf(s, positions[s].entryDay, positions[s].entryPrice) = positions[s].lastMark
  BY HeldType, MarkOfSession DEF MarkInv, LastMarked
<1> QED
  BY <1>1 DEF Paper, GainToMark

\* The halt exits and the fills of orders are all the fills.
LEMMA FillsSplit ==
  ASSUME TypeOK, FillInv
  PROVE  LET halts == {f \in fills : f.reason = "halt"}
         IN  /\ ValueOf(fills) = ValueOf(halts) + Traded
             /\ ValueOf(halts) \in Int
<1> DEFINE halts == {f \in fills : f.reason = "halt"}
           v == [f \in fills |-> Value(f)]
<1>1. v \in [fills -> Int]
  BY ValueType
<1>2. Parts(fills, halts, OrderFills)
  BY DEF Parts, OrderFills, FillInv, TypeOK, Fill
<1>3. /\ [f \in halts |-> v[f]] = [f \in halts |-> Value(f)]
      /\ [f \in OrderFills |-> v[f]] = [f \in OrderFills |-> Value(f)]
  BY DEF OrderFills
<1>4. ValueOf(fills) = SumFunction(v) /\ ValueOf(halts) = SumFunction([f \in halts |-> Value(f)])
  BY DEF ValueOf, Value
<1> HIDE DEF v, halts
<1>5. /\ SumFunction(v) = SumFunction([f \in halts |-> v[f]]) + SumFunction([f \in OrderFills |-> v[f]])
      /\ SumFunction([f \in halts |-> v[f]]) \in Int
  BY <1>1, <1>2, SumOfParts
<1>6. ValueOf(fills) = ValueOf(halts) + Traded /\ ValueOf(halts) \in Int
  BY <1>3, <1>4, <1>5 DEF Traded
<1> QED
  BY <1>6 DEF halts

\* Whatever the market, the convention, the sizing and the costs, the three curves
\* of the report can be recomputed from the rows, the trades, the fills and the open
\* positions published with it, halt exits of the session included, and no session's
\* exposure exceeds its equity.
THEOREM CurvesMatchTheRecord == ReportSpec => []CurvesMatchRecord
<1>1. ReportInit => NotionalInv /\ EquityInv
  <2> SUFFICES ASSUME ReportInit PROVE NotionalInv /\ EquityInv
    OBVIOUS
  <2>1. /\ fills = {} /\ notionalCurve = <<>> /\ phase = "decide" /\ session = 0
    BY DEF ReportInit, Init
  <2>2. OrderFills = {}
    BY <2>1 DEF OrderFills
  <2>3. Traded = 0
    <3>1. [f \in {} |-> Value(f)] \in [{} -> Int]
      OBVIOUS
    <3> QED
      BY <2>2, <3>1, SumEmpty DEF Traded
  <2>4. SumFunction(notionalCurve) = 0
    <3>1. <<>> \in [{} -> Int]
      OBVIOUS
    <3> QED
      BY <2>1, <3>1, SumEmpty
  <2> QED
    BY <2>1, <2>3, <2>4 DEF NotionalInv, EquityInv, Uncurved
<1>2. TypeOK /\ OrderInv /\ TradeInv /\ FillInv /\ CurvesInv /\ NotionalInv
        /\ [ReportNext]_<<vars, curves>> => NotionalInv'
  BY NotionalKept
<1>3. TypeOK /\ OrderInv /\ RowsInv /\ TradeInv /\ MarkInv /\ EquityInv /\ CurvesInv /\ Ledger
        /\ CashNonNegative /\ [ReportNext]_<<vars, curves>> => EquityInv'
  BY EquityKept
<1>4. TypeOK /\ RowsInv /\ FillInv /\ CurvesInv /\ MarkInv /\ NotionalInv /\ EquityInv
        => CurvesMatchRecord
  <2> SUFFICES ASSUME TypeOK, RowsInv, FillInv, CurvesInv, MarkInv, NotionalInv, EquityInv,
                      phase = "decide", session > 0
               PROVE  /\ equityCurve[session] + Beyond
                           = InitialCapital + PnlAfterCosts + PaperOf(Held)
                      /\ SumFunction(notionalCurve) + ValueOf({f \in fills : f.reason = "halt"})
                           = ValueOf(fills)
                      /\ ~Less(<<1, 1>>, exposureCurve[session])
    BY PaperFromRows DEF CurvesMatchRecord, HaltedToday, Beyond, BeyondMark, PaperOf
  <2>1. Marked = session /\ equityCurve[session] = equity
    BY DEF Marked, CurvesInv
  <2>2. notionalCurve \in Seq(Int)
    BY DEF CurvesInv
  <2>3. SumFunction(notionalCurve) \in Int /\ SumFunction(notionalCurve) + 0 = Traded
    BY <2>2, CurveSumType DEF NotionalInv, Uncurved
  <2>4. /\ ValueOf(fills) = ValueOf({f \in fills : f.reason = "halt"}) + Traded
        /\ ValueOf({f \in fills : f.reason = "halt"}) \in Int
    BY FillsSplit
  <2> QED
    BY <2>1, <2>3, <2>4 DEF EquityInv
<1> QED
  BY <1>1, <1>2, <1>3, <1>4, ReportIsBacktest, TypeCorrect, OrderInvariant, RowsInvariant,
     TradeInvariant, FillInvariant, LedgerBalances, CashIsNonNegative, CurvesCoverSessions,
     MarkInvariant, PTL DEF ReportSpec

-----------------------------------------------------------------------------
(* The windows *)

\* The equity is never negative: neither cash nor the value of the positions is.
WorthInv == equityCurve \in Seq(Nat)

LEMMA WorthKept ==
  ASSUME TypeOK, CurvesInv, CashNonNegative, WorthInv, [ReportNext]_<<vars, curves>>
  PROVE  WorthInv'
<1>1. CASE EndSession
  <2>1. equity' = cash + marketValue * RateUnit /\ equityCurve' = Append(equityCurve, equity')
    BY <1>1 DEF EndSession, EndMark
  <2>2. marketValue * RateUnit \in Nat
    BY Frictions DEF TypeOK
  <2>3. equity' \in Nat
    BY <2>1, <2>2 DEF TypeOK, CashNonNegative
  <2> QED
    BY <2>1, <2>3, Appended DEF WorthInv
<1>2. CASE UNCHANGED curves
  BY <1>2 DEF WorthInv, curves
<1> QED
  BY <1>1, <1>2 DEF ReportNext, curves

LEMMA WorthInvariant == ReportSpec => []WorthInv
<1>1. ReportInit => WorthInv
  BY DEF ReportInit, WorthInv
<1>2. TypeOK /\ CurvesInv /\ CashNonNegative /\ WorthInv /\ [ReportNext]_<<vars, curves>>
        => WorthInv'
  BY WorthKept
<1> QED
  BY <1>1, <1>2, ReportIsBacktest, TypeCorrect, CurvesCoverSessions, CashIsNonNegative, PTL
     DEF ReportSpec

\* A finished run that reaches into the out-of-sample period.
Reported ==
  /\ TypeOK /\ TradeInv /\ CurvesInv /\ WorthInv
  /\ phase = "done" /\ Window(OutOfSample) # {}

LEMMA WindowsAre ==
  ASSUME Reported
  PROVE  /\ Window(FullPeriod) = 1..session /\ Window(InSample) = 1..InSampleEnd
         /\ Window(Between) = (InSampleEnd + 1)..(OutOfSampleStart - 1)
         /\ Window(OutOfSample) = OutOfSampleStart..session
         /\ session \in Nat /\ InSampleEnd \in Nat /\ OutOfSampleStart \in Nat
         /\ 1 <= InSampleEnd /\ InSampleEnd < OutOfSampleStart /\ OutOfSampleStart <= session
<1>1. /\ session \in 0..MaxSessions /\ InSampleEnd \in 1..MaxSessions /\ MaxSessions \in Nat
      /\ OutOfSampleStart \in Nat /\ InSampleEnd < OutOfSampleStart
  BY Portfolio, Windows DEF Reported, TypeOK
<1>2. PICK n \in 1..session : n \in OutOfSampleStart..MaxSessions
  BY DEF Reported, Window, OutOfSample
<1>3. OutOfSampleStart <= session
  BY <1>1, <1>2
<1>4. Window(FullPeriod) = 1..session
  BY <1>1 DEF Window, FullPeriod
<1>5. Window(InSample) = 1..InSampleEnd
  BY <1>1, <1>3 DEF Window, InSample
<1>6. Window(OutOfSample) = OutOfSampleStart..session
  BY <1>1, <1>3 DEF Window, OutOfSample
<1>7. Window(Between) = (InSampleEnd + 1)..(OutOfSampleStart - 1)
  BY <1>1, <1>3 DEF Window, Between
<1> QED
  BY <1>1, <1>3, <1>4, <1>5, <1>6, <1>7

\* Both curves have a number for every session of the run.
LEMMA CurveValues ==
  ASSUME Reported
  PROVE  \A n \in 1..session : equityCurve[n] \in Nat /\ notionalCurve[n] \in Nat
BY DEF Reported, CurvesInv, WorthInv, Marked

LEMMA EndsOfInterval ==
  ASSUME NEW a \in Nat, NEW b \in Nat, a <= b
  PROVE  Min(a..b) = a /\ Max(a..b) = b
<1>1. Min(a..b) = a
  BY DEF Min
<1>2. Max(a..b) = b
  BY DEF Max
<1> QED
  BY <1>1, <1>2

\* The sessions before the out-of-sample window, and those after the in-sample one.
BeforeOut == Window(InSample) \cup Window(Between)
AfterIn == Window(Between) \cup Window(OutOfSample)

LEMMA HalvesAre ==
  ASSUME Reported
  PROVE  /\ BeforeOut = 1..(OutOfSampleStart - 1)
         /\ AfterIn = (InSampleEnd + 1)..session
BY WindowsAre DEF BeforeOut, AfterIn

\* What each window begins with, and the equity before it.
LEMMA Openings ==
  ASSUME Reported
  PROVE  /\ Min(Window(FullPeriod)) = 1 /\ Max(Window(FullPeriod)) = session
         /\ Min(Window(InSample)) = 1 /\ Max(Window(InSample)) = InSampleEnd
         /\ Min(BeforeOut) = 1 /\ Max(BeforeOut) = OutOfSampleStart - 1
         /\ Min(Window(OutOfSample)) = OutOfSampleStart /\ Max(Window(OutOfSample)) = session
         /\ OpeningEquity(Window(FullPeriod)) = InitialCapital
         /\ OpeningEquity(Window(InSample)) = InitialCapital
         /\ OpeningEquity(BeforeOut) = InitialCapital
         /\ OpeningEquity(Window(OutOfSample)) = equityCurve[OutOfSampleStart - 1]
<1>0. /\ session \in Nat /\ InSampleEnd \in Nat /\ OutOfSampleStart \in Nat
      /\ OutOfSampleStart - 1 \in Nat /\ 1 <= InSampleEnd /\ 1 <= session
      /\ 1 <= OutOfSampleStart - 1 /\ OutOfSampleStart <= session /\ OutOfSampleStart > 1
  BY WindowsAre
<1>1. /\ Min(1..session) = 1 /\ Max(1..session) = session
      /\ Min(1..InSampleEnd) = 1 /\ Max(1..InSampleEnd) = InSampleEnd
      /\ Min(1..(OutOfSampleStart - 1)) = 1
      /\ Max(1..(OutOfSampleStart - 1)) = OutOfSampleStart - 1
      /\ Min(OutOfSampleStart..session) = OutOfSampleStart
      /\ Max(OutOfSampleStart..session) = session
  BY <1>0, EndsOfInterval
<1> QED
  BY <1>0, <1>1, WindowsAre, HalvesAre DEF OpeningEquity

LEMMA GrowthComposes ==
  ASSUME Reported
  PROVE  /\ Composes(Growth(BeforeOut), Growth(Window(InSample)),
                     <<equityCurve[Min(Window(OutOfSample)) - 1],
                       equityCurve[Max(Window(InSample))]>>)
         /\ Composes(Growth(Window(FullPeriod)), Growth(BeforeOut), Growth(Window(OutOfSample)))
<1>1. /\ Growth(Window(FullPeriod)) = <<equityCurve[session], InitialCapital>>
      /\ Growth(Window(InSample)) = <<equityCurve[InSampleEnd], InitialCapital>>
      /\ Growth(BeforeOut) = <<equityCurve[OutOfSampleStart - 1], InitialCapital>>
      /\ Growth(Window(OutOfSample)) = <<equityCurve[session], equityCurve[OutOfSampleStart - 1]>>
      /\ Min(Window(OutOfSample)) = OutOfSampleStart /\ Max(Window(InSample)) = InSampleEnd
  BY Openings DEF Growth
<1>2. /\ equityCurve[session] \in Nat /\ equityCurve[InSampleEnd] \in Nat
      /\ equityCurve[OutOfSampleStart - 1] \in Nat /\ InitialCapital \in Nat
  <2>1. /\ session \in 1..session /\ InSampleEnd \in 1..session
        /\ OutOfSampleStart - 1 \in 1..session
    BY WindowsAre
  <2> QED
    BY <2>1, CurveValues, Frictions
<1>3. \A a, b, c \in Nat : a * c * b = b * a * c
  OBVIOUS
<1> QED
  BY <1>1, <1>2, <1>3 DEF Composes

-----------------------------------------------------------------------------
(* The tallies of two windows add up *)

\* The trades closed in some sessions are those closed in one of their two parts.
LEMMA ClosedSplit ==
  ASSUME Reported, NEW S, NEW A, NEW R, Parts(S, A, R)
  PROVE  Parts(ClosedIn(S), ClosedIn(A), ClosedIn(R))
<1>1. IsFiniteSet(ClosedIn(S))
  BY FS_Subset DEF Reported, TradeInv, ClosedIn
<1> QED
  BY <1>1 DEF ClosedIn, Parts

\* The run is its in-sample window, what lies between, and its out-of-sample one.
LEMMA WindowSplit ==
  ASSUME Reported
  PROVE  /\ Parts(Window(FullPeriod), Window(InSample), AfterIn)
         /\ Parts(AfterIn, Window(Between), Window(OutOfSample))
         /\ Window(FullPeriod) = 1..session /\ AfterIn \in SUBSET (1..session)
<1>0. /\ session \in Nat /\ InSampleEnd \in Nat /\ OutOfSampleStart \in Nat
      /\ 1 <= InSampleEnd /\ InSampleEnd < OutOfSampleStart /\ OutOfSampleStart <= session
  BY WindowsAre
<1>1. IsFiniteSet(1..session) /\ AfterIn \in SUBSET (1..session)
  BY <1>0, HalvesAre, FS_Interval
<1>2. IsFiniteSet(AfterIn)
  BY <1>1, FS_Subset
<1>3. Parts(Window(FullPeriod), Window(InSample), AfterIn)
  BY <1>0, <1>1, WindowsAre, HalvesAre DEF Parts
<1>4. Window(Between) \cap Window(OutOfSample) = {}
  BY <1>0, WindowsAre
<1> QED
  BY <1>1, <1>2, <1>3, <1>4, WindowsAre DEF Parts, AfterIn

\* A trade's profit, of the winners, of the losers, and how long it was held.
Winners(w) == {t \in ClosedIn(w) : t.netPnl > 0}
Losers(w) == {t \in ClosedIn(w) : t.netPnl < 0}

NetOf(ts) == SumFunction([t \in ts |-> t.netPnl])
HeldOf(ts) == SumFunction([t \in ts |-> t.exitDay - t.entryDay])
NotionalOf(w) == SumFunction([n \in w |-> notionalCurve[n]])
EquityOf(w) == SumFunction([n \in w |-> equityCurve[n]])

LEMMA TallyFields ==
  ASSUME NEW w
  PROVE  /\ DOMAIN Tally(w) = {"sessions", "trades", "wins", "grossProfit", "grossLoss",
                               "holding", "notional", "equity"}
         /\ Tally(w)["sessions"] = Cardinality(w)
         /\ Tally(w)["trades"] = Cardinality(ClosedIn(w))
         /\ Tally(w)["wins"] = Cardinality(Winners(w))
         /\ Tally(w)["grossProfit"] = NetOf(Winners(w))
         /\ Tally(w)["grossLoss"] = -NetOf(Losers(w))
         /\ Tally(w)["holding"] = HeldOf(ClosedIn(w))
         /\ Tally(w)["notional"] = NotionalOf(w)
         /\ Tally(w)["equity"] = EquityOf(w)
BY DEF Tally, SumOf, Winners, Losers, NetOf, HeldOf, NotionalOf, EquityOf

LEMMA NetSplit ==
  ASSUME TypeOK, NEW S \in SUBSET trades, NEW A, NEW R, Parts(S, A, R)
  PROVE  NetOf(S) = NetOf(A) + NetOf(R) /\ NetOf(A) \in Int /\ NetOf(R) \in Int
<1> DEFINE f == [t \in S |-> t.netPnl]
<1>1. f \in [S -> Int]
  BY DEF TypeOK, Trade
<1>2. /\ [t \in A |-> f[t]] = [t \in A |-> t.netPnl]
      /\ [t \in R |-> f[t]] = [t \in R |-> t.netPnl]
  BY DEF Parts
<1> HIDE DEF f
<1>3. /\ SumFunction(f) = SumFunction([x \in A |-> f[x]]) + SumFunction([x \in R |-> f[x]])
      /\ SumFunction([x \in A |-> f[x]]) \in Int
      /\ SumFunction([x \in R |-> f[x]]) \in Int
  BY <1>1, SumOfParts
<1> QED
  BY <1>2, <1>3 DEF NetOf, f

LEMMA HeldSplit ==
  ASSUME TypeOK, NEW S \in SUBSET trades, NEW A, NEW R, Parts(S, A, R)
  PROVE  HeldOf(S) = HeldOf(A) + HeldOf(R) /\ HeldOf(A) \in Int /\ HeldOf(R) \in Int
<1> DEFINE f == [t \in S |-> t.exitDay - t.entryDay]
<1>1. f \in [S -> Int]
  <2>1. \A t \in S : t.exitDay \in Nat /\ t.entryDay \in Nat
    BY DEF TypeOK, Trade
  <2> QED
    BY <2>1
<1>2. /\ [t \in A |-> f[t]] = [t \in A |-> t.exitDay - t.entryDay]
      /\ [t \in R |-> f[t]] = [t \in R |-> t.exitDay - t.entryDay]
  BY DEF Parts
<1> HIDE DEF f
<1>3. /\ SumFunction(f) = SumFunction([x \in A |-> f[x]]) + SumFunction([x \in R |-> f[x]])
      /\ SumFunction([x \in A |-> f[x]]) \in Int
      /\ SumFunction([x \in R |-> f[x]]) \in Int
  BY <1>1, SumOfParts
<1> QED
  BY <1>2, <1>3 DEF HeldOf, f

LEMMA ValuesSplit ==
  ASSUME NEW c, NEW S, NEW A, NEW R, Parts(S, A, R), \A n \in S : c[n] \in Int
  PROVE  /\ SumFunction([n \in S |-> c[n]])
             = SumFunction([n \in A |-> c[n]]) + SumFunction([n \in R |-> c[n]])
         /\ SumFunction([n \in A |-> c[n]]) \in Int
         /\ SumFunction([n \in R |-> c[n]]) \in Int
<1> DEFINE f == [n \in S |-> c[n]]
<1>1. f \in [S -> Int]
  OBVIOUS
<1>2. /\ [n \in A |-> f[n]] = [n \in A |-> c[n]]
      /\ [n \in R |-> f[n]] = [n \in R |-> c[n]]
  BY DEF Parts
<1> HIDE DEF f
<1>3. /\ SumFunction(f) = SumFunction([x \in A |-> f[x]]) + SumFunction([x \in R |-> f[x]])
      /\ SumFunction([x \in A |-> f[x]]) \in Int
      /\ SumFunction([x \in R |-> f[x]]) \in Int
  BY <1>1, SumOfParts
<1> QED
  BY <1>2, <1>3 DEF f

\* A curve summed over the two parts of some sessions.
LEMMA CurveSplit ==
  ASSUME Reported, NEW c \in {notionalCurve, equityCurve},
         NEW S \in SUBSET (1..session), NEW A, NEW R, Parts(S, A, R)
  PROVE  /\ SumFunction([n \in S |-> c[n]])
             = SumFunction([n \in A |-> c[n]])
                 + SumFunction([n \in R |-> c[n]])
         /\ SumFunction([n \in A |-> c[n]]) \in Int
         /\ SumFunction([n \in R |-> c[n]]) \in Int
<1>1. \A n \in S : c[n] \in Int
  BY CurveValues, WindowsAre
<1> QED
  BY <1>1, ValuesSplit

\* Winners and losers of some sessions are those of their two parts.
LEMMA OutcomesSplit ==
  ASSUME Reported, NEW S, NEW A, NEW R, Parts(S, A, R)
  PROVE  /\ Parts(Winners(S), Winners(A), Winners(R))
         /\ Parts(Losers(S), Losers(A), Losers(R))
         /\ Winners(S) \in SUBSET trades
         /\ Losers(S) \in SUBSET trades
         /\ ClosedIn(S) \in SUBSET trades
<1>1. Parts(ClosedIn(S), ClosedIn(A), ClosedIn(R))
  BY ClosedSplit
<1>2. \A w : Winners(w) \subseteq ClosedIn(w) /\ Losers(w) \subseteq ClosedIn(w)
  BY DEF Winners, Losers
<1>3. IsFiniteSet(Winners(S)) /\ IsFiniteSet(Losers(S))
  BY <1>1, <1>2, FS_Subset DEF Parts
<1> QED
  BY <1>1, <1>3 DEF Parts, Winners, Losers, ClosedIn

LEMMA TalliesAdd ==
  ASSUME Reported, NEW S \in SUBSET (1..session), NEW A, NEW R, Parts(S, A, R),
         NEW field \in DOMAIN Tally(S)
  PROVE  /\ Tally(S)[field]
             = Tally(A)[field] + Tally(R)[field]
         /\ Tally(A)[field] \in Int
        /\ Tally(R)[field] \in Int
<1>0. TypeOK
  BY DEF Reported
<1>1. CASE field = "sessions"
  <2>1. \A w : Tally(w)[field] = Cardinality(w)
    BY <1>1, TallyFields
  <2>2. /\ Cardinality(S)
            = Cardinality(A) + Cardinality(R)
        /\ Cardinality(A) \in Int /\ Cardinality(R) \in Int
    BY CardinalitySplit
  <2> QED
    BY <2>1, <2>2
<1>2. CASE field = "trades"
  <2>1. \A w : Tally(w)[field] = Cardinality(ClosedIn(w))
    BY <1>2, TallyFields
  <2>2. /\ Cardinality(ClosedIn(S))
            = Cardinality(ClosedIn(A)) + Cardinality(ClosedIn(R))
        /\ Cardinality(ClosedIn(A)) \in Int
        /\ Cardinality(ClosedIn(R)) \in Int
    BY ClosedSplit, CardinalitySplit
  <2> QED
    BY <2>1, <2>2
<1>3. CASE field = "wins"
  <2>1. \A w : Tally(w)[field] = Cardinality(Winners(w))
    BY <1>3, TallyFields
  <2>2. /\ Cardinality(Winners(S))
            = Cardinality(Winners(A)) + Cardinality(Winners(R))
        /\ Cardinality(Winners(A)) \in Int
        /\ Cardinality(Winners(R)) \in Int
    BY OutcomesSplit, CardinalitySplit
  <2> QED
    BY <2>1, <2>2
<1>4. CASE field = "grossProfit"
  <2>1. \A w : Tally(w)[field] = NetOf(Winners(w))
    BY <1>4, TallyFields
  <2>2. /\ NetOf(Winners(S))
            = NetOf(Winners(A)) + NetOf(Winners(R))
        /\ NetOf(Winners(A)) \in Int
        /\ NetOf(Winners(R)) \in Int
    <3>1. Parts(Winners(S), Winners(A), Winners(R)) /\ Winners(S) \in SUBSET trades
      BY OutcomesSplit
    <3> QED
      BY <1>0, <3>1, NetSplit
  <2> QED
    BY <2>1, <2>2
<1>5. CASE field = "holding"
  <2>1. \A w : Tally(w)[field] = HeldOf(ClosedIn(w))
    BY <1>5, TallyFields
  <2>2. /\ HeldOf(ClosedIn(S))
            = HeldOf(ClosedIn(A)) + HeldOf(ClosedIn(R))
        /\ HeldOf(ClosedIn(A)) \in Int
        /\ HeldOf(ClosedIn(R)) \in Int
    <3>1. Parts(ClosedIn(S), ClosedIn(A), ClosedIn(R)) /\ ClosedIn(S) \in SUBSET trades
      BY OutcomesSplit, ClosedSplit
    <3> QED
      BY <1>0, <3>1, HeldSplit
  <2> QED
    BY <2>1, <2>2
<1>6. CASE field = "notional"
  <2>1. \A w : Tally(w)[field] = NotionalOf(w)
    BY <1>6, TallyFields
  <2>2. /\ NotionalOf(S)
            = NotionalOf(A) + NotionalOf(R)
        /\ NotionalOf(A) \in Int /\ NotionalOf(R) \in Int
    BY CurveSplit DEF NotionalOf, EquityOf
  <2> QED
    BY <2>1, <2>2
<1>7. CASE field = "equity"
  <2>1. \A w : Tally(w)[field] = EquityOf(w)
    BY <1>7, TallyFields
  <2>2. /\ EquityOf(S)
            = EquityOf(A) + EquityOf(R)
        /\ EquityOf(A) \in Int /\ EquityOf(R) \in Int
    BY CurveSplit DEF NotionalOf, EquityOf
  <2> QED
    BY <2>1, <2>2
<1>8. CASE field = "grossLoss"
  <2>1. \A w : Tally(w)[field] = -NetOf(Losers(w))
    BY <1>8, TallyFields
  <2>2. /\ NetOf(Losers(S))
            = NetOf(Losers(A)) + NetOf(Losers(R))
        /\ NetOf(Losers(A)) \in Int
        /\ NetOf(Losers(R)) \in Int
    <3>1. Parts(Losers(S), Losers(A), Losers(R)) /\ Losers(S) \in SUBSET trades
      BY OutcomesSplit
    <3> QED
      BY <1>0, <3>1, NetSplit
  <2> QED
    BY <2>1, <2>2
<1>9. field \in {"sessions", "trades", "wins", "grossProfit", "grossLoss", "holding", "notional",
               "equity"}
  BY TallyFields
<1> QED
  BY <1>1, <1>2, <1>3, <1>4, <1>5, <1>6, <1>7, <1>8, <1>9

-----------------------------------------------------------------------------
(* Drawdowns *)

\* Multiplying by a positive number keeps the order.
LEMMA TimesPositive ==
  ASSUME NEW a \in Int, NEW b \in Int, NEW c \in Nat \ {0}
  PROVE  a < b <=> a * c < b * c
<1>1. a < b => a * c < b * c
  <2> SUFFICES ASSUME a < b PROVE a * c < b * c
    OBVIOUS
  <2>1. (b - a) \in Nat \ {0}
    OBVIOUS
  <2>2. (b - a) * c \in Nat \ {0}
    BY <2>1, PositiveProduct
  <2>3. (b - a) * c = b * c - a * c
    OBVIOUS
  <2> QED
    BY <2>2, <2>3
<1>2. b <= a => b * c <= a * c
  <2> SUFFICES ASSUME b <= a PROVE b * c <= a * c
    OBVIOUS
  <2>1. (a - b) \in Nat /\ (a - b) * c = a * c - b * c
    OBVIOUS
  <2>2. (a - b) * c >= 0
    BY <2>1
  <2> QED
    BY <2>1, <2>2
<1> QED
  BY <1>1, <1>2

\* Ratios with a positive denominator.
Ratios == {<<n, d>> : n \in Int, d \in Nat \ {0}}

LEMMA LessIsStrict ==
  ASSUME NEW p \in Ratios, NEW q \in Ratios, NEW r \in Ratios, Less(p, q), ~Less(r, q)
  PROVE  Less(p, r)
<1>1. PICK p1 \in Int, p2 \in Nat \ {0} : p = <<p1, p2>>
  BY DEF Ratios
<1>2. PICK q1 \in Int, q2 \in Nat \ {0} : q = <<q1, q2>>
  BY DEF Ratios
<1>3. PICK r1 \in Int, r2 \in Nat \ {0} : r = <<r1, r2>>
  BY DEF Ratios
<1>4. p1 * q2 < q1 * p2 /\ ~(r1 * q2 < q1 * r2)
  BY <1>1, <1>2, <1>3 DEF Less
<1>5. (p1 * q2) * r2 < (q1 * p2) * r2
  BY <1>4, TimesPositive
<1>6. ~((r1 * q2) * p2 < (q1 * r2) * p2)
  BY <1>4, TimesPositive
<1>7. /\ (p1 * q2) * r2 = (p1 * r2) * q2 /\ (r1 * q2) * p2 = (r1 * p2) * q2
      /\ (q1 * p2) * r2 = (q1 * r2) * p2
  OBVIOUS
<1>8. (p1 * r2) * q2 < (r1 * p2) * q2
  BY <1>5, <1>6, <1>7
<1>9. p1 * r2 < r1 * p2
  BY <1>8, TimesPositive
<1> QED
  BY <1>1, <1>3, <1>9 DEF Less

LEMMA LessIrreflexive ==
  ASSUME NEW p \in Ratios
  PROVE  ~Less(p, p)
BY DEF Ratios, Less

\* Finitely many ratios have a smallest: the one that fewest are below of.
LEMMA DeepestIsLeast ==
  ASSUME NEW D \in SUBSET Ratios, IsFiniteSet(D), D # {}
  PROVE  Deepest(D) \in D /\ \A q \in D : ~Less(q, Deepest(D))
<1> DEFINE Below(p) == {q \in D : Less(q, p)}
           sets == {Below(p) : p \in D}
<1>1. sets \in SUBSET (SUBSET D) /\ sets # {}
  OBVIOUS
<1>2. PICK T \in sets : \A U \in sets : U \subseteq T => U = T
  <2> HIDE DEF sets
  <2> QED
    BY <1>1, SmallestSubset
<1>3. PICK p \in D : T = Below(p)
  OBVIOUS
<1>4. ASSUME NEW q \in D, Less(q, p) PROVE FALSE
  <2>1. \A r \in D : Less(r, q) => Less(r, p)
    <3> SUFFICES ASSUME NEW r \in D, Less(r, q) PROVE Less(r, p)
      OBVIOUS
    <3>1. ~Less(p, q)
      BY <1>4 DEF Less, Ratios
    <3> QED
      BY <3>1, LessIsStrict
  <2>2. Below(q) \subseteq Below(p) /\ Below(q) \in sets
    BY <2>1
  <2>3. q \in Below(p) /\ q \notin Below(q)
    BY <1>4, LessIrreflexive
  <2> HIDE DEF sets, Below
  <2> QED
    BY <1>2, <1>3, <2>2, <2>3
<1> QED
  BY <1>4 DEF Deepest

Peak(from, n) == Max({equityCurve[k] : k \in from..n})

LEMMA PeakIsHighest ==
  ASSUME Reported, NEW n \in 1..session, NEW from \in 1..n
  PROVE  /\ Peak(from, n) \in Nat
         /\ \E k \in from..n : Peak(from, n) = equityCurve[k]
         /\ \A k \in from..n : equityCurve[k] <= Peak(from, n)
<1> DEFINE marks == {equityCurve[k] : k \in from..n}
           f == [k \in from..n |-> equityCurve[k]]
<1>0. session \in Nat /\ n \in Nat /\ from \in Nat /\ from <= n
  BY WindowsAre
<1>1. \A k \in from..n : k \in 1..session
  BY <1>0
<1>2. marks \in SUBSET Nat /\ marks # {}
  BY <1>0, <1>1, CurveValues
<1>3. IsFiniteSet(marks)
  <2>1. f \in Surjection(from..n, marks)
    BY DEF Surjection
  <2>2. IsFiniteSet(from..n)
    BY <1>0, FS_Interval
  <2> HIDE DEF f, marks
  <2> QED
    BY <2>1, <2>2, FS_Surjection
<1>4. Max(marks) \in marks /\ \A y \in marks : Max(marks) >= y
  <2> HIDE DEF marks
  <2> QED
    BY <1>2, <1>3, MaxIsLargest
<1>5. Peak(from, n) = Max(marks)
  BY DEF Peak
<1>6. Max(marks) \in Nat
  BY <1>2, <1>4
<1>7. \A k \in from..n : equityCurve[k] \in marks /\ equityCurve[k] \in Nat
  BY <1>1, CurveValues
<1>8. \E k \in from..n : Max(marks) = equityCurve[k]
  BY <1>4
<1> HIDE DEF marks
<1> QED
  BY <1>4, <1>5, <1>6, <1>7, <1>8

LEMMA DrawdownIsRatio ==
  ASSUME Reported, NEW n \in 1..session, NEW from \in 1..n
  PROVE  Drawdown(from, n) \in Ratios
<1>1. Peak(from, n) \in Nat /\ equityCurve[n] \in Nat
  BY PeakIsHighest, CurveValues
<1>2. Drawdown(from, n) = IF Peak(from, n) > 0
                          THEN <<equityCurve[n] - Peak(from, n), Peak(from, n)>> ELSE <<0, 1>>
  BY DEF Drawdown, Peak
<1> QED
  BY <1>1, <1>2 DEF Ratios

\* Seen from the beginning of the run a session is at least as far below its peak.
LEMMA LongerIsDeeper ==
  ASSUME Reported, NEW n \in 1..session, NEW from \in 1..n
  PROVE  ~Less(Drawdown(from, n), Drawdown(1, n))
<1>0. session \in Nat /\ n \in Nat /\ from \in Nat /\ 1 <= from /\ from <= n /\ 1 \in 1..n
  BY WindowsAre
<1>1. PICK e \in Nat : e = equityCurve[n]
  BY CurveValues
<1>2. PICK high \in Nat : high = Peak(1, n)
  BY <1>0, PeakIsHighest
<1>3. PICK low \in Nat : low = Peak(from, n)
  BY <1>0, PeakIsHighest
<1>4. low <= high
  <2>1. PICK k \in from..n : low = equityCurve[k]
    BY <1>3, PeakIsHighest
  <2>2. k \in 1..n
    BY <1>0, <2>1
  <2> QED
    BY <1>0, <1>2, <2>1, <2>2, PeakIsHighest
<1>5. e <= low
  BY <1>0, <1>1, <1>3, PeakIsHighest
<1>6. /\ Drawdown(from, n) = IF low > 0 THEN <<e - low, low>> ELSE <<0, 1>>
      /\ Drawdown(1, n) = IF high > 0 THEN <<e - high, high>> ELSE <<0, 1>>
  BY <1>1, <1>2, <1>3 DEF Drawdown, Peak
<1>7. CASE low > 0
  <2>1. /\ high > 0
        /\ Less(Drawdown(from, n), Drawdown(1, n)) <=> (e - low) * high < (e - high) * low
    BY <1>4, <1>6, <1>7 DEF Less
  <2>2. (e - low) * high = e * high - low * high /\ (e - high) * low = e * low - low * high
    OBVIOUS
  <2>3. e * (high - low) \in Nat /\ e * (high - low) = e * high - e * low
    <3>1. high - low \in Nat
      BY <1>4
    <3> QED
      BY <3>1
  <2>4. e * high \in Int /\ e * low \in Int /\ low * high \in Int
    OBVIOUS
  <2> QED
    BY <2>1, <2>2, <2>3, <2>4
<1>8. CASE low = 0 /\ high > 0
  <2>1. e = 0
    BY <1>5, <1>8
  <2> QED
    BY <1>6, <1>8, <2>1 DEF Less
<1>9. CASE low = 0 /\ high = 0
  BY <1>6, <1>9 DEF Less
<1> QED
  BY <1>7, <1>8, <1>9

\* The deepest point of a window from a to b.
LEMMA WindowDrawdown ==
  ASSUME Reported, NEW a \in 1..session, NEW b \in a..session
  PROVE  /\ MaxDrawdown(a..b) \in Ratios
         /\ \E n \in a..b : MaxDrawdown(a..b) = Drawdown(a, n)
         /\ \A n \in a..b : ~Less(Drawdown(a, n), MaxDrawdown(a..b))
<1> DEFINE D == {Drawdown(a, n) : n \in a..b}
           f == [n \in a..b |-> Drawdown(a, n)]
<1>0. session \in Nat /\ a \in Nat /\ b \in Nat /\ a <= b /\ 1 <= a /\ b <= session
  BY WindowsAre
<1>1. \A n \in a..b : n \in 1..session /\ a \in 1..n
  BY <1>0
<1>2. D \in SUBSET Ratios /\ D # {}
  BY <1>0, <1>1, DrawdownIsRatio
<1>3. IsFiniteSet(D)
  <2>1. f \in Surjection(a..b, D)
    BY DEF Surjection
  <2>2. IsFiniteSet(a..b)
    BY <1>0, FS_Interval
  <2> HIDE DEF f, D
  <2> QED
    BY <2>1, <2>2, FS_Surjection
<1>4. MaxDrawdown(a..b) = Deepest(D)
  BY <1>0, EndsOfInterval DEF MaxDrawdown
<1>5. Deepest(D) \in D /\ \A q \in D : ~Less(q, Deepest(D))
  <2> HIDE DEF D
  <2> QED
    BY <1>2, <1>3, DeepestIsLeast
<1>6. Deepest(D) \in Ratios
  BY <1>2, <1>5
<1> QED
  BY <1>4, <1>5, <1>6

\* A part of the run from a to b has no deeper point than the run.
LEMMA PartIsShallower ==
  ASSUME Reported, NEW a \in 1..session, NEW b \in a..session
  PROVE  ~Less(MaxDrawdown(a..b), MaxDrawdown(1..session))
<1>0. /\ session \in Nat /\ a \in Nat /\ b \in Nat /\ a <= b /\ 1 <= a /\ b <= session
      /\ 1 \in 1..session /\ session \in 1..session
  BY WindowsAre
<1>1. PICK n \in a..b : MaxDrawdown(a..b) = Drawdown(a, n)
  BY WindowDrawdown
<1>2. n \in 1..session /\ a \in 1..n /\ 1 \in 1..n
  BY <1>0
<1>3. /\ Drawdown(a, n) \in Ratios /\ Drawdown(1, n) \in Ratios
      /\ MaxDrawdown(1..session) \in Ratios
  BY <1>0, <1>2, DrawdownIsRatio, WindowDrawdown
<1>4. ~Less(Drawdown(1, n), MaxDrawdown(1..session))
  BY <1>0, <1>2, WindowDrawdown
<1>5. ~Less(Drawdown(a, n), Drawdown(1, n))
  BY <1>2, LongerIsDeeper
<1>6. Less(Drawdown(a, n), MaxDrawdown(1..session)) => Less(Drawdown(a, n), Drawdown(1, n))
  BY <1>3, <1>4, LessIsStrict
<1> QED
  BY <1>1, <1>5, <1>6

-----------------------------------------------------------------------------
(* What is defined in a part is defined in the run *)

\* The window a session's return is looked at in does not change it.
LEMMA SameReturn ==
  ASSUME Reported, NEW w \in {Window(InSample), Window(OutOfSample)}, NEW n \in w
  PROVE  n \in Window(FullPeriod) /\ SessionReturn(w, n) = SessionReturn(Window(FullPeriod), n)
<1>1. n \in Window(FullPeriod)
  BY WindowsAre
<1>2. CASE w = Window(InSample)
  BY <1>1, <1>2, Openings DEF SessionReturn
<1>3. CASE w = Window(OutOfSample) /\ n = OutOfSampleStart
  <2>1. /\ n = Min(w) /\ n # Min(Window(FullPeriod))
        /\ OpeningEquity(w) = equityCurve[n - 1]
    BY <1>3, Openings, WindowsAre
  <2> QED
    BY <1>1, <2>1 DEF SessionReturn
<1>4. CASE w = Window(OutOfSample) /\ n # OutOfSampleStart
  <2>1. n # Min(w) /\ n # Min(Window(FullPeriod))
    BY <1>4, Openings, WindowsAre
  <2> QED
    BY <1>1, <2>1 DEF SessionReturn
<1> QED
  BY <1>1, <1>2, <1>3, <1>4

\* Counts and sums that are never negative grow with the window.
LEMMA TalliesGrow ==
  ASSUME Reported, NEW field \in {"sessions", "trades", "grossLoss", "equity"},
         NEW w \in {Window(InSample), Window(OutOfSample)}
  PROVE  /\ Tally(w)[field] \in Nat /\ Tally(Window(FullPeriod))[field] \in Nat
         /\ Tally(w)[field] <= Tally(Window(FullPeriod))[field]
<1> DEFINE Positive(v) == Tally(v)[field] >= 0
           full == Window(FullPeriod)
<1>1. field \in DOMAIN Tally(full)
  BY TallyFields
<1>0. full = 1..session /\ IsFiniteSet(full) /\ w \in SUBSET full
  <2>1. /\ session \in Nat /\ InSampleEnd \in Nat /\ OutOfSampleStart \in Nat
        /\ 1 <= InSampleEnd /\ InSampleEnd < OutOfSampleStart /\ OutOfSampleStart <= session
    BY WindowsAre
  <2>2. full = 1..session /\ Window(InSample) = 1..InSampleEnd
        /\ Window(OutOfSample) = OutOfSampleStart..session
    BY WindowsAre
  <2>3. IsFiniteSet(1..session)
    BY <2>1, FS_Interval
  <2>4. 1..InSampleEnd \subseteq 1..session /\ OutOfSampleStart..session \subseteq 1..session
    BY <2>1
  <2> HIDE DEF full
  <2> QED
    BY <2>2, <2>3, <2>4
<1> HIDE DEF full
<1>2. /\ Tally(full)[field] = Tally(w)[field] + Tally(full \ w)[field]
      /\ Tally(w)[field] \in Int /\ Tally(full \ w)[field] \in Int
  <2>1. Parts(full, w, full \ w)
    BY <1>0 DEF Parts
  <2>2. full \in SUBSET (1..session)
    BY <1>0
  <2> QED
    BY <1>1, <2>1, <2>2, TalliesAdd
<1>3. ASSUME NEW v \in SUBSET full PROVE Positive(v)
  <2>1. v \in SUBSET full /\ IsFiniteSet(v)
    BY <1>0, FS_Subset
  <2>2. CASE field = "sessions"
    <3>1. Tally(v)[field] = Cardinality(v)
      BY <2>2, TallyFields
    <3> QED
      BY <2>1, <3>1, FS_CardinalityType
  <2>3. CASE field = "trades"
    <3>1. Tally(v)[field] = Cardinality(ClosedIn(v))
      BY <2>3, TallyFields
    <3>2. IsFiniteSet(ClosedIn(v))
      BY FS_Subset DEF Reported, TradeInv, ClosedIn
    <3> QED
      BY <3>1, <3>2, FS_CardinalityType
  <2>4. CASE field = "grossLoss"
    <3> DEFINE f == [t \in Losers(v) |-> t.netPnl]
    <3>1. Tally(v)[field] = -SumFunction(f)
      BY <2>4, TallyFields DEF NetOf
    <3>2. Losers(v) \in SUBSET trades /\ IsFiniteSet(Losers(v))
      BY FS_Subset DEF Reported, TradeInv, Losers, ClosedIn
    <3>3. f \in [Losers(v) -> Int] /\ \A t \in Losers(v) : (-1) * f[t] >= 0
      BY SMTT(30), <3>2 DEF Reported, TypeOK, Trade, Losers
    <3> HIDE DEF f
    <3>4. (-1) * SumFunction(f) >= 0 /\ SumFunction(f) \in Int
      BY <3>2, <3>3, SumSign, SumType
    <3> QED
      BY <3>1, <3>4
  <2>5. CASE field = "equity"
    <3> DEFINE f == [n \in v |-> equityCurve[n]]
    <3>1. Tally(v)[field] = SumFunction(f)
      BY <2>5, TallyFields DEF EquityOf
    <3>2. f \in [v -> Int] /\ \A n \in v : 1 * f[n] >= 0
      BY <1>0, <2>1, CurveValues
    <3> HIDE DEF f
    <3>3. 1 * SumFunction(f) >= 0 /\ SumFunction(f) \in Int
      BY <2>1, <3>2, SumSign, SumType
    <3> QED
      BY <3>1, <3>3
  <2> QED
    BY <2>2, <2>3, <2>4, <2>5
<1>4. Tally(w)[field] >= 0 /\ Tally(full \ w)[field] >= 0
  BY <1>0, <1>3
<1>5. Tally(full)[field] \in Nat /\ Tally(w)[field] \in Nat /\ Tally(w)[field] <= Tally(full)[field]
  BY <1>2, <1>4
<1> QED
  BY <1>5 DEF full

\* A metric that has a value in a part has one in the run.
LEMMA DefinedGrows ==
  ASSUME Reported, NEW w \in {Window(InSample), Window(OutOfSample)}, NEW metric \in Defined(w),
         metric # "cagr"
  PROVE  metric \in Defined(Window(FullPeriod))
<1> DEFINE full == Window(FullPeriod)
<1>1. metric \in {"total_return", "volatility", "sharpe", "sortino", "win_rate",
                 "profit_factor", "average_holding_period_days", "turnover"}
  BY DEF Defined
<1>2. CASE metric = "total_return"
  <2>1. full # {} /\ OpeningEquity(full) = InitialCapital /\ InitialCapital # 0
    BY WindowsAre, Openings, Construction DEF ConfigAccepted
  <2> QED
    BY <1>2, <2>1 DEF Defined
<1>3. CASE metric = "volatility"
  <2>1. Tally(w)["sessions"] >= 2
    BY <1>3 DEF Defined
  <2>2. Tally(full)["sessions"] >= 2
    BY <2>1, TalliesGrow
  <2> QED
    BY <1>3, <2>2 DEF Defined
<1>4. CASE metric = "sharpe"
  <2>1. Varies(w)
    BY <1>4 DEF Defined
  <2>2. Varies(full)
    BY <2>1, SameReturn DEF Varies
  <2> QED
    BY <1>4, <2>2 DEF Defined
<1>5. CASE metric = "sortino"
  <2>1. Downside(w)
    BY <1>5 DEF Defined
  <2>2. Downside(full)
    BY <2>1, SameReturn DEF Downside
  <2> QED
    BY <1>5, <2>2 DEF Defined
<1>6. CASE metric \in {"win_rate", "average_holding_period_days"}
  <2>1. Tally(w)["trades"] > 0
    BY <1>6 DEF Defined
  <2>2. Tally(full)["trades"] > 0
    BY <2>1, TalliesGrow
  <2> QED
    BY <1>6, <2>2 DEF Defined
<1>7. CASE metric = "profit_factor"
  <2>1. Tally(w)["grossLoss"] > 0
    BY <1>7 DEF Defined
  <2>2. Tally(full)["grossLoss"] > 0
    BY <2>1, TalliesGrow
  <2> QED
    BY <1>7, <2>2 DEF Defined
<1>8. CASE metric = "turnover"
  <2>1. Tally(w)["equity"] # 0
    BY <1>8 DEF Defined
  <2>2. Tally(full)["equity"] # 0
    BY <2>1, TalliesGrow
  <2> QED
    BY <1>8, <2>2 DEF Defined
<1> QED
  BY <1>1, <1>2, <1>3, <1>4, <1>5, <1>6, <1>7, <1>8

\* The run ends where its out-of-sample window does, and begins with a capital.
LEMMA CagrOfTheEnd ==
  ASSUME Reported, "cagr" \in Defined(Window(OutOfSample))
  PROVE  "cagr" \in Defined(Window(FullPeriod))
<1>1. equityCurve[Max(Window(OutOfSample))] > 0
  BY DEF Defined
<1>2. /\ Window(FullPeriod) # {} /\ Max(Window(FullPeriod)) = Max(Window(OutOfSample))
      /\ OpeningEquity(Window(FullPeriod)) = InitialCapital
  BY WindowsAre, Openings
<1>3. InitialCapital > 0
  BY Construction DEF ConfigAccepted
<1> QED
  BY <1>1, <1>2, <1>3 DEF Defined

LEMMA TallyIsFunction ==
  ASSUME NEW w
  PROVE  Tally(w) = [field \in DOMAIN Tally(w) |-> Tally(w)[field]]
BY DEF Tally

LEMMA TallyComposes ==
  ASSUME Reported
  PROVE  Tally(Window(FullPeriod))
           = [field \in DOMAIN Tally(Window(FullPeriod)) |->
                Tally(Window(InSample))[field]
                  + (Tally(Window(Between))[field] + Tally(Window(OutOfSample))[field])]
<1>1. PICK full : full = Tally(Window(FullPeriod))
  OBVIOUS
<1>2. full = [field \in DOMAIN full |-> full[field]]
  BY <1>1, TallyIsFunction
<1>3. ASSUME NEW field \in DOMAIN full
      PROVE  full[field] = Tally(Window(InSample))[field]
                + (Tally(Window(Between))[field] + Tally(Window(OutOfSample))[field])
  <2>1. field \in DOMAIN Tally(Window(FullPeriod)) /\ field \in DOMAIN Tally(AfterIn)
    BY <1>1, TallyFields
  <2>2. full[field] = Tally(Window(InSample))[field] + Tally(AfterIn)[field]
    <3>1. /\ Window(FullPeriod) \in SUBSET (1..session)
          /\ Parts(Window(FullPeriod), Window(InSample), AfterIn)
      BY WindowSplit
    <3> QED
      BY <1>1, <2>1, <3>1, TalliesAdd
  <2>3. Tally(AfterIn)[field] = Tally(Window(Between))[field] + Tally(Window(OutOfSample))[field]
    BY <2>1, WindowSplit, TalliesAdd
  <2> QED
    BY <2>2, <2>3
<1> QED
  BY <1>1, <1>2, <1>3

\* The metrics of the in-sample and of the out-of-sample window and the sessions
\* between them make up those of the run, wherever the two windows lie: growths
\* multiply, counts and sums add up, no window and no point of the drawdown curve is
\* deeper than the drawdown of the run, and what is defined in a window is defined
\* for the run, CAGR if it is defined out of sample.
THEOREM MetricsOfWindowsCompose == ReportSpec => []WindowsCompose
<1>1. TypeOK /\ TradeInv /\ CurvesInv /\ WorthInv => WindowsCompose
  <2> SUFFICES ASSUME Reported PROVE WindowsCompose
    BY DEF Reported, WindowsCompose
  <2> DEFINE parts == {Window(p) : p \in SummaryPeriods \ {FullPeriod}}
             full == Window(FullPeriod)
  <2>1. parts \subseteq {Window(InSample), Window(OutOfSample)}
    BY DEF SummaryPeriods
  <2>2. \A w \in parts : ~Less(MaxDrawdown(w), MaxDrawdown(full))
    <3>1. /\ 1 \in 1..session /\ InSampleEnd \in 1..session
          /\ OutOfSampleStart \in 1..session /\ session \in OutOfSampleStart..session
      BY WindowsAre
    <3>2. /\ ~Less(MaxDrawdown(1..InSampleEnd), MaxDrawdown(1..session))
          /\ ~Less(MaxDrawdown(OutOfSampleStart..session), MaxDrawdown(1..session))
      BY <3>1, PartIsShallower
    <3> HIDE DEF parts
    <3> QED
      BY <2>1, <3>2, WindowsAre
  <2>3. \A n \in full : ~Less(DrawdownCurve[n], MaxDrawdown(full))
    <3>1. 1 \in 1..session /\ session \in 1..session
      BY WindowsAre
    <3>2. \A n \in 1..session : ~Less(Drawdown(1, n), MaxDrawdown(1..session))
      BY <3>1, WindowDrawdown
    <3> QED
      BY <3>2, WindowsAre DEF DrawdownCurve
  <2>4. \A w \in parts : Defined(w) \ {"cagr"} \subseteq Defined(full)
    <3> HIDE DEF parts
    <3> QED
      BY <2>1, DefinedGrows
  <2> HIDE DEF parts, full
  <2> QED
    BY <2>2, <2>3, <2>4, GrowthComposes, TallyComposes, CagrOfTheEnd
       DEF WindowsCompose, parts, full, BeforeOut
<1> QED
  BY <1>1, ReportIsBacktest, TypeCorrect, TradeInvariant, CurvesCoverSessions, WorthInvariant, PTL
=============================================================================
