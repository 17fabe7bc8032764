--------------------------- MODULE Backtest_proofs ---------------------------
(***************************************************************************)
(* Theorems about the session loop, for every value of the constants that  *)
(* the configuration classes accept: every market, universe, calendar      *)
(* length, sizing mode, cost, slippage and participation rate.             *)
(*                                                                         *)
(* TypeOK comes first.  OrderInv strengthens OrderBook to an inductive     *)
(* invariant; HaltInv and SlotsInv do the same for NoFrozenPosition and    *)
(* SlotsRefilled on top of it, AuditInv and TradeInv for AuditTrail and    *)
(* Ledger.                                                                 *)
(***************************************************************************)
EXTENDS Backtest, FiniteSetTheorems, WellFoundedInduction, TLAPS

\* What the constructors accept makes of the controls: rates below one, whole lots,
\* limits that are numbers, and at least one slot.
LEMMA Frictions ==
  /\ RateUnit \in Nat \ {0}
  /\ CostRate \in 0..(RateUnit - 1) /\ SlippageRate \in 0..(RateUnit - 1)
  /\ SizingMode \in {"fixed_shares", "fixed_cash_amount", "fixed_fraction_of_equity"}
  /\ SizingValue \in Nat
  /\ LotSize \in Nat \ {0}
  /\ Participation \in 0..RateUnit
  /\ RejectPartialFills \in BOOLEAN
  /\ MinBarVolume \in Nat
  /\ EntryAt \in Convention /\ ExitAt \in Convention
  /\ InitialCapital \in Nat /\ MaxConcurrent \in Nat \ {0}
BY Construction DEF SizingAccepted, LiquidityAccepted, ConfigAccepted

\* The product of two positive numbers is positive.
LEMMA PositiveProduct ==
  ASSUME NEW a \in Nat \ {0}, NEW b \in Nat \ {0}
  PROVE  a * b \in Nat \ {0}
BY SMT

\* Floor division by a positive number gives an integer.
LEMMA QuotientType ==
  ASSUME NEW a \in Int, NEW b \in Nat \ {0}
  PROVE  a \div b \in Int
BY SMT

\* Among 0 and some row indices there is a greatest one, so the backward searches of
\* the halt rule (NewestRow) are well defined.
LEMMA MaxOfRows ==
  ASSUME NEW n \in Nat, NEW T \in SUBSET (1..n)
  PROVE  /\ Max({0} \cup T) \in {0} \cup T
         /\ \A y \in T : Max({0} \cup T) >= y
<1> DEFINE S == {0} \cup T
           D == {n - x : x \in S}
<1>1. D # {} /\ D \subseteq Nat /\ S \subseteq Nat
  OBVIOUS
<1>2. PICK d \in D : \A e \in D : ~(<<e, d>> \in OpToRel(<, Nat))
  BY <1>1, WFMin, NatLessThanWellFounded, Zenon
<1>3. PICK x \in S : d = n - x
  OBVIOUS
<1>4. \A y \in S : x >= y
  <2> SUFFICES ASSUME NEW y \in S PROVE x >= y
    OBVIOUS
  <2>1. n - y \in D
    OBVIOUS
  <2>2. ~(n - y < d)
    BY <1>1, <1>2, <2>1 DEF OpToRel
  <2> QED BY <1>1, <1>3, <2>2
<1> QED BY <1>4 DEF Max

\* Cutting a quantity down to whole lots never increases it.
LEMMA WholeLotsType ==
  ASSUME NEW q \in Int
  PROVE  WholeLots(q) \in Int /\ WholeLots(q) <= q
BY Frictions DEF WholeLots

\* The smaller of two integers is an integer.
LEMMA SmallerType ==
  ASSUME NEW a \in Int, NEW b \in Int
  PROVE  Smaller(a, b) \in Int
BY DEF Smaller

\* _last_positive_volume_fill finds a row of the window, or none (0).
LEMMA LastPositiveVolumeType ==
  ASSUME NEW w \in Seq(Row)
  PROVE  LastPositiveVolume(w) \in 0..Len(w)
<1>1. Len(w) \in Nat /\ DOMAIN w = 1..Len(w)
  OBVIOUS
<1> DEFINE T == {i \in DOMAIN w : w[i].volume > 0}
<1>2. T \in SUBSET (1..Len(w))
  BY <1>1
<1>3. LastPositiveVolume(w) = Max({0} \cup T)
  BY DEF LastPositiveVolume, NewestRow
<1> DEFINE newest == Max({0} \cup T)
<1>4. newest \in {0} \cup T
  BY <1>1, <1>2, MaxOfRows
<1> HIDE DEF T, newest
<1>5. newest \in 0..Len(w)
  BY <1>1, <1>2, <1>4
<1> QED BY <1>3, <1>5 DEF newest

\* A symbol that trades today has a row to show for it.
LEMMA TodayType ==
  ASSUME TypeOK, NEW s \in Symbols, TradesToday(s)
  PROVE  Today(s) \in Row
BY DEF TypeOK, TradesToday, Today

\* The price of either convention is a number.
LEMMA PriceType ==
  ASSUME NEW r \in Row, NEW side \in Side
  PROVE  PriceFor(r, side) \in Nat
BY DEF PriceFor, Row

\* An entry at an executable bar has a positive price, slippage included.
LEMMA EntryPriceType ==
  ASSUME TypeOK, NEW s \in Symbols, TradesToday(s), Executable(Today(s), "buy")
  PROVE  EntryPrice(s) \in Nat \ {0}
<1>1. PriceFor(Today(s), "buy") \in Nat \ {0}
  BY TodayType, PriceType DEF Executable, Side
<1>2. RateUnit + SlippageRate \in Nat \ {0}
  BY Frictions
<1> QED BY <1>1, <1>2, PositiveProduct DEF EntryPrice

\* Every sizing mode gives an integer target, and cash an affordable quantity.
LEMMA SizingType ==
  ASSUME TypeOK, NEW price \in Nat \ {0}
  PROVE  Target(price, equity) \in Int /\ Affordable(price) \in Int
<1>1. RateUnit \in Nat \ {0} /\ SizingValue \in Nat /\ equity \in Int /\ cash \in Int
  BY Frictions DEF TypeOK
<1>2. (SizingValue * RateUnit) \div price \in Int
  BY <1>1, QuotientType
<1>3. (equity * SizingValue) \div (price * RateUnit * RateUnit) \in Int
  BY <1>1, QuotientType, PositiveProduct
<1>4. Target(price, equity) \in Int
  BY <1>1, <1>2, <1>3, Frictions DEF Target
<1>5. Affordable(price) \in Int
  <2>1. RateUnit + CostRate + SlippageRate \in Nat \ {0}
    BY Frictions
  <2>2. price * (RateUnit + CostRate + SlippageRate) \in Nat \ {0}
    BY <2>1, PositiveProduct
  <2> QED BY <1>1, <2>2, QuotientType DEF Affordable
<1> QED BY <1>4, <1>5

\* The participation cap is an integer.
LEMMA CapType ==
  ASSUME NEW r \in Row
  PROVE  WholeLots((r.volume * Participation) \div RateUnit) \in Int
<1>1. r.volume \in Int /\ Participation \in Int /\ RateUnit \in Nat \ {0}
  BY Frictions DEF Row
<1>2. (r.volume * Participation) \div RateUnit \in Int
  BY <1>1, QuotientType
<1> QED BY <1>2, WholeLotsType

\* A quantity is a whole number of shares whatever the sizing mode.
LEMMA EntryQuantityType ==
  ASSUME TypeOK, NEW s \in Symbols, TradesToday(s), Executable(Today(s), "buy")
  PROVE  EntryQuantity(s) \in Nat
<1> DEFINE price == EntryPrice(s)
           q == WholeLots(Smaller(Target(price, equity), Affordable(price)))
           size == SizeOrder(price, equity)
           cap == WholeLots((Today(s).volume * Participation) \div RateUnit)
<1>1. price \in Nat \ {0} /\ Today(s) \in Row
  BY EntryPriceType, TodayType
<1>2. q \in Int
  <2> HIDE DEF price
  <2>1. Target(price, equity) \in Int /\ Affordable(price) \in Int
    BY <1>1, SizingType
  <2> QED BY <2>1, SmallerType, WholeLotsType
<1>3. size = IF q > 0 THEN q ELSE 0
  BY DEF SizeOrder
<1>4. cap \in Int
  BY <1>1, CapType
<1>5. EntryQuantity(s) =
        CASE Participation = 0 \/ size <= cap -> size
          [] Participation # 0 /\ size > cap /\ RejectPartialFills -> 0
          [] OTHER -> IF cap > 0 THEN cap ELSE 0
  BY DEF EntryQuantity, LiquidityCap
<1> HIDE DEF q, size, cap
<1> QED BY <1>2, <1>3, <1>4, <1>5

\* Every reason for not filling an order is one an event can carry.
LEMMA BlockerType ==
  ASSUME NEW o \in Order
  PROVE  Blocker(o) \in Detail
BY DEF Blocker, Detail, Reason

\* Notional and costs of a fill are not negative.
LEMMA CostType ==
  ASSUME NEW price \in Nat, NEW q \in Nat
  PROVE  /\ price * q \in Nat
         /\ price * q * RateUnit \in Nat
         /\ CostOf(price, q) \in Nat
BY Frictions DEF CostOf

\* An exit never takes cash away: a cost rate below 1 leaves something of the notional.
LEMMA ProceedsType ==
  ASSUME NEW price \in Nat, NEW q \in Nat
  PROVE  Proceeds(price, q) \in Nat
<1>1. RateUnit - CostRate \in Nat /\ RateUnit \in Nat /\ CostRate \in Nat
  BY Frictions
<1>2. price * q * (RateUnit - CostRate) \in Nat
  BY <1>1
<1>3. Proceeds(price, q) = price * q * (RateUnit - CostRate)
  BY <1>1 DEF Proceeds, CostOf
<1> QED BY <1>2, <1>3

\* What the type invariant says of the state that an order, a fill or a signal
\* changes, when the remaining variables keep theirs.
BookOK ==
  /\ positions \in [Symbols -> Position \cup {NoPosition}]
  /\ pending \subseteq Order
  /\ cash \in Int /\ sessionNotional \in Nat
  /\ fills \subseteq Fill /\ trades \subseteq Trade /\ events \subseteq Event

\* A held symbol has a position record.
LEMMA HeldType ==
  ASSUME TypeOK, NEW s \in Held
  PROVE  s \in Symbols /\ positions[s] \in Position
BY DEF TypeOK, Held

\* A full exit, by an order or by a halt, keeps the book well typed.
LEMMA ClosePositionType ==
  ASSUME TypeOK, NEW s \in Held, NEW price \in Nat, NEW rowDay \in Nat,
         NEW reason \in {"order", "halt"}, ClosePosition(s, price, rowDay, reason)
  PROVE  /\ positions' \in [Symbols -> Position \cup {NoPosition}]
         /\ cash' \in Int /\ sessionNotional' \in Nat
         /\ fills' \subseteq Fill /\ trades' \subseteq Trade
<1> DEFINE p == positions[s]
           cost == CostOf(price, p.quantity)
           gross == (price - p.entryPrice) * p.quantity * RateUnit
           fill == [symbol |-> s, side |-> "sell", day |-> session,
                    rowDay |-> rowDay, price |-> price,
                    quantity |-> p.quantity, reason |-> reason]
           trade == [symbol |-> s, entryDay |-> p.entryDay, entryPrice |-> p.entryPrice,
                     exitDay |-> session,
                     quantity |-> p.quantity, gross |-> gross,
                     costs |-> p.entryCosts + cost, netPnl |-> gross - cost,
                     reason |-> reason]
<1>1. /\ s \in Symbols /\ session \in Nat
      /\ p.quantity \in Nat \ {0} /\ p.entryDay \in Nat /\ p.entryPrice \in Nat
      /\ p.entryCosts \in Nat
  <2>1. s \in Symbols /\ p \in Position
    BY HeldType
  <2>2. session \in Nat
    BY Portfolio DEF TypeOK
  <2> QED BY <2>1, <2>2 DEF Position
<1>2. /\ price * p.quantity \in Nat
      /\ price * p.quantity * RateUnit \in Nat
      /\ cost \in Nat
  BY <1>1, CostType
<1>3. gross \in Int
  BY <1>1, Frictions
<1>4. /\ positions' = [positions EXCEPT ![s] = NoPosition]
      /\ cash' = cash + (price * p.quantity * RateUnit - cost)
      /\ sessionNotional' = sessionNotional + price * p.quantity
      /\ fills' = fills \cup {fill}
      /\ trades' = trades \cup {trade}
  BY DEF ClosePosition, Proceeds
<1> HIDE DEF cost, gross
<1>5. fill \in Fill
  BY <1>1 DEF Fill, Side
<1>6. trade \in Trade
  BY <1>1, <1>2, <1>3 DEF Trade
<1> HIDE DEF p, fill, trade
<1>7. positions' \in [Symbols -> Position \cup {NoPosition}]
  BY <1>1, <1>4 DEF TypeOK
<1>8. cash' \in Int /\ sessionNotional' \in Nat
  BY SMTT(30), <1>2, <1>4 DEF TypeOK
<1> QED BY <1>4, <1>5, <1>6, <1>7, <1>8 DEF TypeOK

\* The strategy answers with a halt exit only for a symbol that is held.
LEMMA HaltExitLong ==
  ASSUME NEW s \in Symbols, SignalOf(s) = "halt_exit"
  PROVE  s \in Held
BY DEF SignalOf, Evaluate, Classify

\* Each action of the order and decision phases keeps the book well typed.
LEMMA KeepOrderType ==
  ASSUME TypeOK, NEW o \in Order, KeepOrder(o)
  PROVE  BookOK'
<1>1. OrderEvent(o.symbol, o.side, "pending_exit", Blocker(o), o.decided) \in Event
  BY BlockerType, Portfolio DEF OrderEvent, Event, Order, EventStatus, TypeOK
<1> QED BY <1>1 DEF KeepOrder, BookOK, TypeOK

\* Cancelling an order keeps the book well typed.
LEMMA CancelOrderType ==
  ASSUME TypeOK, NEW o \in Order, CancelOrder(o)
  PROVE  BookOK'
<1>1. OrderEvent(o.symbol, o.side, "cancelled", Blocker(o), o.decided) \in Event
  BY BlockerType, Portfolio DEF OrderEvent, Event, Order, EventStatus, TypeOK
<1> QED BY <1>1 DEF CancelOrder, BookOK, TypeOK

\* Filling an entry keeps the book well typed; the position has at least one share.
LEMMA FillEntryType ==
  ASSUME TypeOK, NEW o \in Order, FillEntry(o)
  PROVE  BookOK'
<1> DEFINE s == o.symbol
           q == EntryQuantity(s)
           price == EntryPrice(s)
           cost == CostOf(price, q)
           fill == [symbol |-> s, side |-> "buy", day |-> session,
                    rowDay |-> session, price |-> price, quantity |-> q,
                    reason |-> "order"]
           position == [quantity |-> q, entryDay |-> session, entryPrice |-> price,
                        entryCosts |-> cost, lastMark |-> price]
           event == OrderEvent(s, "buy", "executed", "order", o.decided)
<1>1. s \in Symbols /\ o.decided \in Nat /\ session \in Nat
  BY Portfolio DEF TypeOK, Order
<1>2. TradesToday(s) /\ Executable(Today(s), "buy") /\ ~NoShares(s)
  BY DEF FillEntry, Blocker
<1>3. price \in Nat /\ q \in Nat \ {0}
  BY <1>1, <1>2, EntryPriceType, EntryQuantityType DEF NoShares
<1>4. price * q \in Nat /\ price * q * RateUnit \in Nat /\ cost \in Nat
  BY <1>3, CostType
<1>5. event \in Event
  BY <1>1 DEF OrderEvent, Event, Detail, EventStatus, Side
<1>6. /\ cash' = cash - (price * q * RateUnit + cost)
      /\ sessionNotional' = sessionNotional + price * q
      /\ fills' = fills \cup {fill}
      /\ positions' = [positions EXCEPT ![s] = position]
      /\ events' = events \cup {event}
      /\ UNCHANGED <<pending, trades>>
  BY DEF FillEntry
<1> HIDE DEF q, price, cost, event
<1>7. fill \in Fill
  BY <1>1, <1>3 DEF Fill, Side
<1>8. position \in Position
  BY <1>1, <1>3, <1>4 DEF Position
<1> HIDE DEF s, fill, position
<1>9. positions' \in [Symbols -> Position \cup {NoPosition}]
  BY <1>1, <1>6, <1>8 DEF TypeOK
<1>10. cash' \in Int /\ sessionNotional' \in Nat
  BY <1>4, <1>6 DEF TypeOK
<1> QED BY <1>5, <1>6, <1>7, <1>9, <1>10 DEF BookOK, TypeOK

\* A filled exit closes its position at a price that is not negative.
LEMMA ExitPriceType ==
  ASSUME TypeOK, NEW o \in Order, FillExit(o)
  PROVE  \E price \in Nat : ClosePosition(o.symbol, price, session, "order")
<1>1. TradesToday(o.symbol) /\ o.symbol \in Symbols
  BY DEF FillExit, Blocker, Order
<1>2. PriceFor(Today(o.symbol), "sell") \in Nat /\ RateUnit - SlippageRate \in Nat
  BY <1>1, TodayType, PriceType, Frictions DEF Side
<1>3. PriceFor(Today(o.symbol), "sell") * (RateUnit - SlippageRate) \in Nat
  BY <1>2
<1> QED BY <1>3 DEF FillExit

\* A halt exit closes its position at the price of a row, or at the entry price.
LEMMA HaltPriceType ==
  ASSUME TypeOK, NEW s \in Held
  PROVE  HaltPrice(s) \in Nat /\ HaltRowDay(s) \in Nat
<1>1. session \in Nat /\ s \in Symbols /\ positions[s].entryPrice \in Nat
  BY HeldType, Portfolio DEF TypeOK, Position
<1>2. rows[s] \in Seq(Row) /\ HaltRow(s) \in 0..Len(rows[s])
  BY <1>1, LastPositiveVolumeType DEF TypeOK, HaltRow
<1>3. CASE HaltRow(s) = 0
  BY <1>1, <1>3 DEF HaltPrice, HaltRowDay
<1>4. CASE HaltRow(s) # 0
  <2>1. rows[s][HaltRow(s)] \in Row
    BY <1>2, <1>4
  <2>2. rows[s][HaltRow(s)].close \in Nat /\ rows[s][HaltRow(s)].day \in Nat
    BY <2>1 DEF Row
  <2> QED BY <1>4, <2>2, Frictions DEF HaltPrice, HaltRowDay
<1> QED BY <1>3, <1>4

\* Filling an exit keeps the book well typed.
LEMMA FillExitType ==
  ASSUME TypeOK, NEW o \in Order, FillExit(o)
  PROVE  BookOK'
<1>1. o.symbol \in Held
  BY DEF FillExit, Blocker
<1>2. /\ positions' \in [Symbols -> Position \cup {NoPosition}]
      /\ cash' \in Int /\ sessionNotional' \in Nat
      /\ fills' \subseteq Fill /\ trades' \subseteq Trade
  BY <1>1, ExitPriceType, ClosePositionType, Portfolio DEF TypeOK
<1>3. OrderEvent(o.symbol, "sell", "executed", "order", o.decided) \in Event
  BY Portfolio DEF TypeOK, Order, OrderEvent, Event, Detail, EventStatus, Side
<1> QED BY <1>2, <1>3 DEF FillExit, BookOK, TypeOK

\* A halt exit keeps the book well typed.
LEMMA HaltExitType ==
  ASSUME TypeOK, NEW s \in Symbols, SignalOf(s) = "halt_exit", HaltExit(s)
  PROVE  BookOK'
<1>1. s \in Held /\ session \in Nat
  BY HaltExitLong, Portfolio DEF TypeOK
<1>2. /\ positions' \in [Symbols -> Position \cup {NoPosition}]
      /\ cash' \in Int /\ sessionNotional' \in Nat
      /\ fills' \subseteq Fill /\ trades' \subseteq Trade
  BY <1>1, HaltPriceType, ClosePositionType DEF HaltExit
<1>3. OrderEvent(s, "sell", "executed", "halt", session) \in Event
  BY <1>1 DEF OrderEvent, Event, Detail, EventStatus, Side
<1>4. SupersededEvents(s) \subseteq Event
  <2> SUFFICES ASSUME NEW o \in Superseded(s)
               PROVE  OrderEvent(s, o.side, "cancelled", "superseded", o.decided) \in Event
    BY DEF SupersededEvents
  <2>1. o \in Order
    BY DEF Superseded, TypeOK
  <2> QED BY <1>1, <2>1 DEF OrderEvent, Event, Detail, EventStatus, Order
<1> QED BY <1>2, <1>3, <1>4 DEF HaltExit, BookOK, TypeOK

\* Scheduling an order keeps the book well typed.
LEMMA ScheduleType ==
  ASSUME TypeOK, NEW s \in Symbols, NEW side \in Side, Schedule(s, side)
  PROVE  BookOK'
<1>1. session \in Nat
  BY Portfolio DEF TypeOK
<1>2. [symbol |-> s, side |-> side, decided |-> session,
       earliest |-> EarliestSession] \in Order
  BY <1>1 DEF Order, EarliestSession
<1>3. OrderEvent(s, side, "scheduled", "order", session) \in Event
  BY <1>1 DEF OrderEvent, Event, Detail, EventStatus
<1> QED BY <1>2, <1>3 DEF Schedule, BookOK, TypeOK

\* A new session keeps the type invariant.
LEMMA OpenSessionType ==
  ASSUME TypeOK, OpenSession
  PROVE  TypeOK'
<1>1. PICK days \in [Symbols -> UNION {MarketDays[session + 1][s] : s \in Symbols}] :
        /\ \A s \in Symbols : days[s] \in MarketDays[session + 1][s]
        /\ rows' = [s \in Symbols |->
             IF days[s].traded
             THEN Append(rows[s],
                    [day |-> session + 1, open |-> days[s].open,
                     close |-> days[s].close, volume |-> days[s].volume,
                     valid |-> days[s].valid, status |-> days[s].status])
             ELSE rows[s]]
        /\ listing' = [s \in Symbols |-> days[s].status]
  BY DEF OpenSession
<1>2. session' \in 0..MaxSessions /\ session \in Nat
  <2>1. session' = session + 1 /\ session < MaxSessions
    BY DEF OpenSession
  <2>2. session \in 0..MaxSessions /\ MaxSessions \in Nat
    BY Portfolio DEF TypeOK
  <2> QED BY <2>1, <2>2
<1>3. \A s \in Symbols : days[s] \in MarketDay
  <2>1. session + 1 \in 1..MaxSessions
    BY <1>2, Portfolio DEF OpenSession
  <2>2. MarketDays[session + 1] \in [Symbols -> SUBSET MarketDay]
    BY <2>1, Portfolio DEF HistoriesSupplied
  <2> QED BY <1>1, <2>2
<1>4. rows' \in [Symbols -> Seq(Row)]
  <2> SUFFICES ASSUME NEW s \in Symbols PROVE rows'[s] \in Seq(Row)
    BY <1>1
  <2>1. CASE days[s].traded
    <3> DEFINE row == [day |-> session + 1, open |-> days[s].open,
                       close |-> days[s].close, volume |-> days[s].volume,
                       valid |-> days[s].valid, status |-> days[s].status]
    <3>1. days[s] \in Bar
      BY <1>3, <2>1 DEF MarketDay, Gap
    <3>2. row \in Row
      BY <1>2, <3>1 DEF Bar, Row
    <3>3. rows'[s] = Append(rows[s], row)
      BY <1>1, <2>1
    <3> HIDE DEF row
    <3> QED BY <3>2, <3>3 DEF TypeOK
  <2>2. CASE ~days[s].traded
    BY <1>1, <2>2 DEF TypeOK
  <2> QED BY <2>1, <2>2
<1>5. listing' \in [Symbols -> ListingStatus]
  BY <1>1, <1>3 DEF MarketDay, Bar, Gap
<1>6. /\ phase' = "execute" /\ queue' = pending /\ pending' = {}
      /\ sessionNotional' = 0 /\ toMark' = {}
      /\ UNCHANGED <<toDecide, positions, cash, fills, trades, events, curve>>
  BY DEF OpenSession, TypeOK
<1> QED BY <1>2, <1>4, <1>5, <1>6 DEF TypeOK, curve

\* Processing an order keeps the type invariant.
LEMMA ExecuteOrderType ==
  ASSUME TypeOK, ExecuteOrder
  PROVE  TypeOK'
<1>1. PICK o \in queue : /\ queue' = queue \ {o}
                         /\ KeepOrder(o) \/ CancelOrder(o) \/ FillEntry(o) \/ FillExit(o)
  BY DEF ExecuteOrder
<1>2. o \in Order
  BY DEF TypeOK
<1>3. BookOK'
  BY <1>1, <1>2, KeepOrderType, CancelOrderType, FillEntryType, FillExitType
<1>4. /\ phase = "execute"
      /\ UNCHANGED <<session, rows, listing, phase, toMark, toDecide, marketValue,
                     equity, tradedNotional>>
  BY DEF ExecuteOrder, market, curve
<1> QED BY <1>1, <1>3, <1>4 DEF TypeOK, BookOK

\* The end of phase 1 keeps the type invariant.
LEMMA EndExecuteType ==
  ASSUME TypeOK, EndExecute
  PROVE  TypeOK'
BY DEF TypeOK, EndExecute, market, book, Held

\* Marking a position keeps the type invariant and holds on to every position.
LEMMA MarkPositionStep ==
  ASSUME TypeOK, MarkPosition
  PROVE  /\ TypeOK'
         /\ Held' = Held
<1>1. PICK s \in toMark :
        LET p == positions[s]
            mark == IF TradesToday(s) /\ Today(s).close > 0
                    THEN Today(s).close * RateUnit ELSE p.lastMark
        IN  /\ positions' = [positions EXCEPT ![s].lastMark = mark]
            /\ marketValue' = marketValue + mark * p.quantity
            /\ toMark' = toMark \ {s}
  BY DEF MarkPosition
<1> DEFINE p == positions[s]
           mark == IF TradesToday(s) /\ Today(s).close > 0
                   THEN Today(s).close * RateUnit ELSE p.lastMark
<1>2. s \in Symbols /\ p \in Position
  BY HeldType DEF TypeOK, MarkPosition
<1>3. mark \in Nat
  <2>1. p.lastMark \in Nat
    BY <1>2 DEF Position
  <2>2. TradesToday(s) => Today(s).close \in Nat
    BY <1>2, TodayType DEF Row
  <2> QED BY <2>1, <2>2, Frictions
<1>4. /\ positions' = [positions EXCEPT ![s] = [p EXCEPT !.lastMark = mark]]
      /\ marketValue' = marketValue + mark * p.quantity
      /\ toMark' = toMark \ {s}
  BY <1>1
<1> HIDE DEF mark
<1>5. [p EXCEPT !.lastMark = mark] \in Position /\ p.quantity \in Nat
  BY <1>2, <1>3 DEF Position
<1> HIDE DEF p
<1>6. positions' \in [Symbols -> Position \cup {NoPosition}]
  BY <1>2, <1>4, <1>5 DEF TypeOK
<1>7. Held' = Held
  BY <1>2, <1>4, <1>5, HeldType, Portfolio DEF Held, TypeOK, MarkPosition
<1>8. marketValue' \in Nat
  <2>1. \A a, b \in Nat : a * b \in Nat
    OBVIOUS
  <2>2. mark * p.quantity \in Nat
    BY <1>3, <1>5, <2>1
  <2>3. marketValue \in Nat
    BY DEF TypeOK
  <2> QED BY <1>4, <2>2, <2>3
<1>9. /\ UNCHANGED <<session, rows, listing, phase, queue, toDecide, pending, cash,
                     sessionNotional, fills, trades, events, equity, tradedNotional>>
  BY DEF MarkPosition, market
<1>10. toMark' \subseteq IF phase' = "mark" THEN Held' ELSE {}
  BY <1>4, <1>7, <1>9 DEF TypeOK
<1>11. TypeOK'
  BY <1>4, <1>6, <1>8, <1>9, <1>10 DEF TypeOK
<1> QED BY <1>7, <1>11

\* The end of phase 2 keeps the type invariant.
LEMMA EndMarkType ==
  ASSUME TypeOK, EndMark
  PROVE  TypeOK'
<1>1. equity' \in Int /\ tradedNotional' \in Nat
  BY Frictions DEF EndMark, TypeOK
<1> QED BY <1>1 DEF EndMark, TypeOK, market, book, Held

\* Acting on a symbol's signal keeps the type invariant.
LEMMA DecideSymbolType ==
  ASSUME TypeOK, DecideSymbol
  PROVE  TypeOK'
<1>1. PICK s \in toDecide :
        /\ toDecide' = toDecide \ {s}
        /\ \/ SignalOf(s) = "halt_exit" /\ HaltExit(s)
           \/ SignalOf(s) = "entry" /\ Schedule(s, "buy")
           \/ SignalOf(s) = "exit" /\ Schedule(s, "sell")
           \/ SignalOf(s) \in {"none", "entry_blocked", "unavailable"} /\ UNCHANGED book
  BY DEF DecideSymbol
<1>2. s \in Symbols
  BY DEF TypeOK
<1>3. BookOK'
  <2>1. CASE SignalOf(s) = "halt_exit" /\ HaltExit(s)
    BY <1>2, <2>1, HaltExitType
  <2>2. CASE Schedule(s, "buy") \/ Schedule(s, "sell")
    BY <1>2, <2>2, ScheduleType DEF Side
  <2>3. CASE UNCHANGED book
    BY <2>3 DEF book, BookOK, TypeOK
  <2> QED BY <1>1, <2>1, <2>2, <2>3
<1>4. /\ phase = "decide"
      /\ UNCHANGED <<session, rows, listing, phase, queue, toMark, marketValue,
                     equity, tradedNotional>>
  BY DEF DecideSymbol, market, curve
<1> QED BY <1>1, <1>3, <1>4 DEF TypeOK, BookOK

\* The end of the run keeps the type invariant.
LEMMA FinishType ==
  ASSUME TypeOK, Finish
  PROVE  TypeOK'
<1> DEFINE last(o) ==
      OrderEvent(o.symbol, o.side,
                 IF o.side = "sell" THEN "pending_exit" ELSE "cancelled",
                 "period_ended", o.decided)
<1>1. \A o \in pending : last(o) \in Event
  <2> SUFFICES ASSUME NEW o \in pending PROVE last(o) \in Event
    OBVIOUS
  <2>1. o \in Order /\ session \in Nat
    BY Portfolio DEF TypeOK
  <2> QED BY <2>1 DEF OrderEvent, Event, Detail, EventStatus, Order, Side
<1>2. events' = events \cup {last(o) : o \in pending}
  BY DEF Finish
<1> HIDE DEF last
<1>3. events' \subseteq Event
  BY <1>1, <1>2 DEF TypeOK
<1> QED BY <1>3 DEF Finish, TypeOK, market, curve, Held

\* Every step keeps the type invariant.
LEMMA TypeCorrectStep ==
  ASSUME TypeOK, [Next]_vars
  PROVE  TypeOK'
<1>1. CASE OpenSession
  BY <1>1, OpenSessionType
<1>2. CASE ExecuteOrder
  BY <1>2, ExecuteOrderType
<1>3. CASE EndExecute
  BY <1>3, EndExecuteType
<1>4. CASE MarkPosition
  BY <1>4, MarkPositionStep
<1>5. CASE EndMark
  BY <1>5, EndMarkType
<1>6. CASE DecideSymbol
  BY <1>6, DecideSymbolType
<1>7. CASE Finish
  BY <1>7, FinishType
<1>8. CASE UNCHANGED vars
  BY <1>8 DEF vars, market, work, book, curve, TypeOK, Held
<1> QED BY <1>1, <1>2, <1>3, <1>4, <1>5, <1>6, <1>7, <1>8 DEF Next

\* Every reachable state of the session loop is well typed: in particular fills
\* and positions have at least one share, sizing always gives a number of shares,
\* and a halt exit always finds the position it closes.
THEOREM TypeCorrect == Spec => []TypeOK
<1>1. Init => TypeOK
  <2> SUFFICES ASSUME Init PROVE TypeOK
    OBVIOUS
  <2>1. rows \in [Symbols -> Seq(Row)]
    BY Portfolio DEF Init, HistoriesSupplied
  <2> QED
    BY <2>1, Portfolio, Frictions DEF Init, TypeOK, ListingStatus, Held
<1>2. TypeOK /\ [Next]_vars => TypeOK'
  BY TypeCorrectStep
<1> QED BY <1>1, <1>2, PTL DEF Spec

-----------------------------------------------------------------------------
(* The order book *)

\* OrderBook is not inductive: a step of phase 3 keeps it because no entry of an
\* undecided symbol is outstanding yet, and a step of phase 1 because the orders
\* kept so far are exits and every queued one is due.
OrderInv ==
  /\ OrderBook
  /\ pending \cap queue = {}
  /\ phase # "execute" => queue = {}
  /\ \A o \in queue : o.earliest <= session
  /\ \A o \in pending : o.earliest <= session + 1
  /\ \A o \in pending : o.side = "buy" =>
       phase \in {"decide", "done"} /\ o.symbol \notin toDecide

\* A filled entry adds its symbol to the held ones.
LEMMA HeldAfterEntry ==
  ASSUME TypeOK, NEW o \in Order, FillEntry(o)
  PROVE  Held' = Held \cup {o.symbol}
<1> DEFINE position == [quantity |-> EntryQuantity(o.symbol), entryDay |-> session,
                        entryPrice |-> EntryPrice(o.symbol),
                        entryCosts |-> CostOf(EntryPrice(o.symbol), EntryQuantity(o.symbol)),
                        lastMark |-> EntryPrice(o.symbol)]
<1>1. o.symbol \in Symbols
  BY DEF Order
<1>2. positions' = [positions EXCEPT ![o.symbol] = position]
  BY DEF FillEntry
<1>3. position # NoPosition
  <2>1. positions' \in [Symbols -> Position \cup {NoPosition}]
    BY FillEntryType DEF BookOK
  <2>2. TradesToday(o.symbol) /\ Executable(Today(o.symbol), "buy") /\ ~NoShares(o.symbol)
    BY DEF FillEntry, Blocker
  <2>3. EntryPrice(o.symbol) \in Nat /\ EntryQuantity(o.symbol) \in Nat \ {0}
    BY <1>1, <2>2, EntryPriceType, EntryQuantityType DEF NoShares
  <2>4. CostOf(EntryPrice(o.symbol), EntryQuantity(o.symbol)) \in Nat
    BY <2>3, CostType
  <2>5. session \in Nat
    BY Portfolio DEF TypeOK
  <2>6. position \in Position
    BY <2>3, <2>4, <2>5 DEF Position
  <2> QED BY <2>6, Portfolio
<1> HIDE DEF position
<1> QED BY <1>1, <1>2, <1>3 DEF Held, TypeOK

\* A full exit removes its symbol from the held ones.
LEMMA HeldAfterExit ==
  ASSUME TypeOK, NEW s \in Symbols, NEW price, NEW rowDay, NEW reason,
         ClosePosition(s, price, rowDay, reason)
  PROVE  Held' = Held \ {s}
BY DEF ClosePosition, Held, TypeOK

\* Which of the four outcomes phase 1 chooses for an order, and what it does to
\* the positions.
LEMMA ExecuteOutcome ==
  ASSUME TypeOK, OrderInv, NEW o \in queue,
         KeepOrder(o) \/ CancelOrder(o) \/ FillEntry(o) \/ FillExit(o)
  PROVE  \/ o.side = "sell" /\ pending' = pending \cup {o} /\ Held' = Held
         \/ o.side = "buy" /\ pending' = pending /\ Held' = Held
         \/ o.side = "buy" /\ pending' = pending /\ Held' = Held \cup {o.symbol}
         \/ o.side = "sell" /\ pending' = pending /\ Held' = Held \ {o.symbol}
<1>1. o \in Order /\ o.earliest <= session
  BY DEF TypeOK, OrderInv
<1>2. o.earliest \in Nat /\ session \in Nat /\ o.symbol \in Symbols
  BY <1>1, Portfolio DEF Order, TypeOK
<1>3. Blocker(o) # "not_due"
  BY <1>1, <1>2 DEF Blocker
<1>4. o.side \in {"buy", "sell"} /\ (o.side = "sell" => o.symbol \in Held)
  BY <1>1 DEF Order, Side, OrderInv, OrderBook
<1>5. CASE KeepOrder(o)
  BY <1>3, <1>5 DEF KeepOrder, Stays, Held
<1>6. CASE CancelOrder(o)
  <2>1. o.side = "buy"
    BY <1>4, <1>6 DEF CancelOrder, Stays, Blocker
  <2> QED BY <1>6, <2>1 DEF CancelOrder, Held
<1>7. CASE FillEntry(o)
  BY <1>1, <1>7, HeldAfterEntry DEF FillEntry
<1>8. CASE FillExit(o)
  BY <1>2, <1>8, HeldAfterExit DEF FillExit
<1> QED BY <1>5, <1>6, <1>7, <1>8

\* A new session keeps OrderInv: what was outstanding is queued.
LEMMA OpenSessionOrders ==
  ASSUME TypeOK, OrderInv, OpenSession
  PROVE  OrderInv'
<1>1. /\ queue = {} /\ toDecide = {} /\ phase' = "execute" /\ toDecide' = toDecide
      /\ queue' = pending /\ pending' = {} /\ session' = session + 1 /\ session \in Nat
  BY Portfolio DEF OpenSession, OrderInv, TypeOK
<1>2. Held' = Held
  BY DEF OpenSession, Held
<1> QED BY <1>1, <1>2 DEF OrderInv, OrderBook

\* Processing an order keeps OrderInv.
LEMMA ExecuteOrderOrders ==
  ASSUME TypeOK, OrderInv, ExecuteOrder
  PROVE  OrderInv'
<1>1. PICK o \in queue : /\ queue' = queue \ {o}
                         /\ KeepOrder(o) \/ CancelOrder(o) \/ FillEntry(o) \/ FillExit(o)
  BY DEF ExecuteOrder
<1>2. /\ phase = "execute" /\ phase' = "execute" /\ session' = session
      /\ toDecide' = toDecide /\ session \in Nat
  BY Portfolio DEF ExecuteOrder, market, TypeOK
<1>3. \/ o.side = "sell" /\ pending' = pending \cup {o} /\ Held' = Held
      \/ o.side = "buy" /\ pending' = pending /\ Held' = Held
      \/ o.side = "buy" /\ pending' = pending /\ Held' = Held \cup {o.symbol}
      \/ o.side = "sell" /\ pending' = pending /\ Held' = Held \ {o.symbol}
  BY <1>1, ExecuteOutcome
<1>4. o.earliest <= session /\ o.earliest \in Nat
  BY DEF OrderInv, TypeOK, Order
<1>5. \A p \in (pending \cup queue)' :
        /\ p \in pending \cup queue
        /\ p.symbol = o.symbol => p = o
        /\ p = o => o.side = "sell" /\ Held' = Held
  BY <1>1, <1>3 DEF OrderInv, OrderBook
<1>6. OrderBook'
  <2> SUFFICES ASSUME NEW p \in (pending \cup queue)'
               PROVE  /\ \A q \in (pending \cup queue)' : q.symbol = p.symbol => q = p
                      /\ p.side = "sell" => p.symbol \in Held'
                      /\ p.side = "buy" =>
                           /\ p.symbol \notin Held'
                           /\ p.decided = IF p \in queue' THEN session' - 1 ELSE session'
    BY DEF OrderBook
  <2>1. \A q \in (pending \cup queue)' : q.symbol = p.symbol => q = p
    BY <1>5 DEF OrderInv, OrderBook
  <2>2. p.side = "sell" => p.symbol \in Held'
    BY <1>3, <1>5 DEF OrderInv, OrderBook
  <2>3. p.side = "buy" => p.symbol \notin Held'
    BY <1>3, <1>5 DEF OrderInv, OrderBook
  <2>4. p.side = "buy" => p \in queue /\ p \in queue'
    BY <1>1, <1>2, <1>5 DEF OrderInv
  <2>5. p.side = "buy" => p.decided = session - 1
    BY <1>5, <2>4 DEF OrderInv, OrderBook
  <2> QED BY <1>2, <2>1, <2>2, <2>3, <2>4, <2>5
<1> QED BY <1>1, <1>2, <1>3, <1>4, <1>6 DEF OrderInv

\* Phase 2 keeps OrderInv: no entry is left over from phase 1.
LEMMA MarkOrders ==
  ASSUME TypeOK, OrderInv, EndExecute \/ MarkPosition \/ EndMark
  PROVE  OrderInv'
<1>1. /\ phase \in {"execute", "mark"} /\ phase' \in {"mark", "decide"}
      /\ queue = {} /\ UNCHANGED <<pending, queue, session>>
  BY DEF EndExecute, MarkPosition, EndMark, market, book, OrderInv
<1>2. Held' = Held
  <2>1. CASE EndExecute \/ EndMark
    BY <2>1 DEF EndExecute, EndMark, book, Held
  <2>2. CASE MarkPosition
    BY <2>2, MarkPositionStep
  <2> QED BY <2>1, <2>2
<1>3. \A o \in pending : o.side # "buy"
  BY <1>1 DEF OrderInv
<1> QED BY <1>1, <1>2, <1>3 DEF OrderInv, OrderBook

\* What phase 3 does to a symbol's orders and position, by its signal.
LEMMA DecideOutcome ==
  ASSUME TypeOK, OrderInv, DecideSymbol
  PROVE  \E s \in toDecide :
    /\ toDecide' = toDecide \ {s}
    /\ \/ /\ SignalOf(s) = "halt_exit" /\ s \in Held
          /\ pending' = pending \ Superseded(s) /\ Held' = Held \ {s}
       \/ \E o \in Order :
            /\ pending' = pending \cup {o} /\ Held' = Held
            /\ SignalOf(s) # "halt_exit"
            /\ o.symbol = s /\ o.decided = session /\ o.earliest = session + 1
            /\ \A p \in pending : p.symbol # s
            /\ o.side = IF s \in Held THEN "sell" ELSE "buy"
       \/ pending' = pending /\ Held' = Held /\ SignalOf(s) # "halt_exit"
<1>1. PICK s \in toDecide :
        /\ toDecide' = toDecide \ {s}
        /\ \/ SignalOf(s) = "halt_exit" /\ HaltExit(s)
           \/ SignalOf(s) = "entry" /\ Schedule(s, "buy")
           \/ SignalOf(s) = "exit" /\ Schedule(s, "sell")
           \/ SignalOf(s) \in {"none", "entry_blocked", "unavailable"} /\ UNCHANGED book
  BY DEF DecideSymbol
<1>2. s \in Symbols /\ session \in Nat
  BY Portfolio DEF TypeOK
<1>3. CASE SignalOf(s) = "halt_exit" /\ HaltExit(s)
  <2>1. s \in Held
    BY <1>2, <1>3, HaltExitLong
  <2>2. pending' = pending \ Superseded(s)
    BY <1>3 DEF HaltExit
  <2>3. Held' = Held \ {s}
    BY <1>2, <1>3, HeldAfterExit DEF HaltExit
  <2> QED BY <1>1, <1>3, <2>1, <2>2, <2>3
<1>4. ASSUME NEW side \in Side, Schedule(s, side),
             SignalOf(s) = IF side = "buy" THEN "entry" ELSE "exit"
      PROVE  \E o \in Order :
               /\ pending' = pending \cup {o} /\ Held' = Held
               /\ SignalOf(s) # "halt_exit"
               /\ o.symbol = s /\ o.decided = session /\ o.earliest = session + 1
               /\ \A p \in pending : p.symbol # s
               /\ o.side = IF s \in Held THEN "sell" ELSE "buy"
  <2> DEFINE o == [symbol |-> s, side |-> side, decided |-> session,
                   earliest |-> session + 1]
  <2>1. o \in Order
    BY <1>2 DEF Order
  <2>2. pending' = pending \cup {o} /\ Held' = Held
    BY <1>4 DEF Schedule, EarliestSession, Held
  <2>3. side = IF s \in Held THEN "sell" ELSE "buy"
    BY <1>4 DEF SignalOf, Evaluate, Classify, Side
  <2>4. \A p \in pending : p.symbol # s
    <3> SUFFICES ASSUME NEW p \in pending, p.symbol = s PROVE FALSE
      OBVIOUS
    <3>1. p.side \in Side
      BY DEF TypeOK, Order
    <3>2. CASE p.side = "buy"
      BY <3>2 DEF OrderInv
    <3>3. CASE p.side = "sell"
      <4>1. s \in Held /\ ExitPending(s)
        BY <3>3 DEF ExitPending, OrderInv, OrderBook
      <4>2. SignalOf(s) = "exit"
        BY <1>4, <2>3, <4>1
      <4> QED BY <4>1, <4>2 DEF SignalOf, Evaluate, Classify
    <3> QED BY <3>1, <3>2, <3>3 DEF Side
  <2> QED BY <1>4, <2>1, <2>2, <2>3, <2>4
<1>5. CASE SignalOf(s) \in {"none", "entry_blocked", "unavailable"} /\ UNCHANGED book
  <2>1. pending' = pending /\ Held' = Held /\ SignalOf(s) # "halt_exit"
    BY <1>5 DEF book, Held
  <2> QED BY <1>1, <2>1
<1>6. CASE SignalOf(s) = "entry" /\ Schedule(s, "buy")
  BY <1>1, <1>4, <1>6 DEF Side
<1>7. CASE SignalOf(s) = "exit" /\ Schedule(s, "sell")
  BY <1>1, <1>4, <1>7 DEF Side
<1> QED BY <1>1, <1>3, <1>5, <1>6, <1>7

\* Acting on a symbol's signal keeps OrderInv.
LEMMA DecideOrders ==
  ASSUME TypeOK, OrderInv, DecideSymbol
  PROVE  OrderInv'
<1>1. PICK s \in toDecide :
        /\ toDecide' = toDecide \ {s}
        /\ \/ /\ SignalOf(s) = "halt_exit" /\ s \in Held
              /\ pending' = pending \ Superseded(s) /\ Held' = Held \ {s}
           \/ \E o \in Order :
                /\ pending' = pending \cup {o} /\ Held' = Held
                /\ SignalOf(s) # "halt_exit"
                /\ o.symbol = s /\ o.decided = session /\ o.earliest = session + 1
                /\ \A p \in pending : p.symbol # s
                /\ o.side = IF s \in Held THEN "sell" ELSE "buy"
           \/ pending' = pending /\ Held' = Held /\ SignalOf(s) # "halt_exit"
  BY DecideOutcome
<1>2. /\ phase = "decide" /\ phase' = "decide" /\ queue = {} /\ queue' = {}
      /\ session' = session /\ session \in Nat
  BY Portfolio DEF DecideSymbol, market, TypeOK, OrderInv
<1>3. CASE pending' = pending \ Superseded(s) /\ Held' = Held \ {s}
  BY <1>1, <1>2, <1>3 DEF Superseded, OrderInv, OrderBook
<1>4. CASE \E o \in Order :
             /\ pending' = pending \cup {o} /\ Held' = Held
             /\ o.symbol = s /\ o.decided = session /\ o.earliest = session + 1
             /\ \A p \in pending : p.symbol # s
             /\ o.side = IF s \in Held THEN "sell" ELSE "buy"
  BY <1>1, <1>2, <1>4 DEF OrderInv, OrderBook
<1>5. CASE pending' = pending /\ Held' = Held
  BY <1>1, <1>2, <1>5 DEF OrderInv, OrderBook
<1> QED BY <1>1, <1>3, <1>4, <1>5

\* The end of the run keeps OrderInv.
LEMMA FinishOrders ==
  ASSUME TypeOK, OrderInv, Finish
  PROVE  OrderInv'
BY DEF Finish, OrderInv, OrderBook, Held, market

\* OrderInv holds in every reachable state.
LEMMA OrderInvariant == Spec => []OrderInv
<1>1. Init => OrderInv
  BY DEF Init, OrderInv, OrderBook
<1>2. TypeOK /\ OrderInv /\ [Next]_vars => OrderInv'
  <2> SUFFICES ASSUME TypeOK, OrderInv, [Next]_vars PROVE OrderInv'
    OBVIOUS
  <2>1. CASE OpenSession
    BY <2>1, OpenSessionOrders
  <2>2. CASE ExecuteOrder
    BY <2>2, ExecuteOrderOrders
  <2>3. CASE EndExecute \/ MarkPosition \/ EndMark
    BY <2>3, MarkOrders
  <2>4. CASE DecideSymbol
    BY <2>4, DecideOrders
  <2>5. CASE Finish
    BY <2>5, FinishOrders
  <2>6. CASE UNCHANGED vars
    BY <2>6 DEF vars, market, work, book, OrderInv, OrderBook, Held
  <2> QED BY <2>1, <2>2, <2>3, <2>4, <2>5, <2>6 DEF Next
<1> QED BY <1>1, <1>2, TypeCorrect, PTL DEF Spec

\* At every step a symbol has at most one outstanding order, an exit has a
\* position to close, and an entry is for a flat symbol and one session old at
\* most: run() never meets its "position already closed" and "already long" cases.
THEOREM OrderBookCorrect == Spec => []OrderBook
<1>1. OrderInv => OrderBook
  BY DEF OrderInv
<1> QED BY <1>1, OrderInvariant, PTL

\* An exit order is never dropped while its position stays open.
THEOREM PendingExitsPersist == Spec => PendingExitPersists
<1> DEFINE Persists == \A o \in pending \cup queue :
             o.side = "sell" => o \in (pending \cup queue)' \/ o.symbol \notin Held'
<1>1. TypeOK /\ OrderInv /\ [Next]_vars => [Persists]_vars
  <2> SUFFICES ASSUME TypeOK, OrderInv, Next,
                      NEW o \in pending \cup queue, o.side = "sell"
               PROVE  o \in (pending \cup queue)' \/ o.symbol \notin Held'
    OBVIOUS
  <2>1. CASE OpenSession \/ EndExecute \/ MarkPosition \/ EndMark \/ Finish
    BY <2>1 DEF OpenSession, EndExecute, MarkPosition, EndMark, Finish, book, market,
                OrderInv
  <2>2. CASE ExecuteOrder
    <3>1. PICK p \in queue : /\ queue' = queue \ {p}
                             /\ \/ KeepOrder(p) \/ CancelOrder(p)
                                \/ FillEntry(p) \/ FillExit(p)
      BY <2>2 DEF ExecuteOrder
    <3>2. \/ p.side = "sell" /\ pending' = pending \cup {p} /\ Held' = Held
          \/ p.side = "buy" /\ pending' = pending /\ Held' = Held
          \/ p.side = "buy" /\ pending' = pending /\ Held' = Held \cup {p.symbol}
          \/ p.side = "sell" /\ pending' = pending /\ Held' = Held \ {p.symbol}
      BY <3>1, ExecuteOutcome
    <3> QED BY <3>1, <3>2
  <2>3. CASE DecideSymbol
    <3>1. PICK s \in toDecide :
            \/ pending' = pending \ Superseded(s) /\ Held' = Held \ {s}
            \/ \E p \in Order : pending' = pending \cup {p}
            \/ pending' = pending
      BY <2>3, DecideOutcome
    <3>2. queue' = queue
      BY <2>3 DEF DecideSymbol
    <3> QED BY <3>1, <3>2 DEF Superseded
  <2> QED BY <2>1, <2>2, <2>3 DEF Next
<1>2. PendingExitPersists <=> [][Persists]_vars
  BY DEF PendingExitPersists
<1> QED BY <1>1, <1>2, TypeCorrect, OrderInvariant, PTL DEF Spec

-----------------------------------------------------------------------------
(* Capacity *)

\* What a step does to the set of held symbols.
LEMMA HeldStep ==
  ASSUME TypeOK, OrderInv, [Next]_vars
  PROVE  \/ Held' \subseteq Held
         \/ \E o \in queue : FillEntry(o) /\ Held' = Held \cup {o.symbol}
<1>1. CASE OpenSession \/ EndExecute \/ EndMark \/ Finish \/ UNCHANGED vars
  BY <1>1 DEF OpenSession, EndExecute, EndMark, Finish, vars, book, Held
<1>2. CASE MarkPosition
  BY <1>2, MarkPositionStep
<1>3. CASE ExecuteOrder
  <2>1. PICK o \in queue : KeepOrder(o) \/ CancelOrder(o) \/ FillEntry(o) \/ FillExit(o)
    BY <1>3 DEF ExecuteOrder
  <2>2. o \in Order /\ o.symbol \in Symbols
    BY DEF TypeOK, Order
  <2>3. CASE FillEntry(o)
    BY <2>2, <2>3, HeldAfterEntry
  <2>4. CASE FillExit(o)
    BY <2>2, <2>4, HeldAfterExit DEF FillExit
  <2>5. CASE KeepOrder(o) \/ CancelOrder(o)
    BY <2>5 DEF KeepOrder, CancelOrder, Held
  <2> QED BY <2>1, <2>3, <2>4, <2>5
<1>4. CASE DecideSymbol
  BY <1>4, DecideOutcome
<1> QED BY <1>1, <1>2, <1>3, <1>4 DEF Next

\* The number of positions never exceeds max_concurrent_positions.
THEOREM CapacityIsRespected == Spec => []CapacityRespected
<1>1. Init => CapacityRespected
  <2> SUFFICES ASSUME Init PROVE CapacityRespected
    OBVIOUS
  <2>1. Held = {}
    BY DEF Init, Held
  <2> QED BY <2>1, FS_EmptySet, Frictions DEF CapacityRespected
<1>2. TypeOK /\ OrderInv /\ CapacityRespected /\ [Next]_vars => CapacityRespected'
  <2> SUFFICES ASSUME TypeOK, OrderInv, CapacityRespected, [Next]_vars
               PROVE  CapacityRespected'
    OBVIOUS
  <2>1. IsFiniteSet(Held) /\ Cardinality(Held) \in Nat
    BY FS_Subset, FS_CardinalityType, Portfolio DEF Held
  <2>2. CASE Held' \subseteq Held
    <3>1. Cardinality(Held') \in Nat /\ Cardinality(Held') <= Cardinality(Held)
      BY <2>1, <2>2, FS_Subset, FS_CardinalityType
    <3> QED BY <2>1, <3>1, Frictions DEF CapacityRespected
  <2>3. ASSUME NEW o \in queue, FillEntry(o), Held' = Held \cup {o.symbol}
        PROVE  CapacityRespected'
    <3>1. ~SlotsFull
      BY <2>3 DEF FillEntry, Blocker
    <3>2. Cardinality(Held') <= Cardinality(Held) + 1
      BY <2>1, <2>3, FS_AddElement
    <3>3. Cardinality(Held') \in Nat
      BY <2>1, <2>3, FS_AddElement, FS_CardinalityType
    <3> QED BY <2>1, <3>1, <3>2, <3>3, Frictions DEF CapacityRespected, SlotsFull
  <2> QED BY <2>2, <2>3, HeldStep
<1> QED BY <1>1, <1>2, TypeCorrect, OrderInvariant, PTL DEF Spec

\* SlotsRefilled needs to know what is left of phase 1 after a refusal: entries
\* only, because an entry is not looked at before the last exit.
SlotsInv ==
  /\ \A e \in events : e.day <= session
  /\ phase \in {"execute", "mark"} =>
       ((\E e \in events : e.day = session /\ e.detail = "max_concurrent") =>
          SlotsFull /\ \A o \in queue : o.side = "buy")

\* Every event a step records is of the current session, and one that reports
\* "max_concurrent" comes from an entry cancelled in phase 1 with every slot taken.
LEMMA NewEvents ==
  ASSUME TypeOK, [Next]_vars, ~OpenSession, NEW e \in events', e \notin events
  PROVE  /\ e.day = session
         /\ e.detail = "max_concurrent" =>
              \E o \in queue : /\ CancelOrder(o) /\ o.side = "buy" /\ SlotsFull
                               /\ \A p \in queue : Precedes(o, p)
<1>1. CASE EndExecute \/ MarkPosition \/ EndMark \/ UNCHANGED vars
  BY <1>1 DEF EndExecute, MarkPosition, EndMark, vars, book
<1>2. CASE ExecuteOrder
  <2>1. PICK o \in queue : /\ \A p \in queue : Precedes(o, p)
                           /\ \/ KeepOrder(o) \/ CancelOrder(o)
                              \/ FillEntry(o) \/ FillExit(o)
    BY <1>2 DEF ExecuteOrder
  <2>2. CASE KeepOrder(o)
    BY <2>2 DEF KeepOrder, Stays, OrderEvent
  <2>3. CASE CancelOrder(o)
    <3>1. e.day = session /\ e.detail = Blocker(o)
      BY <2>3 DEF CancelOrder, OrderEvent
    <3>2. Blocker(o) = "max_concurrent" => o.side = "buy" /\ SlotsFull
      BY DEF Blocker, TypeOK, Order, Side
    <3> QED BY <2>1, <2>3, <3>1, <3>2
  <2>4. CASE FillEntry(o) \/ FillExit(o)
    BY <2>4 DEF FillEntry, FillExit, OrderEvent
  <2> QED BY <2>1, <2>2, <2>3, <2>4
<1>3. CASE DecideSymbol
  BY <1>3 DEF DecideSymbol, HaltExit, Schedule, SupersededEvents, OrderEvent, book
<1>4. CASE Finish
  BY <1>4 DEF Finish, OrderEvent
<1> QED BY <1>1, <1>2, <1>3, <1>4 DEF Next

\* An entry is refused for want of a slot only if no slot is free when phase 1 of
\* its session ends: exits are processed first.
THEOREM SlotsAreRefilled == Spec => []SlotsRefilled
<1>1. Init => SlotsInv
  BY DEF Init, SlotsInv
<1>2. TypeOK /\ OrderInv /\ SlotsInv /\ [Next]_vars => SlotsInv'
  <2> SUFFICES ASSUME TypeOK, OrderInv, SlotsInv, [Next]_vars PROVE SlotsInv'
    OBVIOUS
  <2>1. session \in Nat /\ session' \in Nat /\ \A e \in events : e.day \in Nat
    BY TypeCorrectStep, Portfolio DEF TypeOK, Event
  <2>2. CASE OpenSession
    <3>1. session' = session + 1 /\ events' = events
      BY <2>2 DEF OpenSession
    <3> QED BY <2>1, <3>1 DEF SlotsInv
  <2>3. CASE ~OpenSession
    <3>1. session' = session
      BY <2>3 DEF Next, ExecuteOrder, EndExecute, MarkPosition, EndMark, DecideSymbol,
                  Finish, vars, market
    <3>2. \A e \in events' : e.day <= session
      BY <2>1, <2>3, NewEvents DEF SlotsInv
    <3>3. ASSUME phase' \in {"execute", "mark"},
                 NEW e \in events', e.day = session, e.detail = "max_concurrent"
          PROVE  SlotsFull' /\ \A o \in queue' : o.side = "buy"
      <4>1. /\ phase \in {"execute", "mark"}
            /\ queue' \subseteq queue
            /\ Held' = Held \/ ExecuteOrder
        <5>1. CASE MarkPosition
          BY <5>1, MarkPositionStep DEF MarkPosition
        <5> QED BY <2>3, <3>3, <5>1 DEF Next, ExecuteOrder, EndExecute, EndMark,
                   DecideSymbol, Finish, vars, market, work, book, Held
      <4>2. SlotsFull /\ \A o \in queue : o.side = "buy"
        <5>1. CASE e \in events
          BY <3>3, <4>1, <5>1 DEF SlotsInv
        <5>2. CASE e \notin events
          BY <2>3, <3>3, <5>2, NewEvents DEF Precedes
        <5> QED BY <5>1, <5>2
      <4>3. Held' = Held
        <5>1. CASE ExecuteOrder
          <6>1. PICK o \in queue : \/ KeepOrder(o) \/ CancelOrder(o)
                                   \/ FillEntry(o) \/ FillExit(o)
            BY <5>1 DEF ExecuteOrder
          <6>2. ~FillEntry(o) /\ ~FillExit(o)
            BY <4>2 DEF FillEntry, FillExit, Blocker
          <6> QED BY <6>1, <6>2 DEF KeepOrder, CancelOrder, Held
        <5> QED BY <4>1, <5>1
      <4> QED BY <4>1, <4>2, <4>3 DEF SlotsFull
    <3> QED BY <3>1, <3>2, <3>3 DEF SlotsInv
  <2> QED BY <2>2, <2>3
<1>3. TypeOK /\ CapacityRespected /\ SlotsInv => SlotsRefilled
  <2>1. Cardinality(Held) \in Nat
    BY FS_Subset, FS_CardinalityType, Portfolio DEF Held
  <2> QED BY <2>1, Frictions DEF SlotsInv, SlotsRefilled, SlotsFull, CapacityRespected
<1> QED BY <1>1, <1>2, <1>3, TypeCorrect, OrderInvariant, CapacityIsRespected, PTL DEF Spec

-----------------------------------------------------------------------------
(* Halts *)

\* The run of rows without volume has a length.
LEMMA ConsecutiveZeroVolumeType ==
  ASSUME NEW w \in Seq(Row)
  PROVE  ConsecutiveZeroVolume(w) \in Nat
<1>1. Len(w) \in Nat /\ DOMAIN w = 1..Len(w)
  OBVIOUS
<1> DEFINE T == {i \in DOMAIN w : w[i].volume # 0}
<1>2. T \in SUBSET (1..Len(w))
  BY <1>1
<1>3. ConsecutiveZeroVolume(w) = Len(w) - Max({0} \cup T)
  BY DEF ConsecutiveZeroVolume, NewestRow
<1> DEFINE newest == Max({0} \cup T)
<1>4. newest \in {0} \cup T
  BY <1>1, <1>2, MaxOfRows
<1> HIDE DEF T, newest
<1>5. newest \in 0..Len(w)
  BY <1>1, <1>2, <1>4
<1> QED BY <1>1, <1>3, <1>5 DEF newest

\* NoFrozenPosition speaks of sessions that are decided.  Before that, a position
\* that may have gone too long without volume has a bar today, so that phase 3
\* will evaluate it, and so has a position phase 3 has still to evaluate.
HaltInv ==
  /\ phase \in {"execute", "mark"} =>
       \A s \in Held : TradesToday(s) \/ ConsecutiveZeroVolume(rows[s]) < HaltExitSessions
  /\ phase = "decide" =>
       \A s \in Held \ toDecide : ConsecutiveZeroVolume(rows[s]) < HaltExitSessions

\* A new session keeps HaltInv: a row is added only where a symbol trades.
LEMMA OpenSessionHalts ==
  ASSUME TypeOK, HaltInv, OpenSession
  PROVE  HaltInv'
<1>1. /\ Held' = Held /\ phase' = "execute" /\ session' = session + 1
      /\ \A s \in Held : ConsecutiveZeroVolume(rows[s]) < HaltExitSessions
  BY DEF OpenSession, Held, HaltInv
<1> SUFFICES ASSUME NEW s \in Held
             PROVE  \/ TradesToday(s)'
                    \/ ConsecutiveZeroVolume(rows'[s]) < HaltExitSessions
  BY <1>1 DEF HaltInv
<1>2. PICK days \in [Symbols -> UNION {MarketDays[session + 1][x] : x \in Symbols}] :
        rows' = [x \in Symbols |->
          IF days[x].traded
          THEN Append(rows[x],
                 [day |-> session + 1, open |-> days[x].open,
                  close |-> days[x].close, volume |-> days[x].volume,
                  valid |-> days[x].valid, status |-> days[x].status])
          ELSE rows[x]]
  BY DEF OpenSession
<1>3. s \in Symbols /\ rows[s] \in Seq(Row)
  BY DEF Held, TypeOK
<1>4. CASE days[s].traded
  <2> DEFINE row == [day |-> session + 1, open |-> days[s].open,
                     close |-> days[s].close, volume |-> days[s].volume,
                     valid |-> days[s].valid, status |-> days[s].status]
  <2>1. rows'[s] = Append(rows[s], row)
    BY <1>2, <1>3, <1>4
  <2>2. row.day = session + 1
    OBVIOUS
  <2> HIDE DEF row
  <2>3. /\ rows'[s] \in Seq(Row \cup {row})
        /\ Len(rows'[s]) = Len(rows[s]) + 1
        /\ rows'[s][Len(rows'[s])] = row
    BY <1>3, <2>1
  <2> QED BY <1>1, <1>3, <2>2, <2>3 DEF TradesToday
<1>5. CASE ~days[s].traded
  BY <1>1, <1>2, <1>3, <1>5
<1> QED BY <1>4, <1>5

\* Processing an order keeps HaltInv: an entry fills on a day the symbol trades.
LEMMA ExecuteOrderHalts ==
  ASSUME TypeOK, OrderInv, HaltInv, ExecuteOrder
  PROVE  HaltInv'
<1>1. phase = "execute" /\ UNCHANGED <<phase, session, rows>>
  BY DEF ExecuteOrder, market
<1>2. \A s \in Held' : s \in Held \/ TradesToday(s)
  <2>1. CASE Held' \subseteq Held
    BY <2>1
  <2>2. ASSUME NEW o \in queue, FillEntry(o), Held' = Held \cup {o.symbol}
        PROVE  \A s \in Held' : s \in Held \/ TradesToday(s)
    BY <2>2 DEF FillEntry, Blocker
  <2> QED BY <2>1, <2>2, HeldStep DEF Next
<1> QED BY <1>1, <1>2 DEF HaltInv, TradesToday

\* Acting on a symbol's signal keeps HaltInv: a position that is kept had no halt.
LEMMA DecideHalts ==
  ASSUME TypeOK, OrderInv, HaltInv, DecideSymbol
  PROVE  HaltInv'
<1>1. PICK s \in toDecide :
        /\ toDecide' = toDecide \ {s}
        /\ \/ Held' = Held \ {s}
           \/ Held' = Held /\ SignalOf(s) # "halt_exit"
  BY DecideOutcome
<1>2. phase = "decide" /\ UNCHANGED <<phase, session, rows>>
  BY DEF DecideSymbol, market
<1>3. s \in Symbols /\ rows[s] \in Seq(Row)
  BY DEF TypeOK
<1>4. s \in Held /\ SignalOf(s) # "halt_exit"
        => ConsecutiveZeroVolume(rows[s]) < HaltExitSessions
  BY <1>3, ConsecutiveZeroVolumeType, StrategyParameters
     DEF SignalOf, Evaluate, HaltCondition
<1> QED BY <1>1, <1>2, <1>4 DEF HaltInv

\* Once a session is decided, no open position has gone HaltExitSessions rows
\* without volume, whatever else the rows and the parameters are.
THEOREM NoPositionIsFrozen == Spec => []NoFrozenPosition
<1>1. Init => HaltInv
  BY DEF Init, HaltInv, Held
<1>2. TypeOK /\ OrderInv /\ HaltInv /\ [Next]_vars => HaltInv'
  <2> SUFFICES ASSUME TypeOK, OrderInv, HaltInv, [Next]_vars PROVE HaltInv'
    OBVIOUS
  <2>1. CASE OpenSession
    BY <2>1, OpenSessionHalts
  <2>2. CASE ExecuteOrder
    BY <2>2, ExecuteOrderHalts
  <2>3. CASE EndExecute
    BY <2>3 DEF EndExecute, HaltInv, Held, TradesToday, market, book
  <2>4. CASE MarkPosition
    BY <2>4, MarkPositionStep DEF MarkPosition, HaltInv, TradesToday, market
  <2>5. CASE EndMark
    BY <2>5 DEF EndMark, HaltInv, Held, TradesToday, market, book
  <2>6. CASE DecideSymbol
    BY <2>6, DecideHalts
  <2>7. CASE Finish
    BY <2>7 DEF Finish, HaltInv
  <2>8. CASE UNCHANGED vars
    BY <2>8 DEF vars, market, work, book, HaltInv, Held, TradesToday
  <2> QED BY <2>1, <2>2, <2>3, <2>4, <2>5, <2>6, <2>7, <2>8 DEF Next
<1>3. HaltInv => NoFrozenPosition
  BY DEF HaltInv, NoFrozenPosition, AfterDecide
<1> QED BY <1>1, <1>2, <1>3, TypeCorrect, OrderInvariant, PTL DEF Spec

-----------------------------------------------------------------------------
(* Cash *)

\* A quantity no greater than the affordable one is paid for, costs included.
LEMMA SizeWithinCash ==
  ASSUME TypeOK, NEW price \in Nat \ {0}, NEW n \in Nat \ {0},
         n <= Affordable(price)
  PROVE  price * n * RateUnit + CostOf(price, n) <= cash
<1> DEFINE rate == RateUnit + CostRate + SlippageRate
<1>1. /\ RateUnit \in Nat /\ CostRate \in Nat /\ SlippageRate \in Nat
      /\ rate \in Nat \ {0} /\ cash \in Int
  BY Frictions DEF TypeOK
<1> HIDE DEF rate
<1>2. price * rate \in Nat \ {0}
  BY <1>1, PositiveProduct
<1>3. (price * rate) * (cash \div (price * rate)) <= cash
  <2>1. \A d \in Nat \ {0} : d * (cash \div d) <= cash
    BY <1>1
  <2> QED BY <1>2, <2>1
<1>4. n <= cash \div (price * rate)
  BY DEF Affordable, rate
<1>5. (price * rate) * n <= (price * rate) * (cash \div (price * rate))
  <2>1. \A d \in Nat, a, b \in Int : a <= b => d * a <= d * b
    BY SMT
  <2>2. cash \div (price * rate) \in Int
    BY <1>1, <1>2, QuotientType
  <2> QED BY <1>2, <1>4, <2>1, <2>2
<1>6. price * n * RateUnit + price * n * CostRate <= (price * rate) * n
  <2>1. price * n * SlippageRate \in Nat
    BY <1>1
  <2>2. (price * rate) * n = price * n * RateUnit + price * n * CostRate
                               + price * n * SlippageRate
    BY <1>1 DEF rate
  <2>3. price * n * RateUnit \in Nat /\ price * n * CostRate \in Nat
    BY <1>1
  <2> QED BY <2>1, <2>2, <2>3
<1> QED BY <1>1, <1>2, <1>3, <1>5, <1>6 DEF CostOf

\* Whole lots and the participation cap only reduce the affordable quantity.
LEMMA EntryAffordable ==
  ASSUME TypeOK, NEW s \in Symbols, TradesToday(s), Executable(Today(s), "buy"),
         EntryQuantity(s) # 0
  PROVE  EntryQuantity(s) <= Affordable(EntryPrice(s))
<1> DEFINE price == EntryPrice(s)
           target == Target(price, equity)
           affordable == Affordable(price)
           size == SizeOrder(price, equity)
           cap == WholeLots((Today(s).volume * Participation) \div RateUnit)
<1>1. price \in Nat \ {0} /\ Today(s) \in Row
  BY EntryPriceType, TodayType
<1>2. target \in Int /\ affordable \in Int
  BY <1>1, SizingType
<1>3. cap \in Int
  BY <1>1, CapType
<1>4. size \in Nat /\ (size = 0 \/ size <= affordable)
  <2> DEFINE small == Smaller(target, affordable)
  <2>1. small \in Int /\ small <= affordable
    BY <1>2 DEF Smaller
  <2>2. WholeLots(small) \in Int /\ WholeLots(small) <= small
    <3> HIDE DEF small
    <3> QED BY <2>1, WholeLotsType
  <2>3. size = IF WholeLots(small) > 0 THEN WholeLots(small) ELSE 0
    BY DEF SizeOrder
  <2> HIDE DEF small, size, affordable
  <2> QED BY <1>2, <2>1, <2>2, <2>3
<1>5. EntryQuantity(s) = LiquidityCap(Today(s), size)
  BY DEF EntryQuantity
<1>6. LiquidityCap(Today(s), size) = 0 \/ LiquidityCap(Today(s), size) <= size
  <2>1. LiquidityCap(Today(s), size) =
          CASE Participation = 0 \/ size <= cap -> size
            [] Participation # 0 /\ size > cap /\ RejectPartialFills -> 0
            [] OTHER -> IF cap > 0 THEN cap ELSE 0
    BY DEF LiquidityCap
  <2> HIDE DEF size, cap
  <2> QED BY <1>3, <1>4, <2>1
<1>7. EntryQuantity(s) \in Nat
  BY EntryQuantityType
<1> HIDE DEF size, affordable
<1>8. EntryQuantity(s) <= affordable
  BY <1>2, <1>4, <1>5, <1>6, <1>7
<1> QED BY <1>8 DEF affordable

\* Exact sizing never spends more than the cash at hand, whatever the prices, the
\* rates, the sizing mode and the caps.
THEOREM CashIsNonNegative == Spec => []CashNonNegative
<1>1. Init => CashNonNegative
  BY Frictions DEF Init, CashNonNegative
<1>2. TypeOK /\ OrderInv /\ CashNonNegative /\ [Next]_vars => CashNonNegative'
  <2> SUFFICES ASSUME TypeOK, OrderInv, CashNonNegative, [Next]_vars
               PROVE  CashNonNegative'
    OBVIOUS
  <2>1. CASE cash' = cash
    BY <2>1 DEF CashNonNegative
  <2>2. ASSUME NEW o \in queue, FillEntry(o)
        PROVE  CashNonNegative'
    <3> DEFINE s == o.symbol
               price == EntryPrice(s)
               q == EntryQuantity(s)
    <3>1. s \in Symbols
      BY DEF TypeOK, Order
    <3>2. TradesToday(s) /\ Executable(Today(s), "buy") /\ q # 0
      BY <2>2 DEF FillEntry, Blocker, NoShares
    <3>3. price \in Nat \ {0} /\ q \in Nat \ {0} /\ q <= Affordable(price)
      BY <3>1, <3>2, EntryPriceType, EntryQuantityType, EntryAffordable
    <3>4. cash' = cash - (price * q * RateUnit + CostOf(price, q))
      BY <2>2 DEF FillEntry
    <3> HIDE DEF price, q
    <3>5. price * q * RateUnit \in Nat /\ CostOf(price, q) \in Nat /\ cash \in Int
      BY <3>3, CostType DEF TypeOK
    <3>6. price * q * RateUnit + CostOf(price, q) <= cash
      BY <3>3, SizeWithinCash
    <3> QED BY <3>4, <3>5, <3>6 DEF CashNonNegative
  <2>3. ASSUME NEW s \in Held, NEW price \in Nat, NEW rowDay, NEW reason,
               ClosePosition(s, price, rowDay, reason)
        PROVE  CashNonNegative'
    <3>1. positions[s].quantity \in Nat
      BY HeldType DEF Position
    <3>2. Proceeds(price, positions[s].quantity) \in Nat
      BY <3>1, ProceedsType
    <3>3. cash' = cash + Proceeds(price, positions[s].quantity)
      BY <2>3 DEF ClosePosition
    <3> QED BY <3>2, <3>3 DEF CashNonNegative, TypeOK
  <2>4. CASE OpenSession \/ EndExecute \/ MarkPosition \/ EndMark \/ Finish
             \/ UNCHANGED vars
    BY <2>1, <2>4 DEF OpenSession, EndExecute, MarkPosition, EndMark, Finish, vars, book
  <2>5. CASE ExecuteOrder
    <3>1. PICK o \in queue : KeepOrder(o) \/ CancelOrder(o) \/ FillEntry(o) \/ FillExit(o)
      BY <2>5 DEF ExecuteOrder
    <3>2. CASE KeepOrder(o) \/ CancelOrder(o)
      BY <2>1, <3>2 DEF KeepOrder, CancelOrder
    <3>3. CASE FillExit(o)
      <4>1. o \in Order
        BY DEF TypeOK, Order
      <4>2. PICK price \in Nat : ClosePosition(o.symbol, price, session, "order")
        BY <3>3, <4>1, ExitPriceType
      <4>3. o.symbol \in Held
        BY <3>3 DEF FillExit, Blocker
      <4> QED BY <2>3, <4>2, <4>3
    <3> QED BY <2>2, <3>1, <3>2, <3>3
  <2>6. CASE DecideSymbol
    <3>1. PICK s \in toDecide :
            \/ SignalOf(s) = "halt_exit" /\ HaltExit(s)
            \/ Schedule(s, "buy") \/ Schedule(s, "sell")
            \/ UNCHANGED book
      BY <2>6 DEF DecideSymbol
    <3>2. CASE SignalOf(s) = "halt_exit" /\ HaltExit(s)
      <4>1. s \in Symbols
        BY DEF TypeOK
      <4>2. s \in Held
        BY <3>2, <4>1, HaltExitLong
      <4>3. HaltPrice(s) \in Nat
        BY <4>2, HaltPriceType
      <4> QED BY <2>3, <3>2, <4>2, <4>3 DEF HaltExit
    <3>3. CASE Schedule(s, "buy") \/ Schedule(s, "sell") \/ UNCHANGED book
      BY <2>1, <3>3 DEF Schedule, book
    <3> QED BY <3>1, <3>2, <3>3
  <2> QED BY <2>4, <2>5, <2>6 DEF Next
<1> QED BY <1>1, <1>2, TypeCorrect, OrderInvariant, PTL DEF Spec
-----------------------------------------------------------------------------
(* What a run records: when and at which row a position is closed, and how *)
(* every order it scheduled ended.  First the rows.                        *)

\* A symbol's rows are in the order of their days, those before the period first,
\* and none is of a later session.
RowsInv ==
  \A s \in Symbols : \A i \in DOMAIN rows[s] :
    /\ rows[s][i].day <= session
    /\ \A j \in DOMAIN rows[s] :
         i < j => \/ rows[s][i].day < rows[s][j].day
                  \/ rows[s][i].day = 0 /\ rows[s][j].day = 0

\* The day of a row is a number.
LEMMA DayType ==
  ASSUME NEW w \in Seq(Row), NEW i \in DOMAIN w
  PROVE  w[i].day \in Nat /\ w[i] \in Row
<1>1. w[i] \in Row
  OBVIOUS
<1> QED
  BY <1>1 DEF Row

\* Appending keeps the rows there are and adds one.
LEMMA AppendedRow ==
  ASSUME NEW w \in Seq(Row), NEW row \in Row, NEW i \in DOMAIN Append(w, row)
  PROVE  \/ i \in DOMAIN w /\ Append(w, row)[i] = w[i]
         \/ i = Len(w) + 1 /\ Append(w, row)[i] = row
OBVIOUS

\* A step keeps every row, and a row it adds is of the session it opens.
LEMMA RowsStep ==
  ASSUME TypeOK, [Next]_vars, NEW s \in Symbols
  PROVE  /\ \A i \in DOMAIN rows[s] : i \in DOMAIN rows'[s] /\ rows'[s][i] = rows[s][i]
         /\ \A i \in DOMAIN rows'[s] :
              \/ i \in DOMAIN rows[s] /\ rows'[s][i] = rows[s][i]
              \/ /\ OpenSession /\ i = Len(rows[s]) + 1
                 /\ rows'[s][i].day = session + 1
<1>1. CASE OpenSession
  <2>1. PICK days \in [Symbols -> UNION {MarketDays[session + 1][x] : x \in Symbols}] :
        rows' = [x \in Symbols |->
          IF days[x].traded
          THEN Append(rows[x],
                 [day |-> session + 1, open |-> days[x].open,
                  close |-> days[x].close, volume |-> days[x].volume,
                  valid |-> days[x].valid, status |-> days[x].status])
          ELSE rows[x]]
    BY <1>1 DEF OpenSession
  <2> DEFINE row == [day |-> session + 1, open |-> days[s].open,
                     close |-> days[s].close, volume |-> days[s].volume,
                     valid |-> days[s].valid, status |-> days[s].status]
  <2>2. rows[s] \in Seq(Row)
    BY DEF TypeOK
  <2>3. CASE days[s].traded
    <3>1. rows'[s] = Append(rows[s], row) /\ row.day = session + 1
      BY <2>1, <2>3
    <3> HIDE DEF row
    <3>2. DOMAIN rows'[s] = 1..(Len(rows[s]) + 1) /\ DOMAIN rows[s] = 1..Len(rows[s])
          /\ Len(rows[s]) \in Nat
      BY <2>2, <3>1
    <3>3. \A i \in 1..Len(rows[s]) : rows'[s][i] = rows[s][i]
      BY <2>2, <3>1
    <3>4. rows'[s][Len(rows[s]) + 1] = row
      BY <2>2, <3>1
    <3> QED
      BY <1>1, <3>1, <3>2, <3>3, <3>4
  <2>4. CASE ~days[s].traded
    BY <2>1, <2>4
  <2> QED
    BY <2>3, <2>4
<1>2. CASE ~OpenSession
  <2>1. rows' = rows
    BY <1>2 DEF Next, ExecuteOrder, EndExecute, MarkPosition, EndMark, DecideSymbol, Finish,
                vars, market
  <2> QED
    BY <2>1
<1> QED
  BY <1>1, <1>2

\* The sessions are counted, and only a new one changes their number.
LEMMA SessionStep ==
  ASSUME TypeOK, [Next]_vars
  PROVE  /\ session \in Nat
         /\ session' = IF OpenSession THEN session + 1 ELSE session
<1>1. session \in Nat
  BY Portfolio DEF TypeOK
<1>2. CASE OpenSession
  BY <1>1, <1>2 DEF OpenSession
<1>3. CASE ~OpenSession
  BY <1>1, <1>3 DEF Next, ExecuteOrder, EndExecute, MarkPosition, EndMark, DecideSymbol,
                    Finish, vars, market
<1> QED
  BY <1>2, <1>3, <1>1

LEMMA RowsKept ==
  ASSUME TypeOK, RowsInv, [Next]_vars PROVE RowsInv'
<1> SUFFICES ASSUME NEW s \in Symbols, NEW i \in DOMAIN rows'[s]
             PROVE  /\ rows'[s][i].day <= session'
                    /\ \A j \in DOMAIN rows'[s] :
                         i < j => \/ rows'[s][i].day < rows'[s][j].day
                                  \/ rows'[s][i].day = 0 /\ rows'[s][j].day = 0
  BY DEF RowsInv
<1>0. rows[s] \in Seq(Row) /\ DOMAIN rows[s] = 1..Len(rows[s]) /\ Len(rows[s]) \in Nat
  BY DEF TypeOK
<1>1. \A k \in DOMAIN rows[s] : rows[s][k].day \in Nat
  BY <1>0, DayType
<1>2. rows'[s][i].day <= session'
  BY <1>1, RowsStep, SessionStep DEF RowsInv
<1>3. ASSUME NEW j \in DOMAIN rows'[s], i < j
      PROVE  \/ rows'[s][i].day < rows'[s][j].day
             \/ rows'[s][i].day = 0 /\ rows'[s][j].day = 0
  <2>1. CASE j \in DOMAIN rows[s] /\ rows'[s][j] = rows[s][j]
    <3>1. i \in DOMAIN rows[s] /\ rows'[s][i] = rows[s][i]
      BY <1>0, <1>3, <2>1, RowsStep
    <3> QED
      BY <1>3, <2>1, <3>1 DEF RowsInv
  <2>2. CASE j = Len(rows[s]) + 1 /\ rows'[s][j].day = session + 1
    <3>1. i \in DOMAIN rows[s] /\ rows'[s][i] = rows[s][i]
      BY <1>0, <1>3, <2>2, RowsStep
    <3> QED
      BY <1>1, <2>2, <3>1, SessionStep DEF RowsInv
  <2> QED
    BY <2>1, <2>2, RowsStep
<1> QED
  BY <1>2, <1>3

\* Today's row is the only one of the session.
LEMMA OnlyToday ==
  ASSUME TypeOK, RowsInv, NEW s \in Symbols, NEW i \in DOMAIN rows[s],
         rows[s][i].day = session, session > 0
  PROVE  TradesToday(s) /\ rows[s][i] = Today(s)
<1>1. rows[s] \in Seq(Row) /\ DOMAIN rows[s] = 1..Len(rows[s]) /\ Len(rows[s]) \in Nat
  BY DEF TypeOK
<1>2. i \in 1..Len(rows[s]) /\ Len(rows[s]) \in DOMAIN rows[s] /\ rows[s] # <<>>
  BY <1>1
<1>3. rows[s][Len(rows[s])].day \in Nat /\ rows[s][i].day \in Nat
  BY <1>1, <1>2, DayType
<1>4. i = Len(rows[s])
  <2> SUFFICES ASSUME i < Len(rows[s]) PROVE FALSE
    BY <1>1, <1>2
  <2> QED
    BY <1>2, <1>3, SessionStep, Portfolio DEF RowsInv, TypeOK
<1> QED
  BY <1>2, <1>4 DEF TradesToday, Today

LEMMA RowsInvariant == Spec => []RowsInv
<1>1. Init => RowsInv
  <2> SUFFICES ASSUME Init PROVE RowsInv
    OBVIOUS
  <2>1. session = 0 /\ \A s \in Symbols : rows[s] = History[s]
    BY DEF Init
  <2>2. \A s \in Symbols : \A i \in DOMAIN rows[s] : rows[s][i].day = 0
    BY <2>1, Portfolio DEF HistoriesSupplied
  <2> QED
    BY <2>1, <2>2 DEF RowsInv
<1> QED
  BY <1>1, RowsKept, TypeCorrect, PTL DEF Spec

-----------------------------------------------------------------------------
(* Exits at the first executable bar *)

\* Since it was decided, an exit order has met no bar it could have been filled
\* at: a queued one up to the session before, a pending one up to this session.
ExitInv ==
  /\ \A o \in queue : o.side = "sell" =>
       \A i \in DOMAIN rows[o.symbol] :
         rows[o.symbol][i].day > o.decided /\ rows[o.symbol][i].day < session =>
           ~Executable(rows[o.symbol][i], "sell")
  /\ \A o \in pending : o.side = "sell" =>
       \A i \in DOMAIN rows[o.symbol] :
         rows[o.symbol][i].day > o.decided => ~Executable(rows[o.symbol][i], "sell")
  /\ \A e \in events : e.day <= session

\* An exit the session could not fill met no executable bar in it.
LEMMA KeptExit ==
  ASSUME TypeOK, OrderInv, RowsInv, ExitInv, NEW o \in queue, KeepOrder(o),
         o.side = "sell", NEW i \in DOMAIN rows[o.symbol],
         rows[o.symbol][i].day > o.decided
  PROVE  ~Executable(rows[o.symbol][i], "sell")
<1>1. /\ o \in Order /\ o.symbol \in Symbols /\ o.earliest \in Nat /\ o.decided \in Nat
      /\ session \in Nat
  BY Portfolio DEF TypeOK, Order
<1>2. rows[o.symbol][i].day \in Nat
  BY <1>1, DayType DEF TypeOK
<1>3. CASE rows[o.symbol][i].day < session
  BY <1>3 DEF ExitInv
<1>4. CASE rows[o.symbol][i].day = session
  <2>0. session > 0
    BY <1>1, <1>4
  <2>1. TradesToday(o.symbol) /\ rows[o.symbol][i] = Today(o.symbol)
    BY <1>1, <1>4, <2>0, OnlyToday
  <2>2. o.earliest <= session
    BY DEF OrderInv
  <2> QED
    BY <1>1, <2>1, <2>2 DEF KeepOrder, Stays, Blocker
<1> QED
  BY <1>1, <1>2, <1>3, <1>4 DEF RowsInv

\* The orders of the next state, and where they were before.
LEMMA ExitOrders ==
  ASSUME TypeOK, OrderInv, [Next]_vars
  PROVE  /\ \A o \in queue' : \/ o \in queue /\ ~OpenSession
                              \/ o \in pending /\ OpenSession
         /\ \A o \in pending' : \/ o \in pending /\ ~OpenSession
                                \/ o \in queue /\ KeepOrder(o) /\ ~OpenSession
                                \/ o.decided = session /\ ~OpenSession
<1>1. CASE OpenSession
  BY <1>1 DEF OpenSession
<1>2. CASE EndExecute \/ MarkPosition \/ EndMark \/ Finish \/ UNCHANGED vars
  <2>1. queue' = queue /\ pending' = pending
    BY <1>2 DEF EndExecute, MarkPosition, EndMark, Finish, vars, work, book
  <2>2. ~OpenSession
    <3>1. session' = session /\ session \in Nat
      BY <1>2, Portfolio DEF EndExecute, MarkPosition, EndMark, Finish, vars, market, TypeOK
    <3> QED
      BY <3>1 DEF OpenSession
  <2> QED
    BY <2>1, <2>2
<1>3. CASE ExecuteOrder
  <2>1. PICK o \in queue : /\ queue' = queue \ {o}
                           /\ KeepOrder(o) \/ CancelOrder(o) \/ FillEntry(o) \/ FillExit(o)
    BY <1>3 DEF ExecuteOrder
  <2>2. ~OpenSession
    BY <1>3 DEF ExecuteOrder, OpenSession
  <2>3. \A p \in pending' : p \in pending \/ (p = o /\ KeepOrder(o))
    BY <2>1 DEF KeepOrder, CancelOrder, FillEntry, FillExit
  <2> QED
    BY <2>1, <2>2, <2>3
<1>4. CASE DecideSymbol
  <2>1. queue' = queue
    BY <1>4 DEF DecideSymbol
  <2>2. ~OpenSession
    <3>1. session' = session /\ session \in Nat
      BY <1>4, Portfolio DEF DecideSymbol, market, TypeOK
    <3> QED
      BY <3>1 DEF OpenSession
  <2>3. \A p \in pending' : p \in pending \/ p.decided = session
    BY <1>4, DecideOutcome
  <2> QED
    BY <2>1, <2>2, <2>3
<1> QED
  BY <1>1, <1>2, <1>3, <1>4 DEF Next

\* An event is new only by an order that is filled as ordered, or it is none of an
\* ordinary exit.
LEMMA ExitEvents ==
  ASSUME TypeOK, OrderInv, [Next]_vars, NEW e \in events', e \notin events,
         e.side = "sell", e.status = "executed", e.detail = "order"
  PROVE  /\ e.day = session /\ ~OpenSession
         /\ \E o \in queue : o.side = "sell" /\ o.symbol = e.symbol /\ o.decided = e.decided
<1>1. CASE OpenSession \/ EndExecute \/ MarkPosition \/ EndMark \/ UNCHANGED vars
  BY <1>1 DEF OpenSession, EndExecute, MarkPosition, EndMark, vars, book
<1>2. CASE ExecuteOrder
  <2>1. PICK o \in queue : KeepOrder(o) \/ CancelOrder(o) \/ FillEntry(o) \/ FillExit(o)
    BY <1>2 DEF ExecuteOrder
  <2>2. ~OpenSession
    BY <1>2 DEF ExecuteOrder, OpenSession
  <2>3. FillExit(o)
    BY <2>1 DEF KeepOrder, CancelOrder, FillEntry, OrderEvent
  <2>4. e = OrderEvent(o.symbol, "sell", "executed", "order", o.decided) /\ o.side = "sell"
    BY <2>3 DEF FillExit
  <2> QED
    BY <2>2, <2>4 DEF OrderEvent
<1>3. CASE DecideSymbol
  BY <1>3 DEF DecideSymbol, HaltExit, Schedule, SupersededEvents, OrderEvent, book
<1>4. CASE Finish
  BY <1>4 DEF Finish, OrderEvent
<1> QED
  BY <1>1, <1>2, <1>3, <1>4 DEF Next

LEMMA ExitKept ==
  ASSUME TypeOK, OrderInv, RowsInv, ExitInv, [Next]_vars PROVE ExitInv'
<1>0. session \in Nat /\ session' = IF OpenSession THEN session + 1 ELSE session
  BY SessionStep
<1>t. /\ \A o \in queue \cup pending : o.symbol \in Symbols /\ o.decided \in Nat
      /\ \A o \in queue' \cup pending' : o.symbol \in Symbols /\ o.decided \in Nat
  BY TypeCorrectStep DEF TypeOK, Order
<1>1. ASSUME NEW o \in queue', o.side = "sell", NEW i \in DOMAIN rows'[o.symbol],
             rows'[o.symbol][i].day > o.decided, rows'[o.symbol][i].day < session'
      PROVE  ~Executable(rows'[o.symbol][i], "sell")
  <2>1. i \in DOMAIN rows[o.symbol] /\ rows'[o.symbol][i] = rows[o.symbol][i]
    BY <1>0, <1>1, <1>t, RowsStep
  <2>2. CASE o \in queue /\ ~OpenSession
    BY <1>0, <1>1, <2>1, <2>2 DEF ExitInv
  <2>3. CASE o \in pending /\ OpenSession
    BY <1>1, <2>1, <2>3 DEF ExitInv
  <2> QED
    BY <2>2, <2>3, ExitOrders
<1>2. ASSUME NEW o \in pending', o.side = "sell", NEW i \in DOMAIN rows'[o.symbol],
             rows'[o.symbol][i].day > o.decided
      PROVE  ~Executable(rows'[o.symbol][i], "sell")
  <2>0. ~OpenSession
    BY ExitOrders
  <2>1. i \in DOMAIN rows[o.symbol] /\ rows'[o.symbol][i] = rows[o.symbol][i]
    BY <1>2, <1>t, <2>0, RowsStep
  <2>2. CASE o \in pending
    BY <1>2, <2>1, <2>2 DEF ExitInv
  <2>3. CASE o \in queue /\ KeepOrder(o)
    BY <1>2, <2>1, <2>3, KeptExit
  <2>4. CASE o.decided = session
    <3>1. rows[o.symbol] \in Seq(Row)
      BY <1>t DEF TypeOK
    <3>2. rows[o.symbol][i].day \in Nat /\ rows[o.symbol][i].day <= session
      BY <1>t, <2>1, <3>1, DayType DEF RowsInv
    <3> QED
      BY <1>0, <1>2, <2>1, <2>4, <3>2
  <2> QED
    BY <2>2, <2>3, <2>4, ExitOrders
<1>3. ASSUME NEW e \in events' PROVE e.day <= session'
  <2>1. CASE e \in events
    <3>1. e.day \in Nat /\ e.day <= session
      BY <2>1 DEF TypeOK, Event, ExitInv
    <3> QED
      BY <1>0, <3>1
  <2>2. CASE e \notin events
    <3>1. ~OpenSession
      BY <2>2 DEF OpenSession
    <3> QED
      BY <1>0, <2>2, <3>1, NewEvents
  <2> QED
    BY <2>1, <2>2
<1> QED
  BY <1>1, <1>2, <1>3 DEF ExitInv

LEMMA FirstBarKept ==
  ASSUME TypeOK, OrderInv, RowsInv, ExitInv, ExitAtFirstExecutableBar, [Next]_vars
  PROVE  ExitAtFirstExecutableBar'
<1> SUFFICES ASSUME NEW e \in events',
                    e.side = "sell", e.status = "executed", e.detail = "order",
                    NEW i \in DOMAIN rows'[e.symbol],
                    rows'[e.symbol][i].day > e.decided, rows'[e.symbol][i].day < e.day
             PROVE  ~Executable(rows'[e.symbol][i], "sell")
  BY DEF ExitAtFirstExecutableBar
<1>0. session \in Nat /\ session' = IF OpenSession THEN session + 1 ELSE session
  BY SessionStep
<1>1. e.symbol \in Symbols /\ e.day \in Nat
  BY TypeCorrectStep DEF TypeOK, Event
<1>2. e.day <= session
  <2>1. CASE e \in events
    BY <2>1 DEF ExitInv
  <2>2. CASE e \notin events
    BY <1>0, <2>2, ExitEvents
  <2> QED
    BY <2>1, <2>2
<1>3. i \in DOMAIN rows[e.symbol] /\ rows'[e.symbol][i] = rows[e.symbol][i]
  BY <1>0, <1>1, <1>2, RowsStep
<1>4. CASE e \in events
  BY <1>3, <1>4 DEF ExitAtFirstExecutableBar
<1>5. CASE e \notin events
  <2>1. PICK o \in queue : o.side = "sell" /\ o.symbol = e.symbol /\ o.decided = e.decided
    BY <1>5, ExitEvents
  <2>2. e.day = session
    BY <1>5, ExitEvents
  <2> QED
    BY <1>3, <2>1, <2>2 DEF ExitInv
<1> QED
  BY <1>4, <1>5

\* An exit is filled at the first executable bar after its decision, however many
\* suspended, blocked or zero-volume sessions lie between: phase 1 of run() keeps
\* an exit it cannot fill and tries it again in every session.
THEOREM ExitsAtFirstExecutableBar == Spec => []ExitAtFirstExecutableBar
<1>1. Init => ExitInv /\ ExitAtFirstExecutableBar
  BY DEF Init, ExitInv, ExitAtFirstExecutableBar
<1>2. TypeOK /\ OrderInv /\ RowsInv /\ (ExitInv /\ ExitAtFirstExecutableBar) /\ [Next]_vars
        => (ExitInv /\ ExitAtFirstExecutableBar)'
  BY ExitKept, FirstBarKept
<1> QED
  BY <1>1, <1>2, TypeCorrect, OrderInvariant, RowsInvariant, PTL DEF Spec

-----------------------------------------------------------------------------
(* Halt exits *)

\* The entry bar of every position is one of its rows and had volume.
EntryBarInv ==
  \A s \in Held : \E i \in DOMAIN rows[s] :
    rows[s][i].day = positions[s].entryDay /\ rows[s][i].volume > 0

\* A held position is one that was held before, entered on the same day, or it
\* was filled in this step.
LEMMA HeldBefore ==
  ASSUME TypeOK, [Next]_vars, NEW s \in Held'
  PROVE  \/ s \in Held /\ positions'[s].entryDay = positions[s].entryDay
         \/ \E o \in queue : ExecuteOrder /\ FillEntry(o) /\ s = o.symbol
<1>0. s \in Symbols /\ positions \in [Symbols -> Position \cup {NoPosition}]
  BY DEF Held, TypeOK
<1>1. CASE OpenSession \/ EndExecute \/ EndMark \/ Finish \/ UNCHANGED vars
  BY <1>1 DEF OpenSession, EndExecute, EndMark, Finish, vars, book, Held
<1>2. CASE MarkPosition
  <2>1. \E t \in toMark : \E m : positions' = [positions EXCEPT ![t].lastMark = m]
    BY <1>2 DEF MarkPosition
  <2>2. s \in Held
    BY <1>2, MarkPositionStep
  <2>3. positions[s] \in Position
    BY <2>2, HeldType
  <2> QED
    BY <1>0, <2>1, <2>2, <2>3 DEF Position
<1>3. CASE ExecuteOrder
  <2>1. PICK o \in queue : KeepOrder(o) \/ CancelOrder(o) \/ FillEntry(o) \/ FillExit(o)
    BY <1>3 DEF ExecuteOrder
  <2>2. CASE FillEntry(o)
    <3>1. positions' = [positions EXCEPT ![o.symbol] = positions'[o.symbol]]
      BY <2>2, <1>0 DEF FillEntry, TypeOK, Order
    <3>2. CASE s = o.symbol
      BY <1>3, <2>2, <3>2
    <3>3. CASE s # o.symbol
      BY <1>0, <3>1, <3>3 DEF Held
    <3> QED
      BY <3>2, <3>3
  <2>3. CASE FillExit(o)
    <3>1. positions' = [positions EXCEPT ![o.symbol] = NoPosition]
      BY <2>3 DEF FillExit, ClosePosition
    <3> QED
      BY <1>0, <3>1 DEF Held
  <2>4. CASE KeepOrder(o) \/ CancelOrder(o)
    BY <2>4 DEF KeepOrder, CancelOrder, Held
  <2> QED
    BY <2>1, <2>2, <2>3, <2>4
<1>4. CASE DecideSymbol
  <2>1. \/ positions' = positions
        \/ \E t \in toDecide : positions' = [positions EXCEPT ![t] = NoPosition]
    BY <1>4 DEF DecideSymbol, HaltExit, ClosePosition, Schedule, book
  <2> QED
    BY <1>0, <2>1 DEF Held
<1> QED
  BY <1>1, <1>2, <1>3, <1>4 DEF Next

LEMMA EntryBarKept ==
  ASSUME TypeOK, EntryBarInv, [Next]_vars PROVE EntryBarInv'
<1> SUFFICES ASSUME NEW s \in Held'
             PROVE  \E i \in DOMAIN rows'[s] :
                      rows'[s][i].day = positions'[s].entryDay /\ rows'[s][i].volume > 0
  BY DEF EntryBarInv
<1>0. s \in Symbols /\ rows[s] \in Seq(Row)
  BY DEF Held, TypeOK
<1>1. CASE s \in Held /\ positions'[s].entryDay = positions[s].entryDay
  BY <1>0, <1>1, RowsStep DEF EntryBarInv
<1>2. ASSUME NEW o \in queue, ExecuteOrder, FillEntry(o), s = o.symbol
      PROVE  \E i \in DOMAIN rows'[s] :
               rows'[s][i].day = positions'[s].entryDay /\ rows'[s][i].volume > 0
  <2>1. TradesToday(s) /\ Executable(Today(s), "buy")
    BY <1>2 DEF FillEntry, Blocker
  <2>2. rows' = rows
    BY <1>2 DEF ExecuteOrder, market
  <2>3. positions'[s].entryDay = session
    BY <1>0, <1>2 DEF FillEntry, TypeOK
  <2>4. Len(rows[s]) \in DOMAIN rows[s] /\ rows[s][Len(rows[s])].day = session
        /\ rows[s][Len(rows[s])].volume > 0
    BY <1>0, <2>1 DEF TradesToday, Executable, Today
  <2> QED
    BY <2>2, <2>3, <2>4
<1> QED
  BY <1>1, <1>2, HeldBefore

\* The last row with volume is no earlier than the entry bar.
LEMMA HaltRowInHolding ==
  ASSUME TypeOK, RowsInv, EntryBarInv, NEW s \in Held
  PROVE  /\ HaltRow(s) \in DOMAIN rows[s] /\ HaltRow(s) # 0
         /\ rows[s][HaltRow(s)].volume > 0
         /\ rows[s][HaltRow(s)].day \in positions[s].entryDay..session
<1>0. s \in Symbols /\ rows[s] \in Seq(Row)
  BY DEF Held, TypeOK
<1>1. DOMAIN rows[s] = 1..Len(rows[s]) /\ Len(rows[s]) \in Nat
  BY <1>0
<1>2. PICK i \in DOMAIN rows[s] :
        rows[s][i].day = positions[s].entryDay /\ rows[s][i].volume > 0
  BY DEF EntryBarInv
<1> DEFINE T == {k \in DOMAIN rows[s] : rows[s][k].volume > 0}
<1>3. HaltRow(s) = Max({0} \cup T)
  BY DEF HaltRow, LastPositiveVolume, NewestRow
<1>4. T \in SUBSET (1..Len(rows[s])) /\ i \in T
  BY <1>1, <1>2
<1>5. Max({0} \cup T) \in {0} \cup T /\ \A y \in T : Max({0} \cup T) >= y
  BY <1>1, <1>4, MaxOfRows
<1>6. HaltRow(s) \in T /\ HaltRow(s) >= i /\ HaltRow(s) # 0
  <2> HIDE DEF T
  <2>1. HaltRow(s) >= i /\ HaltRow(s) \in {0} \cup T
    BY <1>3, <1>4, <1>5
  <2>2. i \in 1..Len(rows[s])
    BY <1>1
  <2> QED
    BY <1>1, <2>1, <2>2
<1>7. HaltRow(s) \in DOMAIN rows[s] /\ rows[s][HaltRow(s)].volume > 0
  BY <1>6
<1>8. rows[s][i].day \in Nat /\ rows[s][HaltRow(s)].day \in Nat /\ session \in Nat
  BY <1>0, <1>2, <1>7, DayType, Portfolio DEF TypeOK
<1>9. rows[s][i].day <= rows[s][HaltRow(s)].day
  <2>1. CASE HaltRow(s) = i
    BY <1>8, <2>1
  <2>2. CASE HaltRow(s) > i
    BY <1>0, <1>7, <1>8, <2>2 DEF RowsInv
  <2> QED
    BY <1>1, <1>6, <1>7, <2>1, <2>2
<1>10. rows[s][HaltRow(s)].day <= session
  BY <1>0, <1>7 DEF RowsInv
<1> QED
  BY <1>2, <1>6, <1>7, <1>8, <1>9, <1>10

\* The fill of a halt exit and the trade it closes.
FilledInHolding(t) ==
  \E f \in fills :
    /\ f.symbol = t.symbol /\ f.side = "sell" /\ f.day = t.exitDay
    /\ f.rowDay \in t.entryDay..t.exitDay
    /\ \E i \in DOMAIN rows[t.symbol] :
         LET r == rows[t.symbol][i]
         IN  r.day = f.rowDay /\ r.volume > 0 /\ f.price = r.close * RateUnit

LEMMA NewHaltTrade ==
  ASSUME TypeOK, RowsInv, EntryBarInv, [Next]_vars,
         NEW t \in trades', t \notin trades, t.reason = "halt"
  PROVE  FilledInHolding(t)'
<1>1. CASE OpenSession \/ EndExecute \/ MarkPosition \/ EndMark \/ Finish \/ UNCHANGED vars
  BY <1>1 DEF OpenSession, EndExecute, MarkPosition, EndMark, Finish, vars, book
<1>2. CASE ExecuteOrder
  BY <1>2 DEF ExecuteOrder, KeepOrder, CancelOrder, FillEntry, FillExit, ClosePosition
<1>3. CASE DecideSymbol
  <2>1. PICK s \in toDecide : SignalOf(s) = "halt_exit" /\ HaltExit(s)
    BY <1>3 DEF DecideSymbol, Schedule, book
  <2>2. s \in Held
    BY <2>1, HaltExitLong DEF TypeOK
  <2>3. rows' = rows
    BY <1>3 DEF DecideSymbol, market
  <2>4. /\ HaltRow(s) \in DOMAIN rows[s] /\ HaltRow(s) # 0
        /\ rows[s][HaltRow(s)].volume > 0
        /\ rows[s][HaltRow(s)].day \in positions[s].entryDay..session
    BY <2>2, HaltRowInHolding
  <2>5. /\ HaltPrice(s) = rows[s][HaltRow(s)].close * RateUnit
        /\ HaltRowDay(s) = rows[s][HaltRow(s)].day
    BY <2>4 DEF HaltPrice, HaltRowDay
  <2> DEFINE f == [symbol |-> s, side |-> "sell", day |-> session,
                   rowDay |-> HaltRowDay(s), price |-> HaltPrice(s),
                   quantity |-> positions[s].quantity, reason |-> "halt"]
  <2>6. f \in fills'
    BY <2>1 DEF HaltExit, ClosePosition
  <2>7. t.symbol = s /\ t.entryDay = positions[s].entryDay /\ t.exitDay = session
    BY <2>1 DEF HaltExit, ClosePosition
  <2>8. /\ f.symbol = s /\ f.side = "sell" /\ f.day = session
        /\ f.rowDay = HaltRowDay(s) /\ f.price = HaltPrice(s)
    OBVIOUS
  <2> HIDE DEF f
  <2> QED
    BY <2>3, <2>4, <2>5, <2>6, <2>7, <2>8 DEF FilledInHolding
<1> QED
  BY <1>1, <1>2, <1>3 DEF Next

LEMMA FilledStays ==
  ASSUME TypeOK, [Next]_vars, NEW t \in trades, FilledInHolding(t)
  PROVE  FilledInHolding(t)'
<1>1. t.symbol \in Symbols
  BY DEF TypeOK, Trade
<1>2. fills \subseteq fills'
  BY ZenonT(30) DEF Next, OpenSession, ExecuteOrder, EndExecute, MarkPosition, EndMark, DecideSymbol,
         Finish, KeepOrder, CancelOrder, FillEntry, FillExit, HaltExit, ClosePosition,
         Schedule, vars, book
<1> QED
  BY <1>1, <1>2, RowsStep DEF FilledInHolding

\* A halt exit is priced at a row of the holding period that had volume: the
\* search of _last_positive_volume_fill never passes the entry bar, and its
\* fallback to the entry price is never used.
THEOREM HaltFillsWithinHolding == Spec => []HaltFillWithinHolding
<1>1. Init => EntryBarInv /\ HaltFillWithinHolding
  BY DEF Init, EntryBarInv, HaltFillWithinHolding, Held
<1>2. HaltFillWithinHolding <=> \A t \in trades : t.reason = "halt" => FilledInHolding(t)
  BY DEF HaltFillWithinHolding, FilledInHolding
<1>3. TypeOK /\ RowsInv /\ (EntryBarInv /\ HaltFillWithinHolding) /\ [Next]_vars
        => (EntryBarInv /\ HaltFillWithinHolding)'
  <2> SUFFICES ASSUME TypeOK, RowsInv, EntryBarInv, HaltFillWithinHolding, [Next]_vars
               PROVE  EntryBarInv' /\ HaltFillWithinHolding'
    OBVIOUS
  <2>1. ASSUME NEW t \in trades', t.reason = "halt" PROVE FilledInHolding(t)'
    BY <1>2, <2>1, NewHaltTrade, FilledStays
  <2>2. HaltFillWithinHolding'
    BY <2>1 DEF HaltFillWithinHolding, FilledInHolding
  <2> QED
    BY <2>2, EntryBarKept
<1> QED
  BY <1>1, <1>3, TypeCorrect, RowsInvariant, PTL DEF Spec

-----------------------------------------------------------------------------
(* The audit trail *)

Outstanding == pending \cup queue

\* Events and orders are matched by symbol, side and the session of the decision.
Same(a, b) == a.symbol = b.symbol /\ a.side = b.side /\ a.decided = b.decided

Ends(f) == f.status \in {"executed", "cancelled"}

\* Every scheduled order is outstanding and has not ended, or it has ended once.
Accounted(recorded, outstanding) ==
  \A e \in recorded : e.status = "scheduled" =>
    LET ended == {f \in recorded : Same(f, e) /\ Ends(f)}
    IN  IF \E o \in outstanding : Same(o, e) THEN ended = {}
        ELSE \E f \in ended : ended = {f}

\* AuditTrail is not inductive: that an order is scheduled once and ends once needs
\* that nothing of this session is recorded of a symbol still to be decided, and
\* that what is outstanding was scheduled.
AuditInv ==
  /\ \A e \in events : /\ e.decided <= session
                       /\ e.decided = session =>
                            phase \in {"decide", "done"} /\ e.symbol \notin toDecide
  /\ \A o \in Outstanding : \E e \in events : e.status = "scheduled" /\ Same(e, o)
  /\ \A e, f \in events :
       /\ e.status = "scheduled" /\ f.status = "scheduled"
       /\ e.symbol = f.symbol /\ e.decided = f.decided
       => e.side = f.side
  /\ phase # "done" => Accounted(events, Outstanding)

\* Orders that leave the book, each with its one final event, keep the account.
LEMMA Resolved ==
  ASSUME NEW recorded, NEW new, NEW before, NEW after, Accounted(recorded, before),
         after \subseteq before,
         \A n \in new : n.status # "scheduled",
         \A o \in before \ after : \A p \in after : ~Same(o, p),
         \A o \in before \ after : \E n \in new :
           /\ Same(n, o) /\ Ends(n)
           /\ \A m \in new : Same(m, o) /\ Ends(m) => m = n,
         \A n \in new : Ends(n) =>
           \/ \E o \in before \ after : Same(n, o)
           \/ \A e \in recorded : e.status = "scheduled" => ~Same(n, e)
  PROVE  Accounted(recorded \cup new, after)
<1> SUFFICES ASSUME NEW e \in recorded \cup new, e.status = "scheduled"
             PROVE  LET ended == {f \in recorded \cup new : Same(f, e) /\ Ends(f)}
                    IN  IF \E o \in after : Same(o, e) THEN ended = {}
                        ELSE \E f \in ended : ended = {f}
  BY DEF Accounted
<1> DEFINE was == {f \in recorded : Same(f, e) /\ Ends(f)}
           is == {f \in recorded \cup new : Same(f, e) /\ Ends(f)}
<1>0. e \in recorded
  OBVIOUS
<1>1. IF \E o \in before : Same(o, e) THEN was = {} ELSE \E f \in was : was = {f}
  BY <1>0 DEF Accounted
<1>2. CASE \E p \in after : Same(p, e)
  <2>1. PICK p \in after : Same(p, e)
    BY <1>2
  <2>2. ASSUME NEW n \in new, Same(n, e), Ends(n) PROVE FALSE
    BY <1>0, <2>1, <2>2 DEF Same
  <2>3. was = {}
    BY <1>1, <2>1
  <2>4. is = {}
    BY <2>2, <2>3
  <2> QED
    BY <1>2, <2>4
<1>3. CASE \E o \in before \ after : Same(o, e)
  <2>1. PICK o \in before \ after : Same(o, e)
    BY <1>3
  <2>2. was = {} /\ ~\E p \in after : Same(p, e)
    BY <1>1, <2>1 DEF Same
  <2>3. PICK n \in new : /\ Same(n, o) /\ Ends(n)
                         /\ \A m \in new : Same(m, o) /\ Ends(m) => m = n
    OBVIOUS
  <2>4. n \in is /\ \A f \in is : f = n
    BY <2>1, <2>2, <2>3 DEF Same
  <2> QED
    BY <2>2, <2>4
<1>4. CASE ~\E o \in before : Same(o, e)
  <2>1. ASSUME NEW n \in new, Same(n, e), Ends(n) PROVE FALSE
    BY <1>0, <1>4, <2>1 DEF Same
  <2>2. is = was
    BY <2>1
  <2> QED
    BY <1>1, <1>4, <2>2
<1> QED
  BY <1>2, <1>3, <1>4

\* A new order and the event that schedules it, of a symbol nothing of which was
\* decided in the session.
LEMMA Scheduled ==
  ASSUME NEW recorded, NEW before, NEW order, NEW e, Accounted(recorded, before),
         e.status = "scheduled", Same(e, order), ~Ends(e),
         \A f \in recorded : ~Same(f, e)
  PROVE  Accounted(recorded \cup {e}, before \cup {order})
<1> SUFFICES ASSUME NEW d \in recorded \cup {e}, d.status = "scheduled"
             PROVE  LET ended == {f \in recorded \cup {e} : Same(f, d) /\ Ends(f)}
                    IN  IF \E o \in before \cup {order} : Same(o, d) THEN ended = {}
                        ELSE \E f \in ended : ended = {f}
  BY DEF Accounted
<1>1. {f \in recorded \cup {e} : Same(f, d) /\ Ends(f)}
        = {f \in recorded : Same(f, d) /\ Ends(f)}
  OBVIOUS
<1>2. CASE d = e
  BY <1>1, <1>2 DEF Same
<1>3. CASE d \in recorded
  <2>1. ~Same(order, d)
    BY <1>3 DEF Same
  <2> QED
    BY <1>1, <1>3, <2>1 DEF Accounted
<1> QED
  BY <1>2, <1>3

\* What a step that schedules nothing leaves to be shown.
LEMMA AuditByRecord ==
  ASSUME TypeOK, AuditInv, NEW new, events' = events \cup new,
         Outstanding' \subseteq Outstanding, \A n \in new : n.status # "scheduled",
         \A e \in events' :
           /\ e.decided <= session'
           /\ e.decided = session' => phase' \in {"decide", "done"} /\ e.symbol \notin toDecide',
         phase' # "done" => Accounted(events', Outstanding')
  PROVE  AuditInv'
<1>1. \A o \in Outstanding' : \E e \in events' : e.status = "scheduled" /\ Same(e, o)
  BY DEF AuditInv
<1>2. \A e, f \in events' :
        /\ e.status = "scheduled" /\ f.status = "scheduled"
        /\ e.symbol = f.symbol /\ e.decided = f.decided
        => e.side = f.side
  BY DEF AuditInv
<1> QED
  BY <1>1, <1>2 DEF AuditInv, Accounted, Same, Ends

\* The sessions that pass and the positions that are marked change no order.
LEMMA AuditIdle ==
  ASSUME TypeOK, OrderInv, AuditInv,
         OpenSession \/ EndExecute \/ MarkPosition \/ EndMark \/ UNCHANGED vars
  PROVE  AuditInv'
<1>1. events' = events /\ Outstanding' = Outstanding
  <2>1. CASE OpenSession
    BY <2>1 DEF OpenSession, OrderInv, Outstanding
  <2>2. CASE EndExecute \/ MarkPosition \/ EndMark \/ UNCHANGED vars
    BY <2>2 DEF EndExecute, MarkPosition, EndMark, vars, book, work, Outstanding
  <2> QED
    BY <2>1, <2>2
<1>2. session \in Nat /\ \A e \in events : e.decided \in Nat
  BY Portfolio DEF TypeOK, Event
<1>3. \A e \in events' :
        /\ e.decided <= session'
        /\ e.decided = session' => phase' \in {"decide", "done"} /\ e.symbol \notin toDecide'
  <2>1. CASE OpenSession
    <3>1. session' = session + 1
      BY <2>1 DEF OpenSession
    <3>2. \A e \in events : e.decided <= session
      BY DEF AuditInv
    <3>3. \A e \in events : e.decided <= session' /\ e.decided # session'
      BY <1>2, <3>1, <3>2
    <3> QED
      BY <1>1, <3>3
  <2>2. CASE EndExecute \/ MarkPosition \/ EndMark
    <3>1. phase \notin {"decide", "done"} /\ session' = session
      BY <2>2 DEF EndExecute, MarkPosition, EndMark, market
    <3>2. \A e \in events : e.decided <= session /\ e.decided # session
      BY <3>1 DEF AuditInv
    <3> QED
      BY <1>1, <3>1, <3>2
  <2>3. CASE UNCHANGED vars
    BY <2>3 DEF vars, market, work, book, AuditInv
  <2> QED
    BY <2>1, <2>2, <2>3
<1>4. phase' # "done" => Accounted(events', Outstanding')
  <2>1. phase' # "done" => phase # "done"
    BY DEF OpenSession, EndExecute, MarkPosition, EndMark, vars, work
  <2> QED
    BY <1>1, <2>1 DEF AuditInv
<1> DEFINE new == {}
<1>5. /\ events' = events \cup new /\ Outstanding' \subseteq Outstanding
      /\ \A n \in new : n.status # "scheduled"
  BY <1>1
<1> HIDE DEF new
<1> QED
  BY <1>3, <1>4, <1>5, AuditByRecord

\* What processing an order records of it.
OrderRecorded(o, new, recorded, outstanding) ==
  /\ recorded = events \cup new
  /\ \/ /\ outstanding = Outstanding
        /\ \A n \in new : n.status = "pending_exit" /\ Same(n, o)
     \/ /\ outstanding = Outstanding \ {o}
        /\ \E n : new = {n} /\ Same(n, o) /\ Ends(n)

LEMMA ExecuteRecord ==
  ASSUME TypeOK, OrderInv, ExecuteOrder
  PROVE  \E o \in queue : \E new : OrderRecorded(o, new, events', Outstanding')
<1>1. PICK o \in queue : /\ queue' = queue \ {o}
                         /\ KeepOrder(o) \/ CancelOrder(o) \/ FillEntry(o) \/ FillExit(o)
  BY DEF ExecuteOrder
<1>2. CASE KeepOrder(o)
  <2>1. Outstanding' = Outstanding
    BY <1>1, <1>2 DEF KeepOrder, Outstanding
  <2>2. CASE Blocker(o) = "not_due"
    <3>1. events' = events \cup {}
      BY <1>2, <2>2 DEF KeepOrder
    <3>2. OrderRecorded(o, {}, events', Outstanding')
      BY <2>1, <3>1 DEF OrderRecorded
    <3> QED
      BY <3>2
  <2>3. CASE Blocker(o) # "not_due"
    <3> DEFINE n == OrderEvent(o.symbol, o.side, "pending_exit", Blocker(o), o.decided)
    <3>1. events' = events \cup {n}
      BY <1>2, <2>3 DEF KeepOrder
    <3>2. n.status = "pending_exit" /\ Same(n, o)
      BY DEF OrderEvent, Same
    <3> HIDE DEF n
    <3>3. \A m \in {n} : m.status = "pending_exit" /\ Same(m, o)
      BY <3>2
    <3>4. OrderRecorded(o, {n}, events', Outstanding')
      BY <2>1, <3>1, <3>3 DEF OrderRecorded
    <3> QED
      BY <3>4
  <2> QED
    BY <2>2, <2>3
<1>3. CASE CancelOrder(o) \/ FillEntry(o) \/ FillExit(o)
  <2>1. pending' = pending
    BY <1>3 DEF CancelOrder, FillEntry, FillExit
  <2>2. Outstanding' = Outstanding \ {o}
    BY <1>1, <2>1 DEF Outstanding, OrderInv
  <2>3. PICK status \in {"executed", "cancelled"}, detail \in Detail :
          events' = events \cup {OrderEvent(o.symbol, o.side, status, detail, o.decided)}
    <3>1. CASE CancelOrder(o)
      <4>1. Blocker(o) \in Detail
        BY DEF Blocker, Detail, Reason
      <4> QED
        BY <3>1, <4>1 DEF CancelOrder
    <3>2. CASE FillEntry(o) \/ FillExit(o)
      BY <3>2 DEF FillEntry, FillExit, Detail
    <3> QED
      BY <1>3, <3>1, <3>2
  <2> DEFINE n == OrderEvent(o.symbol, o.side, status, detail, o.decided)
  <2>4. events' = events \cup {n} /\ Same(n, o) /\ Ends(n)
    BY <2>3 DEF OrderEvent, Same, Ends
  <2> HIDE DEF n
  <2>5. OrderRecorded(o, {n}, events', Outstanding')
    BY <2>2, <2>4 DEF OrderRecorded
  <2> QED
    BY <2>5
<1> QED
  BY <1>1, <1>2, <1>3

\* An outstanding order was decided before the session, or of a symbol this
\* session has decided.
LEMMA DecidedBefore ==
  ASSUME TypeOK, AuditInv, NEW o \in Outstanding,
         phase \notin {"decide", "done"} \/ o.symbol \in toDecide
  PROVE  o.decided <= session /\ o.decided # session
BY DEF AuditInv, Same

LEMMA AuditExecute ==
  ASSUME TypeOK, OrderInv, AuditInv, ExecuteOrder
  PROVE  AuditInv'
<1>0. PICK o \in queue : \E new : OrderRecorded(o, new, events', Outstanding')
  BY ExecuteRecord
<1>1. PICK new :
        /\ events' = events \cup new
        /\ \/ /\ Outstanding' = Outstanding
              /\ \A n \in new : n.status = "pending_exit" /\ Same(n, o)
           \/ /\ Outstanding' = Outstanding \ {o}
              /\ \E n : new = {n} /\ Same(n, o) /\ Ends(n)
  BY <1>0 DEF OrderRecorded
<1>2. phase = "execute" /\ phase' = phase /\ session' = session /\ toDecide' = toDecide
  BY DEF ExecuteOrder, market
<1>3. o \in Outstanding
  BY DEF Outstanding
<1>4. o.decided <= session /\ o.decided # session
  BY <1>2, <1>3, DecidedBefore
<1>5. \A n \in new : Same(n, o) /\ n.status # "scheduled"
  BY <1>1 DEF Ends
<1>6. \A e \in events' : e.decided <= session /\ e.decided # session
  <2>1. \A e \in events : e.decided <= session /\ e.decided # session
    BY <1>2 DEF AuditInv
  <2> QED
    BY <1>1, <1>4, <1>5, <2>1 DEF Same
<1>7. Accounted(events, Outstanding)
  BY <1>2 DEF AuditInv
<1>8. Accounted(events', Outstanding')
  <2>1. CASE Outstanding' = Outstanding /\ \A n \in new : n.status = "pending_exit"
    <3>1. \A n \in new : ~Ends(n)
      BY <2>1 DEF Ends
    <3> QED
      BY <1>1, <1>5, <1>7, <2>1, <3>1, Resolved
  <2>2. ASSUME NEW n, Outstanding' = Outstanding \ {o}, new = {n}, Same(n, o), Ends(n)
        PROVE  Accounted(events', Outstanding')
    <3>1. Outstanding \ Outstanding' = {o}
      BY <1>3, <2>2
    <3>2. \A p \in Outstanding' : ~Same(o, p)
      BY <1>3, <2>2 DEF OrderInv, OrderBook, Outstanding, Same
    <3>3. Outstanding' \subseteq Outstanding
      BY <2>2
    <3>4. \A p \in Outstanding \ Outstanding' : \E m \in new :
            /\ Same(m, p) /\ Ends(m)
            /\ \A k \in new : Same(k, p) /\ Ends(k) => k = m
      BY <2>2, <3>1
    <3>5. \A m \in new : \E p \in Outstanding \ Outstanding' : Same(m, p)
      BY <2>2, <3>1
    <3>6. \A p \in Outstanding \ Outstanding' : \A q \in Outstanding' : ~Same(p, q)
      BY <3>1, <3>2
    <3>7. Accounted(events \cup new, Outstanding')
      BY <1>5, <1>7, <3>3, <3>4, <3>5, <3>6, Resolved
    <3> QED
      BY <1>1, <3>7
  <2> QED
    BY <1>1, <2>1, <2>2
<1> QED
  BY <1>1, <1>2, <1>5, <1>6, <1>8, AuditByRecord

\* A symbol with an order to schedule has none of this session recorded.
LEMMA AuditSchedule ==
  ASSUME TypeOK, OrderInv, AuditInv, phase = "decide",
         NEW s \in toDecide, toDecide' = toDecide \ {s}, phase' = phase, session' = session,
         queue' = queue, NEW side \in Side, Schedule(s, side)
  PROVE  AuditInv'
<1> DEFINE order == [symbol |-> s, side |-> side, decided |-> session,
                     earliest |-> EarliestSession]
           e == OrderEvent(s, side, "scheduled", "order", session)
<1>1. pending' = pending \cup {order} /\ events' = events \cup {e}
  BY DEF Schedule
<1>2. /\ e.status = "scheduled" /\ Same(e, order) /\ ~Ends(e)
      /\ e.symbol = s /\ e.decided = session /\ e.side = side
  BY DEF OrderEvent, Same, Ends
<1> HIDE DEF order, e
<1>3. Outstanding' = Outstanding \cup {order}
  BY <1>1 DEF Outstanding
<1>4. \A f \in events : ~(f.symbol = s /\ f.decided = session)
  BY DEF AuditInv
<1>5. \A f \in events : ~Same(f, e)
  BY <1>2, <1>4 DEF Same
<1>6. session \in Nat
  BY Portfolio DEF TypeOK
<1>7. \A f \in events' :
        /\ f.decided <= session'
        /\ f.decided = session' => phase' \in {"decide", "done"} /\ f.symbol \notin toDecide'
  BY <1>1, <1>2, <1>6 DEF AuditInv
<1>8. \A o \in Outstanding' : \E f \in events' : f.status = "scheduled" /\ Same(f, o)
  BY <1>1, <1>2, <1>3 DEF AuditInv
<1>9. \A f, g \in events' :
        /\ f.status = "scheduled" /\ g.status = "scheduled"
        /\ f.symbol = g.symbol /\ f.decided = g.decided
        => f.side = g.side
  BY <1>1, <1>2, <1>4 DEF AuditInv
<1>10. Accounted(events \cup {e}, Outstanding \cup {order})
  <2>1. Accounted(events, Outstanding)
    BY DEF AuditInv
  <2> QED
    BY <2>1, <1>2, <1>5, Scheduled
<1>11. Accounted(events', Outstanding')
  BY <1>1, <1>3, <1>10
<1> QED
  BY <1>7, <1>8, <1>9, <1>11 DEF AuditInv, Accounted, Same, Ends

\* A halt exit ends whatever its symbol had outstanding, and its own fill is of no
\* scheduled order.
LEMMA AuditHalt ==
  ASSUME TypeOK, OrderInv, AuditInv, phase = "decide",
         NEW s \in toDecide, toDecide' = toDecide \ {s}, phase' = phase, session' = session,
         queue' = queue, HaltExit(s)
  PROVE  AuditInv'
<1> DEFINE halt == OrderEvent(s, "sell", "executed", "halt", session)
           new == SupersededEvents(s) \cup {halt}
<1>1. pending' = pending \ Superseded(s) /\ events' = events \cup new
  BY DEF HaltExit
<1>2. halt.status = "executed" /\ halt.symbol = s /\ halt.decided = session
  BY DEF OrderEvent
<1> HIDE DEF halt
<1>3. queue = {} /\ Outstanding' = Outstanding \ Superseded(s)
  BY <1>1 DEF OrderInv, Outstanding
<1>4. Outstanding \ Outstanding' = Superseded(s)
  BY <1>3 DEF Superseded, Outstanding
<1>5. \A o \in Superseded(s) : o \in Outstanding /\ o.symbol = s /\ o.decided <= session
                               /\ o.decided # session
  <2> SUFFICES ASSUME NEW o \in Superseded(s)
               PROVE  o \in Outstanding /\ o.symbol = s /\ o.decided <= session
                      /\ o.decided # session
    OBVIOUS
  <2>1. o \in Outstanding /\ o.symbol = s
    BY DEF Superseded, Outstanding
  <2> QED
    BY <2>1, DecidedBefore
<1>6. \A n \in SupersededEvents(s) : \E o \in Superseded(s) :
        n = OrderEvent(s, o.side, "cancelled", "superseded", o.decided)
  BY DEF SupersededEvents
<1>7. \A o \in Superseded(s) : OrderEvent(s, o.side, "cancelled", "superseded", o.decided) \in new
  BY DEF SupersededEvents
<1>8. \A o \in Superseded(s) :
        LET n == OrderEvent(s, o.side, "cancelled", "superseded", o.decided)
        IN  n.status = "cancelled" /\ n.symbol = s /\ n.side = o.side /\ n.decided = o.decided
  BY DEF OrderEvent
<1>9. \A n \in new : n.status \in {"executed", "cancelled"} /\ n.status # "scheduled"
                     /\ n.symbol = s /\ n.decided <= session
  BY <1>2, <1>5, <1>6, <1>8, Portfolio DEF TypeOK
<1>10. \A o \in Superseded(s) : \A p \in Outstanding' : ~Same(o, p)
  BY <1>3, <1>5 DEF OrderInv, OrderBook, Outstanding, Same
<1>11. \A o \in Superseded(s) : \E n \in new :
         /\ Same(n, o) /\ Ends(n)
         /\ \A m \in new : Same(m, o) /\ Ends(m) => m = n
  <2> SUFFICES ASSUME NEW o \in Superseded(s)
               PROVE  \E n \in new : /\ Same(n, o) /\ Ends(n)
                                     /\ \A m \in new : Same(m, o) /\ Ends(m) => m = n
    OBVIOUS
  <2> DEFINE n == OrderEvent(s, o.side, "cancelled", "superseded", o.decided)
  <2>1. n \in new /\ Same(n, o) /\ Ends(n)
    BY <1>5, <1>7, <1>8 DEF Same, Ends
  <2>2. ASSUME NEW m \in new, Same(m, o) PROVE m = n
    <3>1. m # halt
      BY <1>2, <1>5, <2>2 DEF Same
    <3>2. PICK p \in Superseded(s) : m = OrderEvent(s, p.side, "cancelled", "superseded", p.decided)
      BY <1>6, <3>1
    <3>3. p.side = o.side /\ p.decided = o.decided
      BY <1>8, <2>2, <3>2 DEF Same
    <3> QED
      BY <3>2, <3>3
  <2> HIDE DEF n
  <2> QED
    BY <2>1, <2>2
<1>12. \A n \in new : Ends(n) =>
         \/ \E o \in Superseded(s) : Same(n, o)
         \/ \A e \in events : e.status = "scheduled" => ~Same(n, e)
  <2>1. \A e \in events : ~Same(halt, e)
    BY <1>2 DEF AuditInv, Same
  <2>2. \A n \in SupersededEvents(s) : \E o \in Superseded(s) : Same(n, o)
    BY <1>5, <1>6, <1>8 DEF Same
  <2> QED
    BY <2>1, <2>2
<1> HIDE DEF new
<1>13. Accounted(events, Outstanding) /\ Outstanding' \subseteq Outstanding
  BY <1>3 DEF AuditInv
<1>14. Accounted(events', Outstanding')
  <2>1. Accounted(events \cup new, Outstanding')
    BY <1>4, <1>9, <1>10, <1>11, <1>12, <1>13, Resolved
  <2> QED
    BY <1>1, <2>1
<1>15. \A e \in events' :
         /\ e.decided <= session'
         /\ e.decided = session' => phase' \in {"decide", "done"} /\ e.symbol \notin toDecide'
  BY <1>1, <1>9 DEF AuditInv
<1> QED
  BY <1>1, <1>9, <1>13, <1>14, <1>15, AuditByRecord

LEMMA AuditDecide ==
  ASSUME TypeOK, OrderInv, AuditInv, DecideSymbol
  PROVE  AuditInv'
<1>1. PICK s \in toDecide :
        /\ toDecide' = toDecide \ {s}
        /\ \/ SignalOf(s) = "halt_exit" /\ HaltExit(s)
           \/ SignalOf(s) = "entry" /\ Schedule(s, "buy")
           \/ SignalOf(s) = "exit" /\ Schedule(s, "sell")
           \/ SignalOf(s) \in {"none", "entry_blocked", "unavailable"} /\ UNCHANGED book
  BY DEF DecideSymbol
<1>2. phase = "decide" /\ phase' = phase /\ session' = session /\ queue' = queue
  BY DEF DecideSymbol, market
<1>3. CASE HaltExit(s)
  BY <1>1, <1>2, <1>3, AuditHalt
<1>4. CASE Schedule(s, "buy") \/ Schedule(s, "sell")
  BY <1>1, <1>2, <1>4, AuditSchedule DEF Side
<1>5. CASE UNCHANGED book
  BY <1>1, <1>2, <1>5 DEF book, AuditInv, Outstanding, Accounted, Same, Ends
<1> QED
  BY <1>1, <1>3, <1>4, <1>5

\* The event of an order the calendar leaves outstanding.
Leftover(o) ==
  OrderEvent(o.symbol, o.side, IF o.side = "sell" THEN "pending_exit" ELSE "cancelled",
             "period_ended", o.decided)

LEMMA LeftoverOf ==
  ASSUME NEW o
  PROVE  /\ Same(Leftover(o), o) /\ Leftover(o).detail = "period_ended"
         /\ Leftover(o).status = IF o.side = "sell" THEN "pending_exit" ELSE "cancelled"
BY DEF Leftover, OrderEvent, Same

LEMMA AuditFinish ==
  ASSUME TypeOK, OrderInv, AuditInv, Finish
  PROVE  AuditInv'
<1> DEFINE new == {Leftover(o) : o \in pending}
<1>1. /\ events' = events \cup new /\ phase' = "done" /\ session' = session
      /\ toDecide' = {} /\ queue' = queue /\ pending' = pending
  BY DEF Finish, Leftover, market
<1>2. Outstanding' = Outstanding
  BY <1>1 DEF Outstanding
<1>3. \A o \in pending : o.decided <= session
  BY DEF AuditInv, Outstanding, Same
<1>4. \A n \in new : n.status # "scheduled" /\ n.decided <= session
  BY <1>3, LeftoverOf DEF Same
<1> HIDE DEF new
<1>5. \A e \in events' : e.decided <= session' /\ e.symbol \notin toDecide'
  BY <1>1, <1>4 DEF AuditInv
<1> QED
  BY <1>1, <1>2, <1>4, <1>5, AuditByRecord

\* An order and a scheduled event of one symbol and one session are of one side.
LEMMA OneSide ==
  ASSUME AuditInv, NEW o \in Outstanding, NEW e \in events, e.status = "scheduled",
         o.symbol = e.symbol, o.decided = e.decided
  PROVE  Same(o, e)
BY DEF AuditInv, Same

\* The final events of a scheduled order, as AuditTrail writes them.
LEMMA OutcomesEnd ==
  ASSUME NEW e
  PROVE  Outcomes(e) = {f \in events : Same(f, e) /\ Ends(f)}
BY DEF Outcomes, Same, Ends

\* Until the run ends, the account is what AuditTrail says.
LEMMA TrailOfRunning ==
  ASSUME AuditInv, phase # "done"
  PROVE  AuditTrail
<1> SUFFICES ASSUME NEW e \in events, e.status = "scheduled"
             PROVE  Cardinality(Outcomes(e)) =
                      IF \E o \in Outstanding : o.symbol = e.symbol /\ o.decided = e.decided
                      THEN 0 ELSE 1
  BY DEF AuditTrail, Outstanding
<1>1. IF \E o \in Outstanding : Same(o, e) THEN Outcomes(e) = {}
      ELSE \E f \in Outcomes(e) : Outcomes(e) = {f}
  BY OutcomesEnd DEF AuditInv, Accounted
<1>2. (\E o \in Outstanding : Same(o, e))
        <=> \E o \in Outstanding : o.symbol = e.symbol /\ o.decided = e.decided
  BY OneSide DEF Same
<1> QED
  BY <1>1, <1>2, FS_EmptySet, FS_Singleton

\* The end of the run cancels the entries still outstanding and reports the exits.
LEMMA TrailOfFinish ==
  ASSUME TypeOK, OrderInv, AuditInv, Finish
  PROVE  AuditTrail'
<1> DEFINE new == {Leftover(o) : o \in pending}
<1>1. /\ events' = events \cup new /\ phase' = "done" /\ phase # "done" /\ queue = {}
      /\ queue' = queue /\ pending' = pending
  BY DEF Finish, Leftover, OrderInv
<1>2. Outstanding = pending /\ Outstanding' = pending
  BY <1>1 DEF Outstanding
<1> SUFFICES ASSUME NEW e \in events', e.status = "scheduled"
             PROVE  IF (\E o \in pending : o.symbol = e.symbol /\ o.decided = e.decided)
                         /\ e.side = "sell"
                    THEN /\ Cardinality(Outcomes(e)') = 0
                         /\ \E f \in events' : /\ f.status = "pending_exit"
                                               /\ f.detail = "period_ended"
                                               /\ f.symbol = e.symbol /\ f.decided = e.decided
                    ELSE Cardinality(Outcomes(e)') = 1
  BY <1>1, <1>2 DEF AuditTrail, Outstanding
<1>3. e \in events
  BY <1>1, LeftoverOf
<1>4. Outcomes(e)' = {f \in events \cup new : Same(f, e) /\ Ends(f)}
  BY <1>1 DEF Outcomes, Same, Ends
<1>5. IF \E o \in pending : Same(o, e) THEN Outcomes(e) = {}
      ELSE \E f \in Outcomes(e) : Outcomes(e) = {f}
  BY <1>1, <1>2, <1>3, OutcomesEnd DEF AuditInv, Accounted
<1>6. \A o \in pending : o.symbol = e.symbol /\ o.decided = e.decided => Same(o, e)
  BY <1>2, <1>3, OneSide
<1>7. \A n \in new : \E o \in pending : n = Leftover(o)
  OBVIOUS
<1>8. \A o \in pending : Leftover(o) \in new
  OBVIOUS
<1> HIDE DEF new
<1>9. CASE \E o \in pending : o.symbol = e.symbol /\ o.decided = e.decided
  <2>1. PICK o \in pending : Same(o, e)
    BY <1>6, <1>9
  <2>2. Outcomes(e) = {}
    BY <1>5, <2>1
  <2>3. \A n \in new : Same(n, e) => n = Leftover(o)
    <3> SUFFICES ASSUME NEW n \in new, Same(n, e) PROVE n = Leftover(o)
      OBVIOUS
    <3>1. PICK p \in pending : n = Leftover(p)
      BY <1>7
    <3>2. p.symbol = o.symbol
      BY <2>1, <3>1, LeftoverOf DEF Same
    <3>3. p = o
      BY <3>2 DEF OrderInv, OrderBook
    <3> QED
      BY <3>1, <3>3
  <2>4. \A f \in events : ~(Same(f, e) /\ Ends(f))
    BY <2>2, OutcomesEnd
  <2>5. /\ Leftover(o) \in new /\ Same(Leftover(o), e) /\ Leftover(o).detail = "period_ended"
        /\ Leftover(o).status = IF e.side = "sell" THEN "pending_exit" ELSE "cancelled"
    BY <1>8, <2>1, LeftoverOf DEF Same
  <2>6. CASE e.side = "sell"
    <3>1. ~Ends(Leftover(o))
      BY <2>5, <2>6 DEF Ends
    <3>2. Outcomes(e)' = {}
      BY <1>4, <2>3, <2>4, <3>1
    <3>3. Leftover(o) \in events' /\ Leftover(o).status = "pending_exit"
      BY <1>1, <2>5, <2>6
    <3>4. Cardinality(Outcomes(e)') = 0
      BY <3>2, FS_EmptySet
    <3>5. Leftover(o).symbol = e.symbol /\ Leftover(o).decided = e.decided
      BY <2>5 DEF Same
    <3> QED
      BY <1>9, <2>5, <2>6, <3>3, <3>4, <3>5
  <2>7. CASE e.side # "sell"
    <3>1. Ends(Leftover(o))
      BY <2>5, <2>7 DEF Ends
    <3>2. Outcomes(e)' = {Leftover(o)}
      BY <1>4, <2>3, <2>4, <2>5, <3>1
    <3> QED
      BY <2>7, <3>2, FS_Singleton
  <2> QED
    BY <2>6, <2>7
<1>10. CASE ~\E o \in pending : o.symbol = e.symbol /\ o.decided = e.decided
  <2>1. \A n \in new : ~Same(n, e)
    BY <1>7, <1>10, LeftoverOf DEF Same
  <2>2. Outcomes(e)' = Outcomes(e)
    BY <1>4, <2>1, OutcomesEnd
  <2>3. PICK f : Outcomes(e) = {f}
    BY <1>5, <1>10 DEF Same
  <2>4. Cardinality(Outcomes(e)') = 1
    BY <2>2, <2>3, FS_Singleton
  <2> QED
    BY <1>10, <2>4
<1> QED
  BY <1>9, <1>10

LEMMA AuditInvariant == Spec => []AuditInv
<1>1. Init => AuditInv
  BY DEF Init, AuditInv, Outstanding, Accounted
<1>2. TypeOK /\ OrderInv /\ AuditInv /\ [Next]_vars => AuditInv'
  BY AuditIdle, AuditExecute, AuditDecide, AuditFinish DEF Next
<1> QED
  BY <1>1, <1>2, TypeCorrect, OrderInvariant, PTL DEF Spec

\* The audit record of run() accounts for every scheduled order exactly once: until
\* the run ends it is outstanding or has one final event, a supersession by a halt
\* exit included, and at the end an outstanding exit is reported as pending and an
\* outstanding entry as cancelled.
THEOREM AuditIsComplete == Spec => []AuditTrail
<1> DEFINE AuditAtEnd == phase = "done" => AuditTrail
<1>1. Init => AuditAtEnd
  BY DEF Init
<1>2. TypeOK /\ OrderInv /\ AuditInv /\ AuditAtEnd /\ [Next]_vars => AuditAtEnd'
  <2> SUFFICES ASSUME TypeOK, OrderInv, AuditInv, AuditAtEnd, [Next]_vars
               PROVE  AuditAtEnd'
    OBVIOUS
  <2>1. CASE Finish
    BY <2>1, TrailOfFinish
  <2>2. CASE UNCHANGED vars
    BY <2>2 DEF vars, work, book, AuditTrail, Outcomes
  <2>3. CASE ~Finish /\ Next
    <3>1. phase' # "done"
      BY <2>3 DEF Next, OpenSession, ExecuteOrder, EndExecute, MarkPosition, EndMark,
                  DecideSymbol
    <3> QED
      BY <3>1
  <2> QED
    BY <2>1, <2>2, <2>3
<1>3. AuditInv /\ AuditAtEnd => AuditTrail
  BY TrailOfRunning
<1> HIDE DEF AuditAtEnd
<1> QED
  BY <1>1, <1>2, <1>3, TypeCorrect, OrderInvariant, AuditInvariant, PTL DEF Spec

-----------------------------------------------------------------------------
(* Finite sums *)

\* Among the subsets of a finite set that have a property one is smallest.
LEMMA SmallestSubset ==
  ASSUME NEW S, IsFiniteSet(S), NEW B \in SUBSET (SUBSET S), B # {}
  PROVE  \E T \in B : \A U \in B : U \subseteq T => U = T
<1>1. IsWellFoundedOn(StrictSubsetOrdering(S), SUBSET S)
  BY FS_StrictSubsetOrderingWellFounded, FS_FiniteSubsetsOfFinite
<1>2. PICK T \in B : \A U \in B : ~(<<U, T>> \in StrictSubsetOrdering(S))
  BY <1>1, WFMin
<1> QED
  BY <1>2 DEF StrictSubsetOrdering

\* The element a sum takes first.
First(s) == CHOOSE x \in s : TRUE

LEMMA FirstIn ==
  ASSUME NEW s, s # {}
  PROVE  First(s) \in s /\ s \ {First(s)} # s
BY DEF First

\* The sums of f over the subsets of S, as SumFunction computes them.
Running(f, S, g) ==
  g = [s \in SUBSET S |-> IF s = {} THEN 0 ELSE f[First(s)] + g[s \ {First(s)}]]

LEMMA SumIsRunning ==
  ASSUME NEW f
  PROVE  SumFunction(f) = (CHOOSE g : Running(f, DOMAIN f, g))[DOMAIN f]
BY DEF SumFunction, SumFunctionOnSet, FoldFunctionOnSet, MapThenFoldSet, Running, First

LEMMA RunningExists ==
  ASSUME NEW S, IsFiniteSet(S), NEW f \in [S -> Int]
  PROVE  \E g \in [SUBSET S -> Int] : Running(f, S, g)
<1> DEFINE U == (SUBSET S) \X Int
           Closed(R) ==
             /\ <<{}, 0>> \in R
             /\ \A s \in SUBSET S : \A v \in Int :
                  s # {} /\ <<s \ {First(s)}, v>> \in R => <<s, f[First(s)] + v>> \in R
           G == {p \in U : \A R \in SUBSET U : Closed(R) => p \in R}
           One(s) == \E v \in Int : <<s, v>> \in G /\ \A w \in Int : <<s, w>> \in G => w = v
<1>1. \A s \in SUBSET S : s # {} => First(s) \in s /\ s \ {First(s)} \in SUBSET S
                                     /\ s \ {First(s)} # s /\ f[First(s)] \in Int
  BY FirstIn
<1>2. Closed(G)
  <2>1. <<{}, 0>> \in U /\ \A R \in SUBSET U : Closed(R) => <<{}, 0>> \in R
    OBVIOUS
  <2>2. ASSUME NEW s \in SUBSET S, NEW v \in Int, s # {}, <<s \ {First(s)}, v>> \in G
        PROVE  <<s, f[First(s)] + v>> \in G
    <3>1. <<s, f[First(s)] + v>> \in U
      BY <1>1, <2>2
    <3>2. ASSUME NEW R \in SUBSET U, Closed(R) PROVE <<s, f[First(s)] + v>> \in R
      BY <2>2, <3>2
    <3> QED
      BY <3>1, <3>2
  <2> QED
    BY <2>1, <2>2
<1>3. \A R \in SUBSET U : Closed(R) => G \subseteq R
  OBVIOUS
<1>4. G \subseteq U
  OBVIOUS
<1> HIDE DEF G
<1>5. \A s \in SUBSET S : One(s)
  <2> DEFINE B == {s \in SUBSET S : ~One(s)}
  <2> SUFFICES ASSUME B # {} PROVE FALSE
    OBVIOUS
  <2>0. B \in SUBSET (SUBSET S)
    OBVIOUS
  <2> HIDE DEF B
  <2>1. PICK T \in B : \A V \in B : V \subseteq T => V = T
    BY <2>0, SmallestSubset
  <2> USE DEF B
  <2>2. T \in SUBSET S /\ ~One(T)
    OBVIOUS
  <2>3. ASSUME NEW v \in Int, <<T, v>> \in G,
               T # {} => \A u \in Int : <<T \ {First(T)}, u>> \in G => v = f[First(T)] + u,
               T = {} => v = 0
        PROVE  FALSE
    <3>1. PICK w \in Int : <<T, w>> \in G /\ w # v
      BY <2>2, <2>3
    <3> DEFINE R == G \ {<<T, w>>}
    <3>2. <<{}, 0>> \in R
      BY <1>2, <2>3, <3>1
    <3>3. ASSUME NEW s \in SUBSET S, NEW u \in Int, s # {}, <<s \ {First(s)}, u>> \in R
          PROVE  <<s, f[First(s)] + u>> \in R
      <4>1. <<s, f[First(s)] + u>> \in G
        BY <1>2, <3>3
      <4>2. CASE s = T
        <5>1. v = f[First(T)] + u
          BY <2>3, <3>3, <4>2
        <5> QED
          BY <3>1, <4>1, <4>2, <5>1
      <4>3. CASE s # T
        BY <4>1, <4>3
      <4> QED
        BY <4>2, <4>3
    <3>4. R \in SUBSET U /\ Closed(R)
      BY <1>4, <3>2, <3>3
    <3> QED
      BY <1>3, <3>1, <3>4
  <2>4. CASE T = {}
    BY <1>2, <2>3, <2>4
  <2>5. CASE T # {}
    <3>1. One(T \ {First(T)})
      BY <1>1, <2>1, <2>2, <2>5
    <3>2. PICK u \in Int : <<T \ {First(T)}, u>> \in G
                           /\ \A w \in Int : <<T \ {First(T)}, w>> \in G => w = u
      BY <3>1
    <3>3. <<T, f[First(T)] + u>> \in G
      BY <1>2, <2>2, <2>5, <3>2
    <3>4. f[First(T)] \in Int
      BY <1>1, <2>2, <2>5
    <3>5. f[First(T)] + u \in Int
      BY <3>4
    <3> QED
      BY <2>3, <2>5, <3>2, <3>3, <3>5
  <2> QED
    BY <2>4, <2>5
<1> DEFINE g == [s \in SUBSET S |-> CHOOSE v \in Int : <<s, v>> \in G]
<1>6. \A s \in SUBSET S : g[s] \in Int /\ <<s, g[s]>> \in G
                          /\ \A w \in Int : <<s, w>> \in G => w = g[s]
  BY <1>5
<1>7. g \in [SUBSET S -> Int]
  BY <1>6
<1>8. g[{}] = 0
  BY <1>2, <1>6
<1> HIDE DEF g
<1>9. \A s \in SUBSET S : s # {} => g[s] = f[First(s)] + g[s \ {First(s)}]
  <2> SUFFICES ASSUME NEW s \in SUBSET S, s # {}
               PROVE  g[s] = f[First(s)] + g[s \ {First(s)}]
    OBVIOUS
  <2>1. <<s \ {First(s)}, g[s \ {First(s)}]>> \in G /\ g[s \ {First(s)}] \in Int
    BY <1>1, <1>6
  <2>2. <<s, f[First(s)] + g[s \ {First(s)}]>> \in G
    BY <1>2, <2>1
  <2>3. f[First(s)] + g[s \ {First(s)}] \in Int
    BY <1>1, <2>1
  <2> QED
    BY <1>6, <2>2, <2>3
<1>10. Running(f, S, g)
  BY <1>7, <1>8, <1>9 DEF Running
<1> QED
  BY <1>7, <1>10

\* A sum depends on the summands and on nothing else.
LEMMA RunningAgree ==
  ASSUME NEW S, NEW R, NEW f, NEW h, NEW g, NEW k, Running(f, S, g), Running(h, R, k),
         NEW T \in SUBSET S, T \in SUBSET R, IsFiniteSet(T), \A x \in T : f[x] = h[x]
  PROVE  g[T] = k[T]
<1> DEFINE B == {s \in SUBSET T : g[s] # k[s]}
<1> SUFFICES ASSUME B # {} PROVE FALSE
  OBVIOUS
<1>1. B \in SUBSET (SUBSET T)
  OBVIOUS
<1> HIDE DEF B
<1>2. PICK M \in B : \A V \in B : V \subseteq M => V = M
  BY <1>1, SmallestSubset
<1> USE DEF B
<1>3. M \in SUBSET T /\ M \in SUBSET S /\ M \in SUBSET R /\ g[M] # k[M]
  OBVIOUS
<1>4. M # {}
  BY <1>3 DEF Running
<1>5. First(M) \in M /\ M \ {First(M)} # M
  BY <1>4, FirstIn
<1>6. g[M \ {First(M)}] = k[M \ {First(M)}]
  BY <1>2, <1>3, <1>5
<1>7. g[M] = f[First(M)] + g[M \ {First(M)}]
  BY <1>3, <1>4 DEF Running
<1>8. k[M] = h[First(M)] + k[M \ {First(M)}]
  BY <1>3, <1>4 DEF Running
<1> QED
  BY <1>3, <1>5, <1>6, <1>7, <1>8

SumsOver(S, f, g) == f \in [S -> Int] /\ g \in [SUBSET S -> Int] /\ Running(f, S, g)

Splits(f, g, T, y) == g[T] = f[y] + g[T \ {y}]

\* Any element may be taken first.
LEMMA RunningAny ==
  ASSUME NEW S, IsFiniteSet(S), NEW f, NEW g, SumsOver(S, f, g), NEW T \in SUBSET S,
         NEW y \in T
  PROVE  Splits(f, g, T, y)
<1>0. f \in [S -> Int] /\ g \in [SUBSET S -> Int] /\ Running(f, S, g)
  BY DEF SumsOver
<1> DEFINE B == {s \in SUBSET S : \E z \in s : g[s] # f[z] + g[s \ {z}]}
<1> SUFFICES ASSUME B # {} PROVE FALSE
  BY DEF Splits
<1>1. B \in SUBSET (SUBSET S)
  OBVIOUS
<1> HIDE DEF B
<1>2. PICK M \in B : \A V \in B : V \subseteq M => V = M
  BY <1>1, SmallestSubset
<1> USE DEF B
<1>3. PICK z \in M : g[M] # f[z] + g[M \ {z}]
  OBVIOUS
<1> DEFINE x == First(M)
           rest == M \ {x, z}
<1>4. M \in SUBSET S /\ x \in M
  BY <1>3, FirstIn
<1> HIDE DEF x
<1>5. \A s \in SUBSET S : s # {} => g[s] = f[First(s)] + g[s \ {First(s)}]
  BY <1>0 DEF Running
<1>6. g[M] = f[x] + g[M \ {x}]
  BY <1>3, <1>4, <1>5 DEF x
<1>7. z # x
  BY <1>3, <1>6
<1>8. \A s \in SUBSET S : s \subseteq M /\ s # M => \A w \in s : g[s] = f[w] + g[s \ {w}]
  BY <1>2
<1>9. g[M \ {x}] = f[z] + g[rest]
  <2>1. M \ {x} \in SUBSET S /\ M \ {x} # M /\ z \in M \ {x} /\ (M \ {x}) \ {z} = rest
    BY <1>4, <1>7
  <2> QED
    BY <1>8, <2>1
<1>10. g[M \ {z}] = f[x] + g[rest]
  <2>1. M \ {z} \in SUBSET S /\ M \ {z} \subseteq M /\ M \ {z} # M /\ x \in M \ {z}
    BY <1>3, <1>4, <1>7
  <2>2. (M \ {z}) \ {x} = rest
    OBVIOUS
  <2>3. g[M \ {z}] = f[x] + g[(M \ {z}) \ {x}]
    BY <1>8, <2>1
  <2> QED
    BY <2>2, <2>3
<1>11. f[x] \in Int /\ f[z] \in Int /\ g[rest] \in Int
  BY <1>0, <1>4
<1> QED
  BY <1>3, <1>6, <1>9, <1>10, <1>11

\* The running sums of a finite integer function.
LEMMA SumRuns ==
  ASSUME NEW S, IsFiniteSet(S), NEW f \in [S -> Int]
  PROVE  \E g \in [SUBSET S -> Int] : Running(f, S, g) /\ SumFunction(f) = g[S]
<1>1. DOMAIN f = S
  OBVIOUS
<1> DEFINE g == CHOOSE g : Running(f, S, g)
<1>2. PICK h \in [SUBSET S -> Int] : Running(f, S, h)
  BY RunningExists
<1>3. Running(f, S, g)
  BY <1>2
<1>4. SumFunction(f) = g[S]
  BY <1>1, SumIsRunning
<1> HIDE DEF g
<1>5. \A T \in SUBSET S : g[T] = h[T]
  <2> SUFFICES ASSUME NEW T \in SUBSET S PROVE g[T] = h[T]
    OBVIOUS
  <2>1. IsFiniteSet(T)
    BY FS_Subset
  <2> QED
    BY <1>2, <1>3, <2>1, RunningAgree, SMTT(30)
<1>6. SumFunction(f) = h[S]
  BY <1>4, <1>5
<1> QED
  BY <1>2, <1>6

LEMMA SumType ==
  ASSUME NEW S, IsFiniteSet(S), NEW f \in [S -> Int]
  PROVE  SumFunction(f) \in Int
<1>1. PICK g \in [SUBSET S -> Int] : Running(f, S, g) /\ SumFunction(f) = g[S]
  BY SumRuns
<1>2. S \in SUBSET S
  OBVIOUS
<1> QED
  BY <1>1, <1>2

LEMMA SumEmpty ==
  ASSUME NEW f \in [{} -> Int]
  PROVE  SumFunction(f) = 0
<1>1. PICK g \in [SUBSET {} -> Int] : Running(f, {}, g) /\ SumFunction(f) = g[{}]
  BY SumRuns, FS_EmptySet
<1>2. {} \in SUBSET {}
  OBVIOUS
<1>3. g = [s \in SUBSET {} |-> IF s = {} THEN 0 ELSE f[First(s)] + g[s \ {First(s)}]]
  BY <1>1 DEF Running
<1>4. g[{}] = 0
  BY <1>2, <1>3, Zenon
<1> QED
  BY <1>1, <1>4

Adds(total, term, rest) == total = term + rest

\* A sum is one of its terms and the sum of the others.
LEMMA SumRemove ==
  ASSUME NEW S, IsFiniteSet(S), NEW f \in [S -> Int], NEW x \in S,
         NEW h \in [S \ {x} -> Int], \A y \in S \ {x} : h[y] = f[y]
  PROVE  Adds(SumFunction(f), f[x], SumFunction(h))
<1>1. PICK g \in [SUBSET S -> Int] : Running(f, S, g) /\ SumFunction(f) = g[S]
  BY SumRuns
<1>2. IsFiniteSet(S \ {x})
  BY FS_Subset
<1>3. PICK k \in [SUBSET (S \ {x}) -> Int] :
        Running(h, S \ {x}, k) /\ SumFunction(h) = k[S \ {x}]
  BY <1>2, SumRuns
<1>4. g[S \ {x}] = k[S \ {x}]
  <2> DEFINE T == S \ {x}
  <2>1. T \in SUBSET S /\ T \in SUBSET T /\ \A y \in T : f[y] = h[y]
    OBVIOUS
  <2>2. IsFiniteSet(T) /\ Running(h, T, k)
    BY <1>2, <1>3
  <2> HIDE DEF T
  <2>3. g[T] = k[T]
    <3>1. Running(f, S, g)
      BY <1>1
    <3> QED
      BY <2>1, <2>2, <3>1, RunningAgree, SMTT(30)
  <2> QED
    BY <2>3 DEF T
<1>5. g[S] = f[x] + g[S \ {x}]
  <2>1. SumsOver(S, f, g)
    BY <1>1 DEF SumsOver
  <2>2. S \in SUBSET S
    OBVIOUS
  <2>3. Splits(f, g, S, x)
    BY <2>1, <2>2, RunningAny
  <2> QED
    BY <2>3 DEF Splits
<1> QED
  BY <1>1, <1>3, <1>4, <1>5 DEF Adds

\* A sum over one index more.
LEMMA SumInsert ==
  ASSUME NEW S, IsFiniteSet(S), NEW x, x \notin S, NEW f \in [S -> Int],
         NEW h \in [S \cup {x} -> Int], \A y \in S : h[y] = f[y]
  PROVE  Adds(SumFunction(h), h[x], SumFunction(f))
<1> DEFINE R == S \cup {x}
<1>1. IsFiniteSet(R) /\ x \in R /\ R \ {x} = S
  BY FS_AddElement
<1>2. h \in [R -> Int] /\ f \in [R \ {x} -> Int] /\ \A y \in R \ {x} : f[y] = h[y]
  BY <1>1
<1> HIDE DEF R
<1> QED
  BY <1>1, <1>2, SumRemove

-----------------------------------------------------------------------------
(* Entries and exits *)

\* What an entry of symbol s at a price does to the book.
Enters(s, price, q) ==
  /\ cash' = cash - (price * q * RateUnit + CostOf(price, q))
  /\ sessionNotional' = sessionNotional + price * q
  /\ fills' = fills \cup {[symbol |-> s, side |-> "buy", day |-> session,
                           rowDay |-> session, price |-> price, quantity |-> q,
                           reason |-> "order"]}
  /\ positions'[s].quantity = q /\ positions'[s].entryPrice = price
  /\ positions'[s].entryCosts = CostOf(price, q)
  /\ positions'[s].entryDay = session /\ positions'[s].lastMark = price
  /\ \A r \in Symbols \ {s} : positions'[r] = positions[r]
  /\ trades' = trades /\ pending' = pending

LEMMA EntryFilled ==
  ASSUME TypeOK, OrderInv, NEW o \in queue, FillEntry(o)
  PROVE  /\ o.symbol \in Symbols /\ o.symbol \notin Held /\ o.side = "buy"
         /\ Held' = Held \cup {o.symbol}
         /\ \E price \in Nat, q \in Nat \ {0} : Enters(o.symbol, price, q)
<1>1. o \in Order /\ o.symbol \in Symbols
  BY DEF TypeOK, Order
<1>2. TradesToday(o.symbol) /\ o.symbol \notin Held /\ o.side = "buy" /\ ~NoShares(o.symbol)
      /\ Executable(Today(o.symbol), "buy")
  BY DEF FillEntry, Blocker
<1>3. EntryPrice(o.symbol) \in Nat /\ EntryQuantity(o.symbol) \in Nat \ {0}
  BY <1>1, <1>2, EntryPriceType, EntryQuantityType DEF NoShares
<1>4. Enters(o.symbol, EntryPrice(o.symbol), EntryQuantity(o.symbol))
  BY <1>1 DEF FillEntry, Enters, TypeOK
<1>5. Held' = Held \cup {o.symbol}
  BY <1>1, HeldAfterEntry
<1> QED
  BY <1>1, <1>2, <1>3, <1>4, <1>5

\* Positions are marked and otherwise kept.
Kept ==
  /\ UNCHANGED <<cash, trades, fills>>
  /\ Held' = Held
  /\ \A s \in Held : /\ positions'[s].quantity = positions[s].quantity
                     /\ positions'[s].entryPrice = positions[s].entryPrice
                     /\ positions'[s].entryCosts = positions[s].entryCosts
                     /\ positions'[s].entryDay = positions[s].entryDay

\* A full exit, after which nothing to be bought of the symbol is outstanding.
Leaves(s) ==
  /\ session' = session
  /\ \A o \in Outstanding' : o \in Outstanding /\ (o.side = "buy" => o.symbol # s)
  /\ \E price \in Nat, rowDay \in Nat, reason \in {"order", "halt"} :
       ClosePosition(s, price, rowDay, reason) /\ phase = IF reason = "halt" THEN "decide" ELSE "execute"

\* The trade a full exit at a price records.
Closes(t, s, price, reason) ==
  /\ t.symbol = s /\ t.entryDay = positions[s].entryDay /\ t.exitDay = session
  /\ t.entryPrice = positions[s].entryPrice /\ t.quantity = positions[s].quantity
  /\ t.gross = (price - positions[s].entryPrice) * positions[s].quantity * RateUnit
  /\ t.costs = positions[s].entryCosts + CostOf(price, positions[s].quantity)
  /\ t.netPnl = t.gross - CostOf(price, positions[s].quantity)
  /\ t.reason = reason

LEMMA TradeClosed ==
  ASSUME NEW s, NEW price, NEW rowDay, NEW reason, ClosePosition(s, price, rowDay, reason)
  PROVE  \E t : trades' = trades \cup {t} /\ Closes(t, s, price, reason)
<1> DEFINE p == positions[s]
           cost == CostOf(price, p.quantity)
           gross == (price - p.entryPrice) * p.quantity * RateUnit
           t == [symbol |-> s, entryDay |-> p.entryDay, entryPrice |-> p.entryPrice,
                 exitDay |-> session,
                 quantity |-> p.quantity, gross |-> gross,
                 costs |-> p.entryCosts + cost, netPnl |-> gross - cost, reason |-> reason]
<1>1. trades' = trades \cup {t}
  BY DEF ClosePosition
<1>2. Closes(t, s, price, reason)
  BY DEF Closes
<1> QED
  BY <1>1, <1>2

\* A step keeps the positions, enters one or closes one.
LEMMA MoneyStep ==
  ASSUME TypeOK, OrderInv, [Next]_vars
  PROVE  \/ Kept
         \/ \E o \in queue : ExecuteOrder /\ queue' = queue \ {o} /\ FillEntry(o)
         \/ \E s \in Held : Leaves(s)
<1>1. CASE OpenSession \/ EndExecute \/ EndMark \/ Finish \/ UNCHANGED vars
  BY <1>1 DEF OpenSession, EndExecute, EndMark, Finish, vars, book, Kept, Held
<1>2. CASE MarkPosition
  <2>1. PICK t \in toMark : \E m : positions' = [positions EXCEPT ![t].lastMark = m]
    BY <1>2 DEF MarkPosition
  <2>2. \A s \in Held : s \in Symbols /\ positions[s] \in Position
    BY HeldType
  <2>3. \A s \in Held : /\ positions'[s].quantity = positions[s].quantity
                        /\ positions'[s].entryPrice = positions[s].entryPrice
                        /\ positions'[s].entryCosts = positions[s].entryCosts
                        /\ positions'[s].entryDay = positions[s].entryDay
    BY SMTT(30), <2>1, <2>2 DEF Position, TypeOK
  <2> QED
    BY <1>2, <2>3, MarkPositionStep DEF MarkPosition, Kept
<1>3. CASE ExecuteOrder
  <2>1. PICK o \in queue : /\ queue' = queue \ {o}
                           /\ KeepOrder(o) \/ CancelOrder(o) \/ FillEntry(o) \/ FillExit(o)
    BY <1>3 DEF ExecuteOrder
  <2>2. CASE KeepOrder(o) \/ CancelOrder(o)
    BY <2>2 DEF KeepOrder, CancelOrder, Kept, Held
  <2>3. CASE FillEntry(o)
    BY <1>3, <2>1, <2>3
  <2>4. CASE FillExit(o)
    <3>1. o.symbol \in Held /\ o \in Order /\ session \in Nat
      BY <2>4, Portfolio DEF FillExit, Blocker, TypeOK
    <3>2. PICK price \in Nat : ClosePosition(o.symbol, price, session, "order")
      BY <2>4, <3>1, ExitPriceType
    <3>3. pending' = pending /\ session' = session /\ phase = "execute"
      BY <1>3, <2>4 DEF ExecuteOrder, FillExit, market
    <3>4. \A p \in Outstanding' : p \in Outstanding /\ p # o
      BY <2>1, <3>3 DEF Outstanding, OrderInv
    <3>5. \A p \in Outstanding' : p.symbol # o.symbol
      BY <3>4 DEF OrderInv, OrderBook, Outstanding
    <3>6. Leaves(o.symbol)
      BY <3>1, <3>2, <3>3, <3>4, <3>5 DEF Leaves
    <3> QED
      BY <3>1, <3>6
  <2> QED
    BY <2>1, <2>2, <2>3, <2>4
<1>4. CASE DecideSymbol
  <2>1. PICK s \in toDecide :
          \/ SignalOf(s) = "halt_exit" /\ HaltExit(s)
          \/ SignalOf(s) # "halt_exit" /\ UNCHANGED <<positions, cash, fills, trades>>
    BY <1>4 DEF DecideSymbol, Schedule, book
  <2>2. CASE UNCHANGED <<positions, cash, fills, trades>>
    BY <2>2 DEF Kept, Held
  <2>3. CASE SignalOf(s) = "halt_exit" /\ HaltExit(s)
    <3>1. s \in Held
      BY <2>3, HaltExitLong DEF TypeOK
    <3>2. HaltPrice(s) \in Nat /\ HaltRowDay(s) \in Nat
      BY <3>1, HaltPriceType
    <3>3. queue' = queue /\ queue = {} /\ session' = session /\ phase = "decide"
      BY <1>4 DEF DecideSymbol, market, OrderInv
    <3>4. \A o \in Outstanding' : o \in Outstanding /\ o.symbol # s
      BY <2>3, <3>3 DEF HaltExit, Superseded, Outstanding
    <3>5. Leaves(s)
      BY <2>3, <3>2, <3>3, <3>4 DEF Leaves, HaltExit
    <3> QED
      BY <3>1, <3>5
  <2> QED
    BY <2>1, <2>2, <2>3
<1> QED
  BY <1>1, <1>2, <1>3, <1>4 DEF Next

\* A symbol is held, and may be bought again, only after its closed trades; so each
\* trade is recorded once.
TradeInv ==
  /\ \A t \in trades :
       /\ t.entryDay <= t.exitDay /\ t.exitDay <= session
       /\ \A o \in Outstanding :
            o.side = "buy" /\ o.symbol = t.symbol => t.exitDay <= o.decided
       /\ t.symbol \in Held => t.exitDay < positions[t.symbol].entryDay
  /\ \A s \in Held : positions[s].entryDay <= session
  /\ IsFiniteSet(trades)

\* The orders of the next state are outstanding now or decided now.
LEMMA OutstandingStep ==
  ASSUME TypeOK, OrderInv, [Next]_vars, NEW o \in Outstanding'
  PROVE  o \in Outstanding \/ o.decided = session
BY ExitOrders DEF Outstanding

LEMMA TradesKept ==
  ASSUME TypeOK, OrderInv, TradeInv, [Next]_vars PROVE TradeInv'
<1>0. session \in Nat /\ session' \in Nat /\ session <= session'
  BY SessionStep
<1>t. \A t \in trades : t.symbol \in Symbols /\ t.entryDay \in Nat /\ t.exitDay \in Nat
  BY DEF TypeOK, Trade
<1>p. \A s \in Held : s \in Symbols /\ positions[s].entryDay \in Nat
  BY HeldType DEF Position
<1>1. CASE Kept
  <2>1. \A t \in trades, o \in Outstanding' :
          o.side = "buy" /\ o.symbol = t.symbol => t.exitDay <= o.decided
    BY OutstandingStep DEF TradeInv
  <2> QED
    BY <1>0, <1>1, <1>t, <1>p, <2>1 DEF Kept, TradeInv
<1>2. ASSUME NEW o \in queue, ExecuteOrder, queue' = queue \ {o}, FillEntry(o) PROVE TradeInv'
  <2>1. /\ o.symbol \in Symbols /\ o.side = "buy" /\ Held' = Held \cup {o.symbol}
        /\ o.symbol \notin Held
    BY <1>2, EntryFilled
  <2>2. /\ trades' = trades /\ positions'[o.symbol].entryDay = session
        /\ \A r \in Symbols \ {o.symbol} : positions'[r] = positions[r]
        /\ pending' = pending
    BY <1>2, EntryFilled DEF Enters
  <2>3. session' = session
    BY <1>2 DEF ExecuteOrder, market
  <2>4. Outstanding' \subseteq Outstanding /\ o \in Outstanding
    BY <1>2, <2>2 DEF Outstanding
  <2>5. o.decided = session - 1
    BY <2>1, <2>4 DEF OrderInv, OrderBook, Outstanding
  <2>6. \A t \in trades : t.symbol = o.symbol => t.exitDay < session
    BY <1>0, <1>t, <2>1, <2>4, <2>5 DEF TradeInv
  <2>7. \A t \in trades : t.symbol \in Held' => t.exitDay < positions'[t.symbol].entryDay
    BY <1>p, <2>1, <2>2, <2>6 DEF TradeInv
  <2>8. \A s \in Held' : positions'[s].entryDay <= session
    BY <1>0, <1>p, <2>1, <2>2 DEF TradeInv
  <2> QED
    BY <2>2, <2>3, <2>4, <2>7, <2>8 DEF TradeInv
<1>3. ASSUME NEW s \in Held, Leaves(s) PROVE TradeInv'
  <2>1. PICK price, rowDay, reason : ClosePosition(s, price, rowDay, reason)
    BY <1>3 DEF Leaves
  <2>2. s \in Symbols /\ Held' = Held \ {s}
    BY <1>p, <2>1, HeldAfterExit
  <2>3. \A r \in Held' : positions'[r] = positions[r]
    BY <1>p, <2>1, <2>2 DEF ClosePosition, TypeOK
  <2>4. PICK new : trades' = trades \cup {new} /\ Closes(new, s, price, reason)
    BY <2>1, TradeClosed
  <2>5. session' = session /\ Outstanding' \subseteq Outstanding
        /\ \A o \in Outstanding' : o.side = "buy" => o.symbol # s
    BY <1>3 DEF Leaves
  <2>6. IsFiniteSet(trades')
    BY <2>4, FS_AddElement DEF TradeInv
  <2> QED
    BY <1>0, <1>p, <2>2, <2>3, <2>4, <2>5, <2>6 DEF TradeInv, Closes
<1> QED
  BY <1>1, <1>2, <1>3, MoneyStep

LEMMA TradeInvariant == Spec => []TradeInv
<1>1. Init => TradeInv
  BY FS_EmptySet, Portfolio DEF Init, TradeInv, Held
<1>2. TypeOK /\ OrderInv /\ TradeInv /\ [Next]_vars => TradeInv'
  BY TradesKept
<1> QED
  BY <1>1, <1>2, TypeCorrect, OrderInvariant, PTL DEF Spec

-----------------------------------------------------------------------------
(* The ledger *)

Stake(s) ==
  positions[s].entryPrice * positions[s].quantity * RateUnit + positions[s].entryCosts

Gain(t) == t.gross - t.costs

LEMMA StakeType ==
  ASSUME TypeOK, NEW s \in Held
  PROVE  Stake(s) \in Int
<1>1. /\ positions[s].entryPrice \in Nat /\ positions[s].quantity \in Nat
      /\ positions[s].entryCosts \in Nat
  BY HeldType DEF Position
<1>2. positions[s].entryPrice * positions[s].quantity * RateUnit \in Nat
  BY <1>1, CostType
<1> QED
  BY <1>1, <1>2 DEF Stake

LEMMA GainType ==
  ASSUME TypeOK, NEW t \in trades
  PROVE  Gain(t) \in Int
BY DEF TypeOK, Trade, Gain

LEMMA HeldFinite == IsFiniteSet(Held)
BY FS_Subset, Portfolio DEF Held

\* The two sums of the ledger are integers.
LEMMA LedgerType ==
  ASSUME TypeOK, TradeInv
  PROVE  Invested \in Int /\ PnlAfterCosts \in Int
<1>1. [s \in Held |-> Stake(s)] \in [Held -> Int] /\ [t \in trades |-> Gain(t)] \in [trades -> Int]
  BY StakeType, GainType
<1>2. /\ SumFunction([s \in Held |-> Stake(s)]) \in Int
      /\ SumFunction([t \in trades |-> Gain(t)]) \in Int
  BY <1>1, HeldFinite, SumType DEF TradeInv
<1> QED
  BY <1>2 DEF Invested, PnlAfterCosts, Stake, Gain

\* The next state's sums, as sums of the next state's terms.
LEMMA NextLedger ==
  /\ Invested' = SumFunction([s \in Held' |-> Stake(s)'])
  /\ PnlAfterCosts' = SumFunction([t \in trades' |-> Gain(t)])
  /\ Invested = SumFunction([s \in Held |-> Stake(s)])
  /\ PnlAfterCosts = SumFunction([t \in trades |-> Gain(t)])
BY DEF Invested, PnlAfterCosts, Stake, Gain

\* An entry adds its stake.
LEMMA InvestedByEntry ==
  ASSUME TypeOK, NEW x, x \notin Held, Stake(x)' \in Int, Held' = Held \cup {x},
         \A s \in Held : Stake(s)' = Stake(s)
  PROVE  Adds(Invested', Stake(x)', Invested)
<1> DEFINE f == [s \in Held |-> Stake(s)]
           h == [s \in Held' |-> Stake(s)']
<1>1. f \in [Held -> Int]
  BY StakeType
<1>2. \A s \in Held' : Stake(s)' \in Int
  BY StakeType
<1>3. h \in [Held \cup {x} -> Int] /\ (\A y \in Held : h[y] = f[y]) /\ h[x] = Stake(x)'
  BY <1>2
<1>4. Invested' = SumFunction(h) /\ Invested = SumFunction(f)
  BY NextLedger
<1> HIDE DEF f, h
<1>5. Adds(SumFunction(h), h[x], SumFunction(f))
  BY <1>1, <1>3, HeldFinite, SumInsert
<1> QED
  BY <1>3, <1>4, <1>5

\* An exit takes its stake away.
LEMMA InvestedByExit ==
  ASSUME TypeOK, NEW x \in Held, Held' = Held \ {x}, \A s \in Held' : Stake(s)' = Stake(s)
  PROVE  Adds(Invested, Stake(x), Invested')
<1> DEFINE f == [s \in Held |-> Stake(s)]
           h == [s \in Held' |-> Stake(s)']
<1>1. f \in [Held -> Int]
  BY StakeType
<1>2. h \in [Held \ {x} -> Int] /\ (\A y \in Held \ {x} : h[y] = f[y]) /\ f[x] = Stake(x)
  BY StakeType
<1>3. Invested' = SumFunction(h) /\ Invested = SumFunction(f)
  BY NextLedger
<1> HIDE DEF f, h
<1>4. Adds(SumFunction(f), f[x], SumFunction(h))
  BY <1>1, <1>2, HeldFinite, SumRemove
<1> QED
  BY <1>2, <1>3, <1>4

\* A closed trade adds its profit after the costs it records.
LEMMA PnlByExit ==
  ASSUME TypeOK, TradeInv, NEW t, t \notin trades, trades' = trades \cup {t}, Gain(t) \in Int
  PROVE  Adds(PnlAfterCosts', Gain(t), PnlAfterCosts)
<1> DEFINE f == [r \in trades |-> Gain(r)]
           h == [r \in trades' |-> Gain(r)]
<1>1. f \in [trades -> Int] /\ IsFiniteSet(trades)
  BY GainType DEF TradeInv
<1>2. h \in [trades \cup {t} -> Int] /\ (\A y \in trades : h[y] = f[y]) /\ h[t] = Gain(t)
  BY GainType
<1>3. PnlAfterCosts' = SumFunction(h) /\ PnlAfterCosts = SumFunction(f)
  BY NextLedger
<1> HIDE DEF f, h
<1>4. Adds(SumFunction(h), h[t], SumFunction(f))
  BY <1>1, <1>2, SumInsert
<1> QED
  BY <1>2, <1>3, <1>4

LEMMA LedgerKept ==
  ASSUME TypeOK, OrderInv, TradeInv, Ledger, [Next]_vars PROVE Ledger'
<1>0. /\ Invested \in Int /\ PnlAfterCosts \in Int /\ cash \in Int /\ InitialCapital \in Int
      /\ cash = InitialCapital + PnlAfterCosts - Invested
  BY LedgerType, Frictions DEF TypeOK, Ledger
<1>1. CASE Kept
  <2>1. \A s \in Held : Stake(s)' = Stake(s)
    BY <1>1 DEF Kept, Stake
  <2>2. [s \in Held' |-> Stake(s)'] = [s \in Held |-> Stake(s)]
        /\ [t \in trades' |-> Gain(t)] = [t \in trades |-> Gain(t)]
    BY <1>1, <2>1 DEF Kept
  <2>3. Invested' = Invested /\ PnlAfterCosts' = PnlAfterCosts /\ cash' = cash
    BY <1>1, <2>2, NextLedger DEF Kept
  <2> QED
    BY <2>3 DEF Ledger
<1>2. ASSUME NEW o \in queue, FillEntry(o) PROVE Ledger'
  <2> DEFINE x == o.symbol
  <2>1. x \in Symbols /\ x \notin Held /\ Held' = Held \cup {x}
    BY <1>2, EntryFilled
  <2>2. PICK price \in Nat, q \in Nat \ {0} : Enters(x, price, q)
    BY <1>2, EntryFilled
  <2> HIDE DEF x
  <2>3. /\ price * q * RateUnit \in Nat /\ CostOf(price, q) \in Nat
        /\ cash' = cash - (price * q * RateUnit + CostOf(price, q))
    BY <2>2, CostType DEF Enters
  <2>4. Stake(x)' = price * q * RateUnit + CostOf(price, q)
    BY <2>2 DEF Enters, Stake
  <2>5. \A s \in Held : Stake(s)' = Stake(s)
    BY <2>1, <2>2 DEF Enters, Stake, Held
  <2>6. Adds(Invested', Stake(x)', Invested)
    BY <2>1, <2>3, <2>4, <2>5, InvestedByEntry
  <2>7. PnlAfterCosts' = PnlAfterCosts
    BY <2>2, NextLedger DEF Enters
  <2> QED
    BY <1>0, <2>3, <2>4, <2>6, <2>7 DEF Adds, Ledger
<1>3. ASSUME NEW s \in Held, Leaves(s) PROVE Ledger'
  <2>1. PICK price \in Nat, rowDay \in Nat, reason \in {"order", "halt"} :
          ClosePosition(s, price, rowDay, reason)
    BY <1>3 DEF Leaves
  <2> DEFINE p == positions[s]
  <2>2. /\ s \in Symbols /\ p.entryPrice \in Nat /\ p.quantity \in Nat /\ p.entryCosts \in Nat
    BY HeldType DEF Position
  <2>3. Held' = Held \ {s}
    BY <2>1, <2>2, HeldAfterExit
  <2>4. \A r \in Held' : Stake(r)' = Stake(r)
    BY <2>1, <2>2, <2>3 DEF ClosePosition, TypeOK, Held, Stake
  <2>5. Adds(Invested, Stake(s), Invested')
    BY <2>3, <2>4, InvestedByExit
  <2>6. PICK t : trades' = trades \cup {t} /\ Closes(t, s, price, reason)
    BY <2>1, TradeClosed
  <2>7. t \notin trades
    <3>1. \A r \in trades : r.symbol = s => r.exitDay < p.entryDay
      BY DEF TradeInv
    <3>2. p.entryDay <= session /\ p.entryDay \in Nat /\ session \in Nat
      BY HeldType, Portfolio DEF TradeInv, Position, TypeOK
    <3> QED
      BY <2>6, <3>1, <3>2 DEF Closes
  <2> DEFINE sold == price * p.quantity * RateUnit
             bought == p.entryPrice * p.quantity * RateUnit
             cost == CostOf(price, p.quantity)
  <2>8. sold \in Nat /\ bought \in Nat /\ cost \in Nat
    BY <2>2, CostType
  <2>9. Gain(t) = (sold - bought) - (p.entryCosts + cost)
    <3>1. /\ t.gross = (price - p.entryPrice) * p.quantity * RateUnit
          /\ t.costs = p.entryCosts + cost
      BY <2>6 DEF Closes
    <3>2. (price - p.entryPrice) * p.quantity * RateUnit = sold - bought
      BY <2>2, Frictions
    <3> QED
      BY <3>1, <3>2 DEF Gain
  <2>10. Stake(s) = bought + p.entryCosts
    BY DEF Stake
  <2>11. cash' = cash + (sold - cost)
    BY <2>1 DEF ClosePosition, Proceeds
  <2> HIDE DEF sold, bought, cost
  <2>12. Gain(t) \in Int
    BY <2>2, <2>8, <2>9
  <2>13. Adds(PnlAfterCosts', Gain(t), PnlAfterCosts)
    BY <2>6, <2>7, <2>12, PnlByExit
  <2>14. Invested' \in Int
    <3>1. [r \in Held' |-> Stake(r)'] \in [Held' -> Int] /\ IsFiniteSet(Held')
      BY <2>3, <2>4, StakeType, HeldFinite, FS_RemoveElement
    <3>2. SumFunction([r \in Held' |-> Stake(r)']) \in Int
      BY <3>1, SumType
    <3> QED
      BY <3>2, NextLedger
  <2> QED
    BY <1>0, <2>2, <2>5, <2>8, <2>9, <2>10, <2>11, <2>13, <2>14 DEF Adds, Ledger
<1> QED
  BY <1>1, <1>2, <1>3, MoneyStep

\* Cash is what the trade list says it is: the capital, plus each closed trade's
\* gross profit less the costs it records, less what the open positions cost to
\* enter.  So run() loses and creates no money between its cash and its records.
THEOREM LedgerBalances == Spec => []Ledger
<1>1. Init => Ledger
  <2> SUFFICES ASSUME Init PROVE Ledger
    OBVIOUS
  <2>1. Held = {} /\ trades = {} /\ cash = InitialCapital
    BY DEF Init, Held
  <2>2. [s \in Held |-> Stake(s)] \in [{} -> Int] /\ [t \in trades |-> Gain(t)] \in [{} -> Int]
    BY <2>1
  <2>3. Invested = 0 /\ PnlAfterCosts = 0
    BY <2>2, SumEmpty, NextLedger
  <2> QED
    BY <2>1, <2>3, Frictions DEF Ledger
<1>2. TypeOK /\ OrderInv /\ TradeInv /\ Ledger /\ [Next]_vars => Ledger'
  BY LedgerKept
<1> QED
  BY <1>1, <1>2, TypeCorrect, OrderInvariant, TradeInvariant, PTL DEF Spec
=============================================================================
