------------------------------ MODULE Backtest ------------------------------
(***************************************************************************)
(* The session loop of BacktestEngine.run (backend/app/quant/backtest/     *)
(* engine.py).  Each session of the calendar runs three phases in a fixed  *)
(* order: outstanding orders meet the session's bars, open positions are   *)
(* marked, and the strategy evaluates every symbol that has a bar.         *)
(*                                                                         *)
(* The market is the environment: OpenSession appends the session's row of *)
(* each symbol, so that no phase can read a row of a later session.        *)
(*                                                                         *)
(* Money is exact.  A rate r is r / RateUnit; a fill price is in units of  *)
(* 1/RateUnit of a currency unit and cash, costs and equity in units of    *)
(* 1/RateUnit^2.                                                           *)
(***************************************************************************)
EXTENDS DualSma, FiniteSets

CONSTANTS
  Symbols,         \* ticker symbols; their order as numbers is the sort order
  History,         \* per symbol, its rows before the period, which the strategy sees
  MarketDays,      \* what session n may bring to symbol s (see MarketDay)
  MaxSessions,     \* bound: number of sessions of the longest calendar
  InitialCapital,  \* in units of 1/RateUnit^2
  RateUnit,
  CostRate,        \* transaction_cost_rate, over RateUnit
  SlippageRate,    \* slippage_rate, over RateUnit
  SizingMode,      \* position_size.mode
  SizingValue,     \* shares, currency units, or a fraction over RateUnit
  LotSize,
  Participation,   \* max_participation_of_bar_volume over RateUnit; 0 is None
  RejectPartialFills,
  MinBarVolume,    \* min_execution_bar_volume
  MaxConcurrent,   \* max_concurrent_positions
  EntryAt, ExitAt, \* entry_convention, exit_convention
  NoPosition       \* model value: the symbol is not in the positions dict

Convention == {"open", "close"}     \* next_open, next_close

\* What one session brings to one symbol: a bar, or no row at all.
Bar == [traded : {TRUE}, open : Nat, close : Nat, volume : Int, valid : BOOLEAN,
        status : ListingStatus]
Gap == [traded : {FALSE}, status : ListingStatus]
MarketDay == Bar \cup Gap

Position == [quantity : Nat \ {0}, entryDay : Nat, entryPrice : Nat,
             entryCosts : Nat, lastMark : Nat]

\* PositionSizing.__post_init__: a fraction above one would be leverage.
SizingAccepted ==
  /\ SizingMode \in {"fixed_shares", "fixed_cash_amount", "fixed_fraction_of_equity"}
  /\ SizingValue \in Nat \ {0}
  /\ SizingMode = "fixed_fraction_of_equity" => SizingValue <= RateUnit
  /\ LotSize \in Nat \ {0}

\* LiquidityConstraint.__post_init__
LiquidityAccepted ==
  /\ Participation \in 0..RateUnit
  /\ MinBarVolume \in Nat
  /\ RejectPartialFills \in BOOLEAN

\* BacktestConfig.__post_init__; the periods are BacktestReport's.
ConfigAccepted ==
  /\ {EntryAt, ExitAt} \subseteq Convention
  /\ {CostRate, SlippageRate} \subseteq 0..(RateUnit - 1)
  /\ MaxConcurrent \in Nat \ {0}
  /\ InitialCapital \in Nat \ {0}
  /\ Symbols # {}

\* _guard_universe: every symbol of the universe has a history.  Its rows before
\* the period are of no session of the calendar.
HistoriesSupplied ==
  /\ History \in [Symbols -> Seq(Row)]
  /\ \A s \in Symbols : \A i \in DOMAIN History[s] : History[s][i].day = 0
  /\ MarketDays \in [1..MaxSessions -> [Symbols -> SUBSET MarketDay]]

ASSUME Portfolio ==
  /\ Symbols \subseteq Nat /\ IsFiniteSet(Symbols)
  /\ MaxSessions \in Nat
  /\ HistoriesSupplied
  /\ NoPosition \notin Position

ASSUME Construction ==
  RateUnit \in Nat \ {0} /\ SizingAccepted /\ LiquidityAccepted /\ ConfigAccepted

VARIABLES
  session,       \* number of the current session, 0 before the first
  phase,         \* "execute", "mark", "decide" or "done"
  rows,          \* per symbol, its chronological rows so far, the history first
  listing,       \* per symbol, the listing status of the current session's day
  positions,     \* per symbol, its open position or NoPosition
  pending,       \* PendingOrders not yet processed or kept in this session
  queue,         \* orders phase 1 has still to process in this session
  toMark,        \* positions phase 2 has still to mark
  toDecide,      \* symbols phase 3 has still to evaluate
  cash,
  marketValue,   \* accumulator of phase 2
  equity,        \* previous_equity: equity at the last completed mark
  sessionNotional,  \* session_notional of the current session
  tradedNotional,   \* sum of the traded_notional curve
  fills, trades, events  \* what the run records; each entry carries its day

market  == <<session, rows, listing>>
work    == <<phase, queue, toMark, toDecide>>
book    == <<positions, pending, cash, sessionNotional, fills, trades, events>>
curve   == <<marketValue, equity, tradedNotional>>
vars    == <<market, work, book, curve>>

Side == {"buy", "sell"}
Order == [symbol : Symbols, side : Side, decided : Nat, earliest : Nat]
Fill == [symbol : Symbols, side : Side, day : Nat, rowDay : Nat, price : Nat,
         quantity : Nat \ {0}, reason : {"order", "halt"}]
Trade == [symbol : Symbols, entryDay : Nat, entryPrice : Nat, exitDay : Nat, quantity : Nat \ {0},
          gross : Int, costs : Nat, netPnl : Int, reason : {"order", "halt"}]
EventStatus == {"scheduled", "executed", "cancelled", "pending_exit"}

\* Why an order is not filled (see Blocker), and the other causes of an event.
Reason == {"not_due", "no_bar", "not_executable", "already_closed", "already_long",
           "max_concurrent", "zero_shares", "none"}
Detail == Reason \cup {"order", "halt", "superseded", "period_ended"}
Event == [day : Nat, symbol : Symbols, side : Side, status : EventStatus,
          detail : Detail, decided : Nat]

-----------------------------------------------------------------------------
(* Helpers *)

Held == {s \in Symbols : positions[s] # NoPosition}

\* session_index[symbol].get(day) is not None
TradesToday(s) == rows[s] # <<>> /\ rows[s][Len(rows[s])].day = session

Today(s) == rows[s][Len(rows[s])]

ConventionOf(side) == IF side = "buy" THEN EntryAt ELSE ExitAt

PriceFor(r, side) == IF ConventionOf(side) = "open" THEN r.open ELSE r.close

Executable(r, side) ==
  /\ r.valid
  /\ PriceFor(r, side) > 0
  /\ r.volume > 0
  /\ r.volume >= MinBarVolume

Smaller(a, b) == IF a <= b THEN a ELSE b

WholeLots(q) == q - (q % LotSize)

Target(price, reference) ==
  CASE SizingMode = "fixed_shares" -> SizingValue
    [] SizingMode = "fixed_cash_amount" -> (SizingValue * RateUnit) \div price
    [] SizingMode = "fixed_fraction_of_equity" ->
         (reference * SizingValue) \div (price * RateUnit * RateUnit)

\* Mutant: costs are forgotten when cash is divided by the price.
AffordableBeforeCosts(price) == cash \div (price * RateUnit)

Affordable(price) == cash \div (price * (RateUnit + CostRate + SlippageRate))

SizeOrder(price, reference) ==
  LET q == WholeLots(Smaller(Target(price, reference), Affordable(price)))
  IN  IF q > 0 THEN q ELSE 0

LiquidityCap(r, q) ==
  LET cap == WholeLots((r.volume * Participation) \div RateUnit)
  IN  CASE Participation = 0 \/ q <= cap -> q
        [] Participation # 0 /\ q > cap /\ RejectPartialFills -> 0
        [] OTHER -> IF cap > 0 THEN cap ELSE 0

EntryPrice(s) == PriceFor(Today(s), "buy") * (RateUnit + SlippageRate)

EntryQuantity(s) ==
  LiquidityCap(Today(s), SizeOrder(EntryPrice(s), equity))

\* Mutant: a size of zero is taken for an order.
NoSharesUnchecked(s) == FALSE

NoShares(s) == EntryQuantity(s) = 0

\* Mutant: one position too many.
SlotsFullOffByOne == Cardinality(Held) > MaxConcurrent

SlotsFull == Cardinality(Held) >= MaxConcurrent

CostOf(price, q) == price * q * CostRate

\* Mutant: the cost of an exit is recorded but not charged.
ProceedsBeforeCosts(price, q) == price * q * RateUnit

\* What an exit adds to cash.
Proceeds(price, q) == price * q * RateUnit - CostOf(price, q)

OrderEvent(s, side, status, detail, decided) ==
  [day |-> session, symbol |-> s, side |-> side, status |-> status,
   detail |-> detail, decided |-> decided]

\* Mutant: exits are not put first.
PrecedesBySymbol(o, p) == o.symbol <= p.symbol

\* sorted(pending, key=(not is_exit, symbol))
Precedes(o, p) ==
  \/ o.side = "sell" /\ p.side = "buy"
  \/ o.side = p.side /\ o.symbol <= p.symbol
-----------------------------------------------------------------------------
(* Initial state *)

Init ==
  /\ session = 0
  /\ phase = "decide"
  /\ rows = History
  /\ listing = [s \in Symbols |-> "unclassified"]
  /\ positions = [s \in Symbols |-> NoPosition]
  /\ pending = {} /\ queue = {} /\ toMark = {} /\ toDecide = {}
  /\ cash = InitialCapital /\ equity = InitialCapital /\ marketValue = 0
  /\ sessionNotional = 0 /\ tradedNotional = 0
  /\ fills = {} /\ trades = {} /\ events = {}

\* The next date of the calendar, the union of the symbols' trading dates: at
\* least one symbol has a row.  Every outstanding order is up for execution.
OpenSession ==
  /\ phase = "decide" /\ toDecide = {} /\ session < MaxSessions
  /\ \E days \in [Symbols -> UNION {MarketDays[session + 1][s] : s \in Symbols}] :
       /\ \A s \in Symbols : days[s] \in MarketDays[session + 1][s]
       /\ \E s \in Symbols : days[s].traded
       /\ rows' = [s \in Symbols |->
            IF days[s].traded
            THEN Append(rows[s],
                   [day |-> session + 1, open |-> days[s].open,
                    close |-> days[s].close, volume |-> days[s].volume,
                    valid |-> days[s].valid, status |-> days[s].status])
            ELSE rows[s]]
       /\ listing' = [s \in Symbols |-> days[s].status]
  /\ session' = session + 1
  /\ phase' = "execute"
  /\ queue' = pending /\ pending' = {}
  /\ sessionNotional' = 0
  /\ UNCHANGED <<toMark, toDecide, positions, cash, fills, trades, events, curve>>

-----------------------------------------------------------------------------
(* Phase 1: execute *)

\* Why o is not filled in this session, in the order the code asks.
Blocker(o) ==
  LET s == o.symbol IN
  IF o.earliest > session THEN "not_due"
  ELSE IF ~TradesToday(s) THEN "no_bar"
  ELSE IF ~Executable(Today(s), o.side) THEN "not_executable"
  ELSE IF o.side = "sell" THEN IF s \notin Held THEN "already_closed" ELSE "none"
  ELSE IF s \in Held THEN "already_long"
  ELSE IF SlotsFull THEN "max_concurrent"
  ELSE IF NoShares(s) THEN "zero_shares"
  ELSE "none"

\* Mutant: only a suspended symbol's exit waits.
StaysIfSuspended(o) ==
  Blocker(o) = "not_due" \/ (o.side = "sell" /\ Blocker(o) = "no_bar")

\* An exit that finds no executable bar waits for the next session.
Stays(o) ==
  \/ Blocker(o) = "not_due"
  \/ o.side = "sell" /\ Blocker(o) \in {"no_bar", "not_executable"}

KeepOrder(o) ==
  /\ Stays(o)
  /\ pending' = pending \cup {o}
  /\ events' = IF Blocker(o) = "not_due" THEN events
               ELSE events \cup {OrderEvent(o.symbol, o.side, "pending_exit",
                                            Blocker(o), o.decided)}
  /\ UNCHANGED <<positions, cash, sessionNotional, fills, trades>>

CancelOrder(o) ==
  /\ Blocker(o) # "none" /\ ~Stays(o)
  /\ events' = events \cup {OrderEvent(o.symbol, o.side, "cancelled",
                                       Blocker(o), o.decided)}
  /\ UNCHANGED <<positions, pending, cash, sessionNotional, fills, trades>>

FillEntry(o) ==
  LET s == o.symbol
      q == EntryQuantity(s)
      price == EntryPrice(s)
      cost == CostOf(price, q)
  IN
  /\ o.side = "buy" /\ Blocker(o) = "none"
  /\ cash' = cash - (price * q * RateUnit + cost)
  /\ sessionNotional' = sessionNotional + price * q
  /\ fills' = fills \cup {[symbol |-> s, side |-> "buy", day |-> session,
                           rowDay |-> session, price |-> price, quantity |-> q,
                           reason |-> "order"]}
  /\ positions' = [positions EXCEPT ![s] =
       [quantity |-> q, entryDay |-> session, entryPrice |-> price,
        entryCosts |-> cost, lastMark |-> price]]
  /\ events' = events \cup {OrderEvent(s, "buy", "executed", "order", o.decided)}
  /\ UNCHANGED <<pending, trades>>

\* The full exit of s at price, shared by ordinary and halt exits.
ClosePosition(s, price, rowDay, reason) ==
  LET p == positions[s]
      cost == CostOf(price, p.quantity)
      gross == (price - p.entryPrice) * p.quantity * RateUnit
  IN
  /\ cash' = cash + Proceeds(price, p.quantity)
  /\ sessionNotional' = sessionNotional + price * p.quantity
  /\ fills' = fills \cup {[symbol |-> s, side |-> "sell", day |-> session,
                           rowDay |-> rowDay, price |-> price,
                           quantity |-> p.quantity, reason |-> reason]}
  /\ trades' = trades \cup {[symbol |-> s, entryDay |-> p.entryDay,
                             entryPrice |-> p.entryPrice,
                             exitDay |-> session, quantity |-> p.quantity,
                             gross |-> gross, costs |-> p.entryCosts + cost,
                             netPnl |-> gross - cost, reason |-> reason]}
  /\ positions' = [positions EXCEPT ![s] = NoPosition]

FillExit(o) ==
  /\ o.side = "sell" /\ Blocker(o) = "none"
  /\ ClosePosition(o.symbol, PriceFor(Today(o.symbol), "sell") * (RateUnit - SlippageRate),
                   session, "order")
  /\ events' = events \cup {OrderEvent(o.symbol, "sell", "executed", "order", o.decided)}
  /\ UNCHANGED pending

ExecuteOrder ==
  /\ phase = "execute"
  /\ \E o \in queue :
       /\ \A p \in queue : Precedes(o, p)
       /\ queue' = queue \ {o}
       /\ KeepOrder(o) \/ CancelOrder(o) \/ FillEntry(o) \/ FillExit(o)
  /\ UNCHANGED <<market, phase, toMark, toDecide, curve>>

EndExecute ==
  /\ phase = "execute" /\ queue = {}
  /\ phase' = "mark"
  /\ toMark' = Held
  /\ marketValue' = 0
  /\ UNCHANGED <<market, queue, toDecide, book, equity, tradedNotional>>

-----------------------------------------------------------------------------
(* Phase 2: mark *)

MarkPosition ==
  /\ phase = "mark"
  /\ \E s \in toMark :
       LET p == positions[s]
           mark == IF TradesToday(s) /\ Today(s).close > 0
                   THEN Today(s).close * RateUnit ELSE p.lastMark
       IN  /\ positions' = [positions EXCEPT ![s].lastMark = mark]
           /\ marketValue' = marketValue + mark * p.quantity
           /\ toMark' = toMark \ {s}
  /\ UNCHANGED <<market, phase, queue, toDecide, pending, cash, sessionNotional,
                 fills, trades, events, equity, tradedNotional>>

EndMark ==
  /\ phase = "mark" /\ toMark = {}
  /\ phase' = "decide"
  /\ toDecide' = {s \in Symbols : TradesToday(s)}
  /\ equity' = cash + marketValue * RateUnit
  /\ tradedNotional' = tradedNotional + sessionNotional
  /\ UNCHANGED <<market, queue, toMark, book, marketValue>>

-----------------------------------------------------------------------------
(* Phase 3: decide *)

ExitPending(s) == \E o \in pending : o.symbol = s /\ o.side = "sell"

SignalOf(s) == Evaluate(rows[s], listing[s], s \in Held, ExitPending(s))

\* The first session an order decided now may execute in.
EarliestSession == session + 1

\* Mutant: an exit is due one session later than an entry.
ScheduleExitLater(s, side) ==
  /\ pending' = pending \cup {[symbol |-> s, side |-> side, decided |-> session,
       earliest |-> IF side = "sell" THEN EarliestSession + 1 ELSE EarliestSession]}
  /\ events' = events \cup {OrderEvent(s, side, "scheduled", "order", session)}
  /\ UNCHANGED <<positions, cash, sessionNotional, fills, trades>>

Schedule(s, side) ==
  /\ pending' = pending \cup {[symbol |-> s, side |-> side, decided |-> session,
                               earliest |-> EarliestSession]}
  /\ events' = events \cup {OrderEvent(s, side, "scheduled", "order", session)}
  /\ UNCHANGED <<positions, cash, sessionNotional, fills, trades>>

\* Mutant: a halt exit leaves the symbol's orders in place.
SupersededNone(s) == {}

Superseded(s) == {o \in pending : o.symbol = s}

\* Mutant: the superseded orders are not reported.
SupersededEventsMissing(s) == {}

SupersededEvents(s) ==
  {OrderEvent(s, o.side, "cancelled", "superseded", o.decided) : o \in Superseded(s)}

\* The close and the date of the last row with volume, or the entry price.
HaltRow(s) == LastPositiveVolume(rows[s])

HaltPrice(s) ==
  IF HaltRow(s) = 0 THEN positions[s].entryPrice
  ELSE rows[s][HaltRow(s)].close * RateUnit

HaltRowDay(s) == IF HaltRow(s) = 0 THEN session ELSE rows[s][HaltRow(s)].day

\* An immediate fill; whatever the symbol had outstanding is cancelled.
HaltExit(s) ==
  /\ ClosePosition(s, HaltPrice(s), HaltRowDay(s), "halt")
  /\ pending' = pending \ Superseded(s)
  /\ events' = events \cup SupersededEvents(s)
                      \cup {OrderEvent(s, "sell", "executed", "halt", session)}

DecideSymbol ==
  /\ phase = "decide"
  /\ \E s \in toDecide :
       /\ toDecide' = toDecide \ {s}
       /\ \/ SignalOf(s) = "halt_exit" /\ HaltExit(s)
          \/ SignalOf(s) = "entry" /\ Schedule(s, "buy")
          \/ SignalOf(s) = "exit" /\ Schedule(s, "sell")
          \/ SignalOf(s) \in {"none", "entry_blocked", "unavailable"} /\ UNCHANGED book
  /\ UNCHANGED <<market, phase, queue, toMark, curve>>

-----------------------------------------------------------------------------
(* End of the calendar *)

\* Outstanding orders are reported, and nothing is force-filled.
Finish ==
  /\ phase = "decide" /\ toDecide = {} /\ session > 0
  /\ phase' = "done"
  /\ events' = events \cup
       {OrderEvent(o.symbol, o.side,
                   IF o.side = "sell" THEN "pending_exit" ELSE "cancelled",
                   "period_ended", o.decided) : o \in pending}
  /\ UNCHANGED <<market, queue, toMark, toDecide, positions, pending, cash,
                 sessionNotional, fills, trades, curve>>

Next ==
  \/ OpenSession
  \/ ExecuteOrder \/ EndExecute
  \/ MarkPosition \/ EndMark
  \/ DecideSymbol
  \/ Finish

Spec == Init /\ [][Next]_vars

-----------------------------------------------------------------------------
(* Type invariant *)

\* Every variable has the shape of the Python object it stands for.
TypeOK ==
  /\ session \in 0..MaxSessions
  /\ phase \in {"execute", "mark", "decide", "done"}
  /\ rows \in [Symbols -> Seq(Row)]
  /\ listing \in [Symbols -> ListingStatus]
  /\ positions \in [Symbols -> Position \cup {NoPosition}]
  /\ pending \subseteq Order /\ queue \subseteq Order
  /\ toMark \subseteq IF phase = "mark" THEN Held ELSE {}
  /\ toDecide \subseteq Symbols
  /\ cash \in Int /\ marketValue \in Nat /\ equity \in Int
  /\ sessionNotional \in Nat /\ tradedNotional \in Nat
  /\ fills \subseteq Fill /\ trades \subseteq Trade /\ events \subseteq Event

-----------------------------------------------------------------------------
(* Orders *)

\* At every step a symbol has at most one outstanding order; an exit order has
\* a position to close, and an entry order is for a symbol that is flat and was
\* decided in the session that just ended.  So run()'s "position already closed"
\* and "already long" branches are never reached, and no entry is carried over.
OrderBook ==
  \A o \in pending \cup queue :
    /\ \A p \in pending \cup queue : p.symbol = o.symbol => p = o
    /\ o.side = "sell" => o.symbol \in Held
    /\ o.side = "buy" => /\ o.symbol \notin Held
                         /\ o.decided = IF o \in queue THEN session - 1 ELSE session

Outcomes(e) ==
  {f \in events : /\ f.symbol = e.symbol /\ f.side = e.side
                  /\ f.decided = e.decided /\ f.status \in {"executed", "cancelled"}}

\* The audit record accounts for every scheduled order exactly once: until the
\* run ends it is outstanding or it has one final event (executed or cancelled,
\* a supersession by a halt exit included), and at the end an outstanding exit is
\* reported as pending and an outstanding entry as cancelled.
AuditTrail ==
  \A e \in events : e.status = "scheduled" =>
    LET open == \E o \in pending \cup queue : o.symbol = e.symbol /\ o.decided = e.decided
        final == Cardinality(Outcomes(e))
    IN  IF phase # "done" THEN final = IF open THEN 0 ELSE 1
        ELSE IF open /\ e.side = "sell"
        THEN /\ final = 0
             /\ \E f \in events : /\ f.status = "pending_exit" /\ f.detail = "period_ended"
                                  /\ f.symbol = e.symbol /\ f.decided = e.decided
        ELSE final = 1

\* An exit is filled at the first executable bar after its decision, however many
\* suspended, blocked or zero-volume sessions lie between.
ExitAtFirstExecutableBar ==
  \A e \in events :
    e.side = "sell" /\ e.status = "executed" /\ e.detail = "order" =>
      \A i \in DOMAIN rows[e.symbol] :
        LET r == rows[e.symbol][i]
        IN  r.day > e.decided /\ r.day < e.day => ~Executable(r, "sell")

\* No step drops an exit order while its position stays open: it ends by a fill
\* or by a halt exit, and otherwise stays outstanding, also past the last session.
PendingExitPersists ==
  [][\A o \in pending \cup queue :
       o.side = "sell" => o \in (pending \cup queue)' \/ o.symbol \notin Held']_vars

-----------------------------------------------------------------------------
(* Halts *)

AfterDecide == phase = "decide" /\ toDecide = {}

\* Once a session is decided, no open position has gone HaltExitSessions rows
\* without volume, whatever the data quality, the warm-up and the crossover say.
NoFrozenPosition ==
  AfterDecide => \A s \in Held : ConsecutiveZeroVolume(rows[s]) < HaltExitSessions

\* A halt exit is priced at a row of the holding period that had volume, although
\* _last_positive_volume_fill searches the whole window: the entry bar is such a
\* row, so the search never passes it and the entry-price fallback is unused.
HaltFillWithinHolding ==
  \A t \in trades : t.reason = "halt" =>
    \E f \in fills :
      /\ f.symbol = t.symbol /\ f.side = "sell" /\ f.day = t.exitDay
      /\ f.rowDay \in t.entryDay..t.exitDay
      /\ \E i \in DOMAIN rows[t.symbol] :
           LET r == rows[t.symbol][i]
           IN  r.day = f.rowDay /\ r.volume > 0 /\ f.price = r.close * RateUnit

-----------------------------------------------------------------------------
(* Money *)

PnlAfterCosts == SumFunction([t \in trades |-> t.gross - t.costs])

Invested ==
  SumFunction([s \in Held |-> positions[s].entryPrice * positions[s].quantity * RateUnit
                                + positions[s].entryCosts])

\* Cash is what the trade list says it is: the initial capital, plus each closed
\* trade's gross profit less the costs it records, less what the open positions
\* cost to enter.
Ledger == cash = InitialCapital + PnlAfterCosts - Invested

\* Exact sizing never spends more than the cash at hand.
CashNonNegative == cash >= 0

-----------------------------------------------------------------------------
(* Portfolio *)

\* The configured number of positions is never exceeded.
CapacityRespected == Cardinality(Held) <= MaxConcurrent

\* An entry is refused for want of a free slot only in a session that ends its
\* order phase with every slot taken: exits come first, so a slot freed in the
\* session is there for that session's entries.
SlotsRefilled ==
  phase = "mark" /\ (\E e \in events : e.day = session /\ e.detail = "max_concurrent")
    => Cardinality(Held) = MaxConcurrent

-----------------------------------------------------------------------------
(* What the documents say and the code does not do *)

\* docs/strategy_catalogue.md, halt_exit_rule, rule 7: after a halt exit, an
\* entry needs HaltExitSessions consecutive rows with volume and active status.
ReentryAfterRecovery ==
  \A o \in pending :
    o.side = "buy" /\ (\E t \in trades : t.symbol = o.symbol /\ t.reason = "halt") =>
      LET w == rows[o.symbol]
      IN  \A i \in (Len(w) - HaltExitSessions + 1)..Len(w) :
            w[i].volume > 0 /\ w[i].status = "active"
=============================================================================
