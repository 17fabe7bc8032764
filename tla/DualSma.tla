------------------------------- MODULE DualSma -------------------------------
(***************************************************************************)
(* The rules of the dual_sma_trend_crossover strategy as pure operators on *)
(* an as-of window: the sequence of one symbol's chronological daily rows  *)
(* ending at the row under evaluation, so that row t is w[Len(w)] and lag  *)
(* k is w[Len(w) - k].  There is no way to name a row after t, which is    *)
(* what AsOfWindow guarantees by refusing negative lags.                   *)
(*                                                                         *)
(* Source: backend/app/quant/strategies/dual_sma_trend_crossover.py and    *)
(* types.py (AsOfWindow).  A price that is not finite and positive is the  *)
(* number 0; prices are otherwise positive integers, and the averages are  *)
(* compared exactly (the six-decimal rounding of numerics.py never reorders*)
(* two averages of integers over periods this small).                      *)
(***************************************************************************)
EXTENDS Integers, Sequences, FiniteSetsExt

CONSTANTS
  FastPeriod,        \* fast_period
  SlowPeriod,        \* slow_period
  Lookback,          \* LIQUIDITY_LOOKBACK (20 in the code)
  MinAvgVolume,      \* min_avg_volume_20
  HaltExitSessions   \* halt_exit_sessions

\* validate_parameters, before any evaluation.
PeriodsAccepted == FastPeriod < SlowPeriod

ASSUME StrategyParameters ==
  /\ FastPeriod \in Nat \ {0}
  /\ SlowPeriod \in Nat
  /\ PeriodsAccepted
  /\ Lookback \in Nat \ {0}
  /\ MinAvgVolume \in Nat
  /\ HaltExitSessions \in Nat \ {0}

\* What the security master resolves for a symbol on a day: "active" is a
\* SecurityView the universe accepts, "halted" one whose trading_status is not
\* "active", "unclassified" no view at all (or an active one outside the
\* accepted exchanges and types), which blocks entries and halts nothing.
ListingStatus == {"active", "halted", "unclassified"}

\* One chronological row of SymbolHistory with the status of its day.
Row == [day : Nat, open : Nat, close : Nat, volume : Int, valid : BOOLEAN,
        status : ListingStatus]

-----------------------------------------------------------------------------
(* Windows *)

\* The indices of the count rows ending ending_lag rows before t.
Span(w, count, lag) == (Len(w) - lag - count + 1)..(Len(w) - lag)

SumOver(w, span, value(_)) == MapThenSumSet(LAMBDA i : value(w[i]), span)

CloseSum(w, count, lag) == SumOver(w, Span(w, count, lag), LAMBDA r : r.close)

\* max(slow_period + 1, LIQUIDITY_LOOKBACK)
WarmupBars == IF SlowPeriod + 1 >= Lookback THEN SlowPeriod + 1 ELSE Lookback

WarmupPass(w) == Len(w) >= WarmupBars

CloseWindowUsable(w, count, lag) ==
  /\ Len(w) >= count + lag
  /\ \A i \in Span(w, count, lag) : w[i].valid /\ w[i].close > 0

VolumeWindowUsable(w) ==
  /\ Len(w) >= Lookback
  /\ \A i \in Span(w, Lookback, 0) : w[i].valid /\ w[i].volume >= 0

SmaOk(w) ==
  \A count \in {FastPeriod, SlowPeriod} : \A lag \in {0, 1} :
    CloseWindowUsable(w, count, lag)

DataQualityPass(w) == SmaOk(w) /\ VolumeWindowUsable(w)

-----------------------------------------------------------------------------
(* Crossover: CloseSum/period compared without division. *)

FastMinusSlow(w, lag) ==
  CloseSum(w, FastPeriod, lag) * SlowPeriod - CloseSum(w, SlowPeriod, lag) * FastPeriod

Bullish(w) == SmaOk(w) /\ FastMinusSlow(w, 0) > 0 /\ FastMinusSlow(w, 1) <= 0

Bearish(w) == SmaOk(w) /\ FastMinusSlow(w, 0) < 0 /\ FastMinusSlow(w, 1) >= 0

-----------------------------------------------------------------------------
(* halt_exit_rule *)

\* The index of the newest row of w for which P holds, 0 when there is none.
NewestRow(w, P(_)) == Max({0} \cup {i \in DOMAIN w : P(w[i])})

ConsecutiveZeroVolume(w) == Len(w) - NewestRow(w, LAMBDA r : r.volume # 0)

HaltCondition(w, status) ==
  ConsecutiveZeroVolume(w) >= HaltExitSessions \/ status = "halted"

\* Mutant: the search begins at the oldest row.
FirstPositiveVolume(w) ==
  IF \E i \in DOMAIN w : w[i].volume > 0 THEN Min({i \in DOMAIN w : w[i].volume > 0}) ELSE 0

LastPositiveVolume(w) == NewestRow(w, LAMBDA r : r.volume > 0)

\* The newest row without positive volume, when fewer than HaltExitSessions
\* positive rows follow it, blocks re-entry if it ends a full halt.
RecoveryClear(w) ==
  LET k == NewestRow(w, LAMBDA r : r.volume <= 0)
  IN  \/ k = 0
      \/ Len(w) - k >= HaltExitSessions
      \/ ConsecutiveZeroVolume(SubSeq(w, 1, k)) < HaltExitSessions

-----------------------------------------------------------------------------
(* Entry gates and the signal classification *)

SignalBarVolumePass(w) == w[Len(w)].volume > 0

LiquidityPass(w) ==
  /\ VolumeWindowUsable(w)
  /\ SumOver(w, Span(w, Lookback, 0), LAMBDA r : r.volume) >= Lookback * MinAvgVolume

UniversePass(w, status) == status = "active" /\ RecoveryClear(w)

EntryEligible(w, status) ==
  /\ UniversePass(w, status)
  /\ SignalBarVolumePass(w)
  /\ LiquidityPass(w)
  /\ DataQualityPass(w)
  /\ WarmupPass(w)

Signals == {"unavailable", "entry", "entry_blocked", "exit", "halt_exit", "none"}

Classify(w, status, long, exitPending) ==
  CASE ~DataQualityPass(w) -> "unavailable"
    [] DataQualityPass(w) /\ ~long /\ Bullish(w) ->
         IF EntryEligible(w, status) THEN "entry" ELSE "entry_blocked"
    [] DataQualityPass(w) /\ long /\ Bearish(w) /\ ~exitPending -> "exit"
    [] OTHER -> "none"

\* Mutant: warm-up and data quality are tested before the halt.
EvaluateQualityFirst(w, status, long, exitPending) ==
  IF ~WarmupPass(w) \/ ~DataQualityPass(w) THEN "unavailable"
  ELSE IF long /\ HaltCondition(w, status) THEN "halt_exit"
  ELSE Classify(w, status, long, exitPending)

\* evaluate(): a halt exit while long precedes warm-up, data quality and every
\* other classification.
Evaluate(w, status, long, exitPending) ==
  IF long /\ HaltCondition(w, status) THEN "halt_exit"
  ELSE IF ~WarmupPass(w) THEN "unavailable"
  ELSE Classify(w, status, long, exitPending)
=============================================================================
