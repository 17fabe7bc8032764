--------------------------- MODULE MCFinancialStore ---------------------------
(***************************************************************************)
(* Two statements of two quarters.  The provider of the first has no       *)
(* versions: it corrects the first quarter after the second was published, *)
(* loses a publication date, or has the first quarter only.  The provider  *)
(* of the second gives versions: it restates the first quarter beside its  *)
(* first version, or changes a figure under the version it had.            *)
(***************************************************************************)
EXTENDS FinancialStore, TLC

CONSTANTS income, cashflow

MCStatements == {income, cashflow}
MCVersioned  == {cashflow}

Reported(q, v, p, n) == [quarter |-> q, value |-> v, pub |-> p, version |-> n]

MCFeeds ==
  income :> {{Reported(1, 1, 1, 1), Reported(2, 4, 1, 1)},
             {Reported(1, 2, 2, 1), Reported(2, 4, 1, 1)},
             {Reported(1, 1, NoDate, 1)}}
  @@
  cashflow :> {{Reported(1, 1, 1, 1), Reported(1, 2, 2, 2), Reported(2, 4, 1, 1)},
               {Reported(1, 2, 1, 1), Reported(2, 4, 2, 1)}}

Symmetry == Permutations(Ingestors)
=============================================================================
