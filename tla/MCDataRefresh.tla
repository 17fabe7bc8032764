---------------------------- MODULE MCDataRefresh -----------------------------
(***************************************************************************)
(* An instance of DataRefresh: two source files, each the only one of its  *)
(* category.                                                               *)
(***************************************************************************)
EXTENDS DataRefresh, TLC

CONSTANTS f1, f2, stock, index

MCCategoryOf == (f1 :> stock) @@ (f2 :> index)
=============================================================================
