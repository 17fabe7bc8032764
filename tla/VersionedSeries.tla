---------------------------- MODULE VersionedSeries ---------------------------
(***************************************************************************)
(* What the store of financial observations promises for figures whose     *)
(* provider has no versions: every series is a list of contents that only  *)
(* grows at its end, and its newest entry is never repeated                *)
(* (fundamentals/DESIGN.md, "Retain every restatement as an append-only    *)
(* version").                                                              *)
(***************************************************************************)
EXTENDS Naturals, Sequences

CONSTANTS
  Series,       \* what is versioned
  Contents      \* what a version can hold

VARIABLE log    \* per series, the contents of versions 1, 2, ...

Init == log = [s \in Series |-> <<>>]

\* The next version, which differs from the one before it.
Restated(s, c) ==
  /\ log[s] # <<>> => log[s][Len(log[s])] # c
  /\ log' = [log EXCEPT ![s] = Append(@, c)]

Next == \E s \in Series, c \in Contents : Restated(s, c)

Spec == Init /\ [][Next]_log
=============================================================================
