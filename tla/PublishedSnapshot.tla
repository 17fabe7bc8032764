-------------------------- MODULE PublishedSnapshot ---------------------------
(***************************************************************************)
(* What the data refresh keeps of its promise to its readers: one snapshot *)
(* is served, it is replaced as a whole by another acceptable one or not   *)
(* at all, and a call has the whole bars of the snapshot that was served   *)
(* when the call took it (backend/app/data/HANDOFF.md, "Security           *)
(* implications", and docs/development_plan.md, section 3.4).              *)
(* Its as-of date is taken later, from the snapshot served then: that the  *)
(* two are of one snapshot is not promised here, because the code does not *)
(* keep it.                                                                *)
(***************************************************************************)
CONSTANTS
  Readers,      \* threads that read
  Acceptable,   \* bars that may be served
  Dates,        \* reference dates
  NoBars,       \* before the first snapshot, and of a reader without a call
  NoDate        \* likewise

VARIABLES
  served,       \* the bars of the snapshot that is served
  asOf,         \* its reference date
  seen          \* per reader, whether it has a call, the bars and the date of it

NoCall == [calls |-> FALSE, bars |-> NoBars, label |-> NoDate]

Init == served = NoBars /\ asOf = NoDate /\ seen = [rd \in Readers |-> NoCall]

Publish ==
  /\ served' \in Acceptable /\ asOf' \in Dates
  /\ UNCHANGED seen

Take(rd) ==
  /\ ~seen[rd].calls
  /\ seen' = [seen EXCEPT ![rd] = [calls |-> TRUE, bars |-> served, label |-> NoDate]]
  /\ UNCHANGED <<served, asOf>>

\* Once per call, and never for another's bars.
Label(rd) ==
  /\ seen[rd].calls /\ seen[rd].label = NoDate
  /\ seen' = [seen EXCEPT ![rd].label = asOf]
  /\ UNCHANGED <<served, asOf>>

\* A call returns, or the process of all of them ends.
Forget ==
  /\ \E gone \in SUBSET Readers :
       seen' = [rd \in Readers |-> IF rd \in gone THEN NoCall ELSE seen[rd]]
  /\ UNCHANGED <<served, asOf>>

Next == Publish \/ Forget \/ \E rd \in Readers : Take(rd) \/ Label(rd)

Spec == Init /\ [][Next]_<<served, asOf, seen>>
=============================================================================
