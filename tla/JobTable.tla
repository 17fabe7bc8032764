------------------------------- MODULE JobTable -------------------------------
(***************************************************************************)
(* What the screener's job table promises about a run identifier, whatever *)
(* callers and workers do: it is queued once, runs, ends, and only then    *)
(* can be queued again (the status vocabulary and the submit docstring of  *)
(* backend/app/quant/screener/jobs.py).                                    *)
(***************************************************************************)
CONSTANT Runs         \* run identifiers

VARIABLE state        \* what status() answers for each run

Active == {"queued", "running"}
Ended  == {"completed", "failed"}
Status == Active \cup Ended
Absent == "absent"    \* status() answers None

Init == state = [run \in Runs |-> Absent]

Queue(run) ==
  /\ state[run] \notin Active
  /\ state' = [state EXCEPT ![run] = "queued"]

Start(run) ==
  /\ state[run] = "queued"
  /\ state' = [state EXCEPT ![run] = "running"]

End(run) ==
  /\ state[run] = "running"
  /\ \E outcome \in Ended : state' = [state EXCEPT ![run] = outcome]

Next == \E run \in Runs : Queue(run) \/ Start(run) \/ End(run)

Spec == Init /\ [][Next]_state
=============================================================================
