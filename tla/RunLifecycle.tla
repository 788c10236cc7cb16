----------------------------- MODULE RunLifecycle -----------------------------
(***************************************************************************)
(* What the runs table promises about one run (persistence/db.py, FR-015), *)
(* whoever writes it: a row is created queued, moves only along the        *)
(* lifecycle, is scored at most once and only while it is running, and     *)
(* ends with a terminal reason that fits its final status.                 *)
(***************************************************************************)
EXTENDS Domain

VARIABLE row    \* [status, reason, scored]; status "none" before the insert

NoRow == [status |-> "none", reason |-> NoReason, scored |-> FALSE]

\* The reasons a run may end with in each final status.
ReasonsFor ==
  [completed |-> TerminalReason \ {"canceled", "infrastructure_failure"},
   canceled |-> {"canceled"},
   failed |-> {"infrastructure_failure"}]

Init == row = NoRow

Create ==
  /\ row = NoRow
  /\ row' = [row EXCEPT !.status = "queued"]

Start ==
  /\ "running" \in ValidTransitions[row.status]
  /\ row' = [row EXCEPT !.status = "running"]

SaveScorecard ==
  /\ row.status = "running"
  /\ ~row.scored
  /\ row' = [row EXCEPT !.scored = TRUE]

\* A run is completed or canceled with its score, and failed without one.
End(s) ==
  /\ s \in ValidTransitions[row.status]
  /\ row.scored = (s # "failed")
  /\ \E r \in ReasonsFor[s] : row' = [row EXCEPT !.status = s, !.reason = r]

Next ==
  \/ Create
  \/ row.status \in RunStatus /\ (Start \/ SaveScorecard)
  \/ row.status \in RunStatus /\ \E s \in DOMAIN ReasonsFor : End(s)

Spec == Init /\ [][Next]_row

===============================================================================
