-------------------------------- MODULE Replay --------------------------------
(***************************************************************************)
(* Deterministic replay (orchestration/replay.py): rebuild the initial     *)
(* state, reapply the recorded actions with the recorded seed and turns,   *)
(* and compare the state hashes.  Neither agent nor renderer is asked.     *)
(***************************************************************************)
EXTENDS Policy

ReplayStart ==
  [world |-> BuildInitialState, pending |-> Absent, turn |-> 0,
   match |-> TRUE, final |-> Absent]

\* Mutant: the denied action is dropped, its mark on the state forgotten.
DropDenied(acc, e) == [acc EXCEPT !.pending = Absent]

\* A denied action is not reapplied, but it marks the state.
ReplayDenied(acc, e) ==
  [acc EXCEPT !.world = RecordAttemptFlags(@, e.class), !.pending = Absent]

\* One iteration of the loop over the events; after a divergence replay_run
\* has returned and looks at nothing more.
ReplayStep(acc, e, seed) ==
  LET known == acc.pending # Absent
      r == Apply(acc.world, acc.pending, acc.turn, seed)
      denied == known /\ e.decision # "allow"
  IN  CASE ~acc.match -> acc
        [] acc.match /\ e.type = "run.started" ->
             [acc EXCEPT !.match = (e.hash = StateHash(acc.world))]
        [] acc.match /\ e.type = "agent.action" ->
             [acc EXCEPT !.pending = e.action, !.turn = e.turn]
        [] acc.match /\ e.type = "policy.decision" ->
             IF denied THEN ReplayDenied(acc, e) ELSE acc
        [] acc.match /\ e.type = "state.transition" ->
             IF known THEN [acc EXCEPT !.world = r.world, !.pending = Absent,
                                       !.match = (StateHash(r.world) = e.hash)]
             ELSE acc
        [] acc.match /\ e.type = "run.terminal" -> [acc EXCEPT !.final = e.hash]
        [] OTHER -> acc

\* Whether replaying the log reports a match.
ReplayMatches(log, seed) ==
  LET end == FoldLeft(LAMBDA acc, e : ReplayStep(acc, e, seed), ReplayStart, log)
  IN  /\ end.match
      /\ end.final = Absent \/ end.final = StateHash(end.world)

===============================================================================
