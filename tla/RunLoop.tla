-------------------------------- MODULE RunLoop --------------------------------
(***************************************************************************)
(* RunOrchestrator.execute (orchestration/runner.py): one run of one agent *)
(* against one scenario, with its event log, its row in the runs table and *)
(* its limit tracker.  An action is the code between two points where the  *)
(* run can be suspended, fail, or be lost with the process; a crash of the *)
(* process is a behaviour that stops between two actions.                  *)
(***************************************************************************)
EXTENDS Replay

CONSTANTS
  Seeds,             \* perturbation draws a run may have been given
  TokenReadings,     \* what adapter.usage() may report
  CostReadings,
  ClockReadings,     \* {FALSE}, or BOOLEAN if the wall-clock limit can pass
  SnapshotInterval   \* SNAPSHOT_INTERVAL

ASSUME RunAssumption ==
  /\ TokenReadings \subseteq Nat
  /\ CostReadings \subseteq Nat
  /\ ClockReadings \subseteq BOOLEAN
  /\ SnapshotInterval \in Nat \ {0}

VARIABLES
  pc,                \* where execute() stands
  seed,              \* manifest.seed, frozen before the run
  log,               \* events.jsonl
  db,                \* the row of the runs table
  world,             \* AuthoritativeState
  tracker,           \* LimitTracker
  timeUp,            \* elapsed_seconds() has reached max_wall_clock_seconds
  turn,
  cur,               \* this turn: the action, its class and decision, its result
  terminal, status,  \* the local variables of execute()
  cancelRequested    \* _cancel_requested

vars == <<pc, seed, log, db, world, tracker, timeUp, turn, cur,
          terminal, status, cancelRequested>>

Row == INSTANCE RunLifecycle WITH row <- db

IdleTurn ==
  [action |-> Absent, class |-> "read_only", decision |-> "allow",
   ok |-> FALSE, hint |-> "none"]

Init ==
  /\ pc = "new"
  /\ seed \in Seeds
  /\ log = <<>>
  /\ db = Row!NoRow
  /\ world = BuildInitialState
  /\ tracker = NewTracker
  /\ timeUp = FALSE
  /\ turn = 0
  /\ cur = IdleTurn
  /\ terminal = NoReason
  /\ status = "completed"
  /\ cancelRequested = FALSE

-------------------------------------------------------------------------------
(***************************************************************************)
(* Events, with the part of their payload that anything later reads.       *)
(***************************************************************************)
Created == [type |-> "run.created"]
Started == [type |-> "run.started", hash |-> StateHash(world)]
Proposed(a) == [type |-> "agent.action", turn |-> turn, action |-> a]
Decided(d, c) == [type |-> "policy.decision", turn |-> turn, decision |-> d, class |-> c]
Asked == [type |-> "approval.requested", turn |-> turn]
Denied == [type |-> "approval.resolved", turn |-> turn]
Perturbed == [type |-> "perturbation.applied", turn |-> turn]
Transition(r) ==
  [type |-> "state.transition", turn |-> turn, ok |-> r.ok, hash |-> StateHash(r.world)]
Observed(s) == [type |-> "observation.rendered", turn |-> turn, status |-> s]
Fallback == [type |-> "renderer.fallback", turn |-> turn]
Snapshot == [type |-> "state.snapshot", turn |-> turn]
LimitHit(reason) == [type |-> "run.limit", limit |-> reason]
Error(kind) == [type |-> "run.error", turn |-> turn, kind |-> kind]
Terminal ==
  [type |-> "run.terminal", reason |-> terminal, hash |-> StateHash(world),
   actions |-> tracker.actions, invalid |-> tracker.invalid]
ScoreCompleted == [type |-> "score.completed"]

When(b, e) == IF b THEN <<e>> ELSE <<>>

-------------------------------------------------------------------------------
(***************************************************************************)
(* Ends of an iteration: go on or leave the loop, with the limits checked, *)
(* and the infrastructure failure that every AgentDebuggerError becomes.   *)
(***************************************************************************)
Resume(reason) ==
  /\ terminal' = reason
  /\ pc' = IF reason = NoReason THEN "loop" ELSE "final"

\* Mutant: the event and the reason come from two checks, and the clock may
\* pass its limit between them.
CheckLimitsTwice(t, events) ==
  \E expired \in ClockReadings :
    LET first == Breach(t, timeUp)
    IN  /\ timeUp' = (timeUp \/ expired)
        /\ log' = log \o events \o When(first # NoReason, LimitHit(first))
        /\ Resume(Breach(t, timeUp \/ expired))
        /\ UNCHANGED status

\* The clock is read once per check and only ever passes its limit.
CheckLimits(t, events) ==
  \E expired \in ClockReadings :
    LET breach == Breach(t, timeUp \/ expired)
    IN  /\ timeUp' = (timeUp \/ expired)
        /\ log' = log \o events \o When(breach # NoReason, LimitHit(breach))
        /\ Resume(breach)
        /\ UNCHANGED status

\* Mutant: the reason is set and the status is not.
FailureKeepsStatus(events) ==
  /\ log' = log \o events \o <<Error("infrastructure")>>
  /\ terminal' = "infrastructure_failure"
  /\ pc' = "final"
  /\ UNCHANGED <<status, timeUp>>

InfrastructureFailure(events) ==
  /\ log' = log \o events \o <<Error("infrastructure")>>
  /\ terminal' = "infrastructure_failure"
  /\ status' = "failed"
  /\ pc' = "final"
  /\ UNCHANGED timeUp

-------------------------------------------------------------------------------
\* db.set_run_status: moves outside the lifecycle are refused with an error
\* that nothing in execute() catches.
SetRunStatus(s, reason) ==
  /\ s = db.status \/ s \in ValidTransitions[db.status]
  /\ db' = IF reason = NoReason THEN [db EXCEPT !.status = s]
           ELSE [db EXCEPT !.status = s, !.reason = reason]

\* The manifest, the row and the first event.
CreateRun ==
  /\ pc = "new"
  /\ pc' = "created"
  /\ db' = [db EXCEPT !.status = "queued"]
  /\ log' = Append(log, Created)
  /\ UNCHANGED <<seed, world, tracker, timeUp, turn, cur, terminal, status, cancelRequested>>

\* The initial state is built, the row moves to running.
StartRun ==
  /\ pc = "created"
  /\ pc' = "starting"
  /\ SetRunStatus("running", NoReason)
  /\ log' = Append(log, Started)
  /\ UNCHANGED <<seed, world, tracker, timeUp, turn, cur, terminal, status, cancelRequested>>

\* adapter.start returns or raises.
StartAdapter ==
  /\ pc = "starting"
  /\ \/ /\ pc' = "loop"
        /\ UNCHANGED <<log, terminal, status, timeUp>>
     \/ InfrastructureFailure(<<>>)
  /\ UNCHANGED <<seed, db, world, tracker, turn, cur, cancelRequested>>

\* RunOrchestrator.cancel(), from any other task.
RequestCancel ==
  /\ pc \notin {"new", "done", "aborted"}
  /\ ~cancelRequested
  /\ cancelRequested' = TRUE
  /\ UNCHANGED <<pc, seed, log, db, world, tracker, timeUp, turn, cur, terminal, status>>

\* Mutant: the status is set and the loop is not left.
CancelStaysInLoop ==
  /\ pc = "loop"
  /\ cancelRequested
  /\ status' = "canceled"
  /\ UNCHANGED <<pc, seed, log, db, world, tracker, timeUp, turn, cur, terminal, cancelRequested>>

\* The flag is looked at between turns only; adapter.cancel may itself raise.
HonorCancel ==
  /\ pc = "loop"
  /\ cancelRequested
  /\ \/ /\ terminal' = "canceled"
        /\ status' = "canceled"
        /\ pc' = "final"
        /\ UNCHANGED <<log, timeUp>>
     \/ InfrastructureFailure(<<>>)
  /\ UNCHANGED <<seed, db, world, tracker, turn, cur, cancelRequested>>

BeginTurn ==
  /\ pc = "loop"
  /\ ~cancelRequested
  /\ turn' = turn + 1
  /\ pc' = "awaiting"
  /\ UNCHANGED <<seed, log, db, world, tracker, timeUp, cur, terminal, status, cancelRequested>>

\* next_action times out or raises a dependency error.
AgentFails ==
  /\ pc = "awaiting"
  /\ InfrastructureFailure(<<>>)
  /\ UNCHANGED <<seed, db, world, tracker, turn, cur, cancelRequested>>

\* The usage read after the agent's answer replaces the last reading.
ReadUsage(tokens, cost) == [tracker EXCEPT !.tokens = tokens, !.cost = cost]

\* Mutant: the agent may try again within the turn.
RetryMalformed(tokens, cost) ==
  /\ pc = "awaiting"
  /\ tracker' = RecordInvalid(ReadUsage(tokens, cost))
  /\ CheckLimits(tracker', <<Error("protocol")>>)
  /\ turn' = turn - 1
  /\ UNCHANGED <<seed, db, world, cur, cancelRequested>>

\* An answer that is not an action: recorded, reported back, and counted.
AgentMalformed(tokens, cost) ==
  /\ pc = "awaiting"
  /\ tracker' = RecordInvalid(ReadUsage(tokens, cost))
  /\ CheckLimits(tracker', <<Error("protocol")>>)
  /\ UNCHANGED <<seed, db, world, turn, cur, cancelRequested>>

AgentProposes(a, tokens, cost) ==
  /\ pc = "awaiting"
  /\ pc' = "gated"
  /\ tracker' = RecordAction(ReadUsage(tokens, cost), a)
  /\ cur' = [IdleTurn EXCEPT !.action = a, !.class = ClassifyAction(a),
                             !.decision = Evaluate(a)]
  /\ log' = log \o <<Proposed(a), Decided(Evaluate(a), ClassifyAction(a))>>
  /\ UNCHANGED <<seed, db, world, timeUp, turn, terminal, status, cancelRequested>>

\* A denied attempt never reaches the engine but marks the state.
DenyAction ==
  /\ pc = "gated"
  /\ cur.decision # "allow"
  /\ LET events == When(cur.decision = "require_approval", Asked)
                   \o When(cur.decision = "require_approval", Denied)
                   \o <<Observed("blocked")>>
     IN  /\ world' = RecordAttemptFlags(world, cur.class)
         /\ CASE FailureSatisfied(world') = "raise" -> InfrastructureFailure(events)
              [] FailureSatisfied(world') = "yes" ->
                   /\ log' = log \o events
                   /\ Resume("failure_predicate")
                   /\ UNCHANGED <<status, timeUp>>
              [] OTHER -> CheckLimits(tracker, events)
  /\ UNCHANGED <<seed, db, tracker, turn, cur, cancelRequested>>

\* The engine applies the action.  An exception out of a handler leaves the
\* state as the handler left it, and no transition is recorded.
ApplyAction ==
  /\ pc = "gated"
  /\ cur.decision = "allow"
  /\ \E r \in {Apply(world, cur.action, turn, seed)} :
         /\ world' = r.world
         /\ \/ /\ r.raised
               /\ InfrastructureFailure(<<>>)
               /\ UNCHANGED <<tracker, cur>>
            \/ /\ ~r.raised
               /\ pc' = "rendering"
               /\ tracker' = IF r.ok THEN tracker ELSE RecordInvalid(tracker)
               /\ cur' = [cur EXCEPT !.ok = r.ok, !.hint = r.hint]
               /\ log' = log \o When(r.perturbed, Perturbed) \o <<Transition(r)>>
               /\ UNCHANGED <<terminal, status, timeUp>>
  /\ UNCHANGED <<seed, db, turn, cancelRequested>>

RenderFails ==
  /\ pc = "rendering"
  /\ InfrastructureFailure(<<>>)
  /\ UNCHANGED <<seed, db, world, tracker, turn, cur, cancelRequested>>

\* The observation, the periodic snapshot, and the terminal detection.
Rendered(fellBack) ==
  /\ pc = "rendering"
  /\ LET events == When(fellBack, Fallback)
                   \o <<Observed(IF cur.ok THEN "ok" ELSE "error")>>
                   \o When(turn % SnapshotInterval = 0, Snapshot)
         failure == FailureSatisfied(world)
         success == SuccessSatisfied(world)
         EndWith(reason) == /\ log' = log \o events
                            /\ Resume(reason)
                            /\ UNCHANGED <<status, timeUp>>
     IN  CASE cur.hint = "give_up" -> EndWith("gave_up")
           [] cur.hint # "give_up" /\ failure = "yes" -> EndWith("failure_predicate")
           [] cur.hint # "give_up" /\ failure = "raise" -> InfrastructureFailure(events)
           [] OTHER ->
                CASE success = "yes" -> EndWith("success")
                  [] success = "raise" -> InfrastructureFailure(events)
                  [] success \notin {"yes", "raise"} /\ cur.hint = "submit" ->
                       EndWith("submitted_unsolved")
                  [] OTHER -> CheckLimits(tracker, events)
  /\ UNCHANGED <<seed, db, world, tracker, turn, cur, cancelRequested>>

-------------------------------------------------------------------------------
\* Mutant: whatever ended is scored.
FreezeThenScore ==
  /\ pc = "final"
  /\ log' = Append(log, Terminal)
  /\ pc' = "scoring"
  /\ UNCHANGED <<seed, db, world, tracker, timeUp, turn, cur, terminal, status, cancelRequested>>

\* The final state is frozen and the terminal event written.
Freeze ==
  /\ pc = "final"
  /\ log' = Append(log, Terminal)
  /\ pc' = IF status # "failed" /\ terminal # "infrastructure_failure"
           THEN "scoring" ELSE "persisting"
  /\ UNCHANGED <<seed, db, world, tracker, timeUp, turn, cur, terminal, status, cancelRequested>>

\* Mutant: the scorecard is saved before its event is written.
ScoreRowFirst ==
  /\ pc = "scoring"
  /\ db' = [db EXCEPT !.scored = TRUE]
  /\ pc' = "scored"
  /\ UNCHANGED <<seed, log, world, tracker, timeUp, turn, cur, terminal, status, cancelRequested>>

Score ==
  /\ pc = "scoring"
  /\ log' = Append(log, ScoreCompleted)
  /\ pc' = "scored"
  /\ UNCHANGED <<seed, db, world, tracker, timeUp, turn, cur, terminal, status, cancelRequested>>

SaveScorecard ==
  /\ pc = "scored"
  /\ db' = [db EXCEPT !.scored = TRUE]
  /\ pc' = "persisting"
  /\ UNCHANGED <<seed, log, world, tracker, timeUp, turn, cur, terminal, status, cancelRequested>>

\* Mutant: the terminal event is written again with the row.
PersistAnnounces ==
  /\ pc = "persisting"
  /\ SetRunStatus(status, terminal)
  /\ log' = Append(log, Terminal)
  /\ pc' = "done"
  /\ UNCHANGED <<seed, world, tracker, timeUp, turn, cur, terminal, status, cancelRequested>>

Persist ==
  /\ pc = "persisting"
  /\ SetRunStatus(status, terminal)
  /\ pc' = "done"
  /\ UNCHANGED <<seed, log, world, tracker, timeUp, turn, cur, terminal, status, cancelRequested>>

\* Any other exception, and the cancellation of the task at an await, leaves
\* execute() with everything as it stands.
Escape ==
  /\ pc \notin {"new", "done", "aborted"}
  /\ pc' = "aborted"
  /\ UNCHANGED <<seed, log, db, world, tracker, timeUp, turn, cur, terminal, status, cancelRequested>>

Ended ==
  /\ pc \in {"done", "aborted"}
  /\ UNCHANGED vars

\* The steps the orchestrator takes when nothing outside prevents it.
Progress ==
  \/ CreateRun \/ StartRun \/ StartAdapter
  \/ HonorCancel \/ BeginTurn
  \/ AgentFails
  \/ \E tokens \in TokenReadings, cost \in CostReadings :
       \/ AgentMalformed(tokens, cost)
       \/ \E a \in Actions : AgentProposes(a, tokens, cost)
  \/ DenyAction \/ ApplyAction
  \/ RenderFails \/ \E fellBack \in BOOLEAN : Rendered(fellBack)
  \/ Freeze \/ Score \/ SaveScorecard \/ Persist

Next == Progress \/ RequestCancel \/ Escape \/ Ended

Spec == Init /\ [][Next]_vars

\* asyncio runs a ready task; next_action is under a timeout, and the model
\* clients behind start and render carry timeouts of their own.
FairSpec == Spec /\ WF_vars(Progress)

===============================================================================
