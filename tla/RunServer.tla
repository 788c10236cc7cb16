------------------------------- MODULE RunServer -------------------------------
(***************************************************************************)
(* The API process (api/app.py): background run tasks behind a semaphore,  *)
(* the active_runs registry, cancellation from request threads, the event  *)
(* stream, and the runs table the tasks leave behind.                      *)
(*                                                                         *)
(* Coroutines share one event loop: `loop` is the run whose task is on it  *)
(* between two awaits, and only threads act meanwhile.  What a run does    *)
(* between its turns is RunLoop's; here it is the rows and events that     *)
(* other parties see.                                                      *)
(***************************************************************************)
EXTENDS Domain, Integers, Sequences, FiniteSets, SequencesExt

CONSTANTS
  Runs,          \* run ids that will be submitted
  Watched,       \* those whose stream is opened
  Capacity,      \* execution.max_concurrent_runs
  MaxPolls,      \* polls of a stream before it times out
  MaxCrashes,    \* bound: times the process is lost
  Idle           \* nobody is on the event loop

ASSUME ServerAssumption ==
  /\ Capacity \in Nat \ {0}
  /\ Watched \subseteq Runs
  /\ Idle \notin Runs
  /\ MaxPolls \in Nat \ {0}

VARIABLES
  phase,         \* where each run's task stands
  active,        \* the keys of active_runs
  waiters,       \* tasks in the semaphore's queue, first come first served
  permits,       \* the semaphore's value
  loop,          \* the run on the event loop, or Idle
  canceling,     \* tasks with a cancellation not yet delivered
  row,           \* the runs table
  events,        \* each run's event log, by event type
  stream,        \* each watched run's stream: where it is, offset, terminal_seen, polls
  crashes

vars == <<phase, active, waiters, permits, loop, canceling, row, events, stream, crashes>>
store == <<row, events>>

Row(r) == INSTANCE RunLifecycle WITH row <- row[r]

\* Phases in which the task holds a permit of the semaphore.
Holding == {"building", "created", "running", "closing", "scored", "saved"}
Live == {"waiting"} \cup Holding
Over == {"ended", "raised", "canceled"}
Holders == {r \in Runs : phase[r] \in Holding}

ClosedStream == [state |-> "closed", offset |-> 0, seen |-> FALSE, polls |-> 0]

Init ==
  /\ phase = [r \in Runs |-> "none"]
  /\ active = {}
  /\ waiters = <<>>
  /\ permits = Capacity
  /\ loop = Idle
  /\ canceling = {}
  /\ row = [r \in Runs |-> [status |-> "none", reason |-> NoReason, scored |-> FALSE]]
  /\ events = [r \in Runs |-> <<>>]
  /\ stream = [r \in Watched |-> ClosedStream]
  /\ crashes = 0

-------------------------------------------------------------------------------
(***************************************************************************)
(* The life of a task.                                                     *)
(***************************************************************************)
Enter(r, p, holder) ==
  /\ phase' = [phase EXCEPT ![r] = p]
  /\ loop' = holder

\* A task that ends in the semaphore's queue takes its place away.
LeaveQueue(r) ==
  IF phase[r] = "waiting"
  THEN \E i \in DOMAIN waiters : waiters[i] = r /\ waiters' = RemoveAt(waiters, i)
  ELSE UNCHANGED waiters

\* Mutant: the permit is kept.
EndKeepsPermit(r, p) ==
  /\ Enter(r, p, Idle)
  /\ active' = active \ {r}
  /\ UNCHANGED permits
  /\ LeaveQueue(r)
  /\ canceling' = canceling \ {r}

\* Mutant: a permit goes back even if none was taken.
EndAlwaysReleases(r, p) ==
  /\ Enter(r, p, Idle)
  /\ active' = active \ {r}
  /\ permits' = permits + 1
  /\ LeaveQueue(r)
  /\ canceling' = canceling \ {r}

\* The task is over: the permit goes back, the registry forgets the run.  It
\* ended, raised an exception that _execute swallows, or was canceled.
EndTask(r, p) ==
  /\ p \in Over
  /\ Enter(r, p, Idle)
  /\ active' = active \ {r}
  /\ permits' = IF phase[r] \in Holding THEN permits + 1 ELSE permits
  /\ LeaveQueue(r)
  /\ canceling' = canceling \ {r}

Emit(r, type) == events' = [events EXCEPT ![r] = Append(@, type)]

SetRunStatus(r, s, reason) ==
  /\ s \in ValidTransitions[row[r].status]
  /\ row' = [row EXCEPT ![r].status = s, ![r].reason = reason]

\* _spawn_run: by the time a client knows the id, the task waits for a permit.
Spawn(r) ==
  /\ loop = Idle
  /\ phase[r] = "none"
  /\ Enter(r, "waiting", Idle)
  /\ active' = active \cup {r}
  /\ waiters' = Append(waiters, r)
  /\ UNCHANGED <<permits, canceling, row, events, stream, crashes>>

\* The first in the queue takes a permit and starts building the run.
Acquire(r) ==
  /\ loop = Idle
  /\ phase[r] = "waiting"
  /\ r \notin canceling
  /\ permits > 0
  /\ Head(waiters) = r
  /\ Enter(r, "building", r)
  /\ permits' = permits - 1
  /\ waiters' = Tail(waiters)
  /\ UNCHANGED <<active, canceling, row, events, stream, crashes>>

\* execute_run: the trajectory, the adapter or the renderer cannot be built.
BuildFails(r) ==
  /\ phase[r] = "building"
  /\ EndTask(r, "raised")
  /\ UNCHANGED <<row, events, stream, crashes>>

CreateRow(r) ==
  /\ phase[r] = "building"
  /\ Enter(r, "created", r)
  /\ row' = [row EXCEPT ![r].status = "queued"]
  /\ Emit(r, "run.created")
  /\ UNCHANGED <<active, waiters, permits, canceling, stream, crashes>>

\* build_initial_state raises before the loop's exception handler is entered.
InitialStateFails(r) ==
  /\ phase[r] = "created"
  /\ EndTask(r, "raised")
  /\ UNCHANGED <<row, events, stream, crashes>>

StartRow(r) ==
  /\ phase[r] = "created"
  /\ Enter(r, "running", Idle)
  /\ SetRunStatus(r, "running", NoReason)
  /\ Emit(r, "run.started")
  /\ UNCHANGED <<active, waiters, permits, canceling, stream, crashes>>

\* An exception that execute() does not turn into a failed run.
RunRaises(r) ==
  /\ loop = Idle
  /\ phase[r] = "running"
  /\ r \notin canceling
  /\ EndTask(r, "raised")
  /\ UNCHANGED <<row, events, stream, crashes>>

\* The loop of execute() is over; from here to the end there is no await.
WriteTerminal(r) ==
  /\ loop = Idle
  /\ phase[r] = "running"
  /\ r \notin canceling
  /\ Enter(r, "closing", r)
  /\ Emit(r, "run.terminal")
  /\ UNCHANGED <<active, waiters, permits, canceling, row, stream, crashes>>

\* A run that did not fail is scored, then completed.
WriteScore(r) ==
  /\ phase[r] = "closing"
  /\ Enter(r, "scored", r)
  /\ Emit(r, "score.completed")
  /\ UNCHANGED <<active, waiters, permits, canceling, row, stream, crashes>>

SaveScorecard(r) ==
  /\ phase[r] = "scored"
  /\ Enter(r, "saved", r)
  /\ row' = [row EXCEPT ![r].scored = TRUE]
  /\ UNCHANGED <<active, waiters, permits, canceling, events, stream, crashes>>

FinishRow(r, s, reason) ==
  /\ SetRunStatus(r, s, reason)
  /\ EndTask(r, "ended")
  /\ UNCHANGED <<events, stream, crashes>>

Complete(r) ==
  /\ phase[r] = "saved"
  /\ \E reason \in {"success", "submitted_unsolved"} : FinishRow(r, "completed", reason)

\* Mutant: a run that failed is entered as completed.
FailAsCompleted(r) ==
  /\ phase[r] = "closing"
  /\ FinishRow(r, "completed", "infrastructure_failure")

Fail(r) ==
  /\ phase[r] = "closing"
  /\ FinishRow(r, "failed", "infrastructure_failure")

-------------------------------------------------------------------------------
\* cancel_run, on a request thread: the run must be registered.
CancelRun(r) ==
  /\ r \in active
  /\ r \notin canceling
  /\ canceling' = canceling \cup {r}
  /\ UNCHANGED <<phase, active, waiters, permits, loop, row, events, stream, crashes>>

\* CancelledError at the task's next await; nothing in execute() catches it.
DeliverCancel(r) ==
  /\ loop = Idle
  /\ r \in canceling
  /\ phase[r] \in {"waiting", "running"}
  /\ EndTask(r, "canceled")
  /\ UNCHANGED <<row, events, stream, crashes>>

-------------------------------------------------------------------------------
(***************************************************************************)
(* stream_events: a generator on the event loop that tails the log.  Every *)
(* line it sends is a point where other tasks run, so the registry is read *)
(* later than the log.                                                     *)
(***************************************************************************)
OpenStream(r) ==
  /\ loop = Idle
  /\ stream[r].state = "closed"
  /\ phase[r] # "none"
  /\ stream' = [stream EXCEPT ![r].state = "open"]
  /\ UNCHANGED <<phase, active, waiters, permits, loop, canceling, row, events, crashes>>

\* Everything new is sent; only a score sets terminal_seen.
SendNew(r) ==
  LET s == stream[r]
      new == SubSeq(events[r], s.offset + 1, Len(events[r]))
  IN  /\ loop = Idle
      /\ s.state = "open"
      /\ stream' = [stream EXCEPT ![r].state = "sent",
                                  ![r].offset = Len(events[r]),
                                  ![r].seen = @ \/ Contains(new, "score.completed")]
      /\ UNCHANGED <<phase, active, waiters, permits, loop, canceling, row, events, crashes>>

\* Mutant: done as soon as the run is not registered.
CheckRegistryOnly(r) ==
  LET s == stream[r]
  IN  /\ loop = Idle
      /\ s.state = "sent"
      /\ stream' = [stream EXCEPT ![r].state = IF r \in active THEN "open" ELSE "done"]
      /\ UNCHANGED <<phase, active, waiters, permits, loop, canceling, row, events, crashes>>

\* Done when a score was seen and the run is not registered (any more).
CheckDone(r) ==
  LET s == stream[r]
      done == s.seen /\ r \notin active
      state == IF done THEN "done"
               ELSE IF s.polls + 1 = MaxPolls THEN "timeout" ELSE "open"
  IN  /\ loop = Idle
      /\ s.state = "sent"
      /\ stream' = [stream EXCEPT ![r].state = state, ![r].polls = @ + 1]
      /\ UNCHANGED <<phase, active, waiters, permits, loop, canceling, row, events, crashes>>

Poll(r) == SendNew(r) \/ CheckDone(r)

-------------------------------------------------------------------------------
\* The process is lost and started again: tasks, registry, semaphore and
\* streams are gone, the table and the logs remain.
Crash ==
  /\ crashes < MaxCrashes
  /\ crashes' = crashes + 1
  /\ phase' = [r \in Runs |-> IF phase[r] \in Live THEN "lost" ELSE phase[r]]
  /\ active' = {}
  /\ waiters' = <<>>
  /\ permits' = Capacity
  /\ loop' = Idle
  /\ canceling' = {}
  /\ stream' = [r \in Watched |-> ClosedStream]
  /\ UNCHANGED store

\* What the event loop does of itself with the task of r.
TaskStep(r) ==
  \/ Acquire(r) \/ CreateRow(r) \/ BuildFails(r)
  \/ StartRow(r) \/ InitialStateFails(r)
  \/ RunRaises(r) \/ WriteTerminal(r) \/ WriteScore(r) \/ SaveScorecard(r)
  \/ Complete(r) \/ Fail(r)
  \/ DeliverCancel(r)

Next ==
  \/ \E r \in Runs : Spawn(r) \/ TaskStep(r) \/ CancelRun(r)
  \/ \E r \in Watched : OpenStream(r) \/ Poll(r)
  \/ Crash

Spec == Init /\ [][Next]_vars

\* The loop runs every ready task and every due timer; a run in its loop ends
\* (RunLoop's RunEnds).  Nobody is obliged to submit, cancel or watch.
FairSpec ==
  /\ Spec
  /\ \A r \in Runs : SF_vars(TaskStep(r))
  /\ \A r \in Watched : SF_vars(Poll(r))

===============================================================================
