---------------------------- MODULE ServerProperties ----------------------------
(***************************************************************************)
(* What the API process promises about its runs, stated over RunServer.    *)
(***************************************************************************)
EXTENDS RunServer

(***************************************************************************)
(* Configured concurrency is respected (FR-018): every permit is either in *)
(* the semaphore or held by exactly one live run, however runs fail or are *)
(* canceled, in the queue or outside it; and the registry and the queue    *)
(* name exactly the runs whose tasks exist and wait (_spawn_run).          *)
(***************************************************************************)
PermitsAccounted ==
  /\ permits \in 0..Capacity
  /\ permits + Cardinality(Holders) = Capacity
  /\ active = {r \in Runs : phase[r] \in Live}
  /\ ToSet(waiters) = {r \in Runs : phase[r] = "waiting"}
  /\ Cardinality(ToSet(waiters)) = Len(waiters)

(***************************************************************************)
(* A stream that says "done" has sent the whole log, and the run it        *)
(* watched is over: its row is in a final state, unless the process was    *)
(* lost between the score event and the row (stream_events).               *)
(***************************************************************************)
StreamDoneIsFinal ==
  \A r \in Watched :
    stream[r].state = "done" =>
      /\ stream[r].offset = Len(events[r])
      /\ row[r].status \in FinalStatus \/ phase[r] = "lost"

(***************************************************************************)
(* Whatever happens to the task that writes it, to its neighbours and to   *)
(* the process, the row of every run follows the lifecycle of the table.   *)
(***************************************************************************)
RowsFollowLifecycle ==
  /\ \A r \in Runs : Row(r)!Init
  /\ [][\A r \in Runs : [Row(r)!Next]_(row[r])]_row

(***************************************************************************)
(* Every submitted run gets its turn and ends: failures and cancellations  *)
(* of other runs, queued or running, never starve it (FR-018).             *)
(***************************************************************************)
QueuedRunsEnd ==
  \A r \in Runs : phase[r] = "waiting" ~> phase[r] \in Over \cup {"lost"}

-------------------------------------------------------------------------------
(***************************************************************************)
(* FR-017: cancellation preserves a partial auditable record: a run        *)
(* canceled through the API has at least one event.                        *)
(***************************************************************************)
CanceledRunsLeaveARecord ==
  \A r \in Runs : phase[r] = "canceled" => events[r] # <<>>

(***************************************************************************)
(* stream_events: "tail the run's event log until terminal": a stream open *)
(* when the run is over and its log terminal is done, not timed out.       *)
(***************************************************************************)
StreamsEndWithTheRun ==
  \A r \in Watched :
    (/\ stream[r].state = "open"
     /\ phase[r] = "ended"
     /\ Contains(events[r], "run.terminal"))
    ~> stream[r].state = "done"

===============================================================================
