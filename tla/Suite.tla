--------------------------------- MODULE Suite ---------------------------------
(***************************************************************************)
(* Suites of runs in a bounded task pool (orchestration/suite.py, FR-018), *)
(* the rows they leave in the runs table, and the gate that may read the   *)
(* table at any moment from another process (cli/main.py cmd_compare,      *)
(* api/app.py compare).  What a run does between its rows is RunLoop's.    *)
(***************************************************************************)
EXTENDS Regression, SequencesExt

CONSTANTS
  Jobs,           \* the runs of all suites; a suite may hold a key twice
  Suites,
  SuiteOf,        \* [Jobs -> Suites]
  RevisionOf,     \* [Suites -> agent revisions]
  KeyOf,          \* [Jobs -> keys]
  MaxConcurrency, \* [Suites -> Nat]
  ListLimit,      \* list_runs's limit
  Outcomes        \* [Suites -> what its runs can come to: <<reason, violations>>]

ASSUME SuiteAssumption ==
  /\ IsFiniteSet(Jobs)
  /\ SuiteOf \in [Jobs -> Suites]
  /\ DOMAIN RevisionOf = Suites
  /\ DOMAIN KeyOf = Jobs
  /\ MaxConcurrency \in [Suites -> Nat \ {0}]
  /\ ListLimit \in Nat \ {0}
  /\ Outcomes \in [Suites -> SUBSET (TerminalReason \X Nat)]

VARIABLES
  state,          \* where the task of each job stands
  rows            \* the runs of each agent revision, in the order of created_at

vars == <<state, rows>>

Revisions == {RevisionOf[s] : s \in Suites}
Rev(j) == RevisionOf[SuiteOf[j]]

\* A result is a RunResult, or the record of an error.
Ended == {"returned", "error"}

\* The states in which a task holds a slot of its suite's pool.
InPool == {"open"}

JobsOf(s) == {j \in Jobs : SuiteOf[j] = s}

RowsOfJob(j) == {i \in DOMAIN rows[Rev(j)] : rows[Rev(j)][i].job = j}

Init ==
  /\ state = [j \in Jobs |-> "waiting"]
  /\ rows = [r \in Revisions |-> <<>>]

-------------------------------------------------------------------------------
(***************************************************************************)
(* One job.                                                                *)
(***************************************************************************)
Become(j, s) == state' = [state EXCEPT ![j] = s]

CanAcquire(j) ==
  /\ state[j] = "waiting"
  /\ Cardinality({i \in JobsOf(SuiteOf[j]) : state[i] \in InPool})
       < MaxConcurrency[SuiteOf[j]]

\* The pool takes the job, which builds its adapter and its renderer and
\* creates its row without giving way to another task.
CreateRun(j) ==
  /\ CanAcquire(j)
  /\ Become(j, "open")
  /\ rows' = [rows EXCEPT ![Rev(j)] =
                Append(@, [job |-> j, key |-> KeyOf[j], status |-> "queued",
                           reason |-> NoReason, scored |-> FALSE, violations |-> 0])]

\* build_adapter or renderer_factory raises: a result and no row.
BuildFails(j) ==
  /\ CanAcquire(j)
  /\ Become(j, "error")
  /\ UNCHANGED rows

\* The row of a job whose task runs, in a status and scored or not yet.
Open(j, status, scored) ==
  {i \in RowsOfJob(j) :
     /\ state[j] = "open"
     /\ rows[Rev(j)][i].status = status
     /\ rows[Rev(j)][i].scored = scored}

Start(j) ==
  \E i \in Open(j, "queued", FALSE) :
    /\ rows' = [rows EXCEPT ![Rev(j)][i] = [@ EXCEPT !.status = "running"]]
    /\ UNCHANGED state

\* The violations of the row are those of the scorecard saved into it.
SaveScorecard(j) ==
  \E i \in Open(j, "running", FALSE), o \in Outcomes[SuiteOf[j]] :
    /\ rows' = [rows EXCEPT ![Rev(j)][i] = [@ EXCEPT !.scored = TRUE, !.violations = o[2]]]
    /\ UNCHANGED state

\* The final set_run_status of a scored run.  Nothing cancels a suite's run.
Complete(j) ==
  \E i \in Open(j, "running", TRUE), o \in Outcomes[SuiteOf[j]] :
    /\ o[2] = rows[Rev(j)][i].violations
    /\ rows' = [rows EXCEPT ![Rev(j)][i] = [@ EXCEPT !.status = "completed", !.reason = o[1]]]
    /\ Become(j, "returned")

\* A run that fails for want of infrastructure is never scored.
Fail(j) ==
  \E i \in Open(j, "running", FALSE) :
    /\ rows' = [rows EXCEPT ![Rev(j)][i] =
                   [@ EXCEPT !.status = "failed", !.reason = "infrastructure_failure"]]
    /\ Become(j, "returned")

\* execute() raises: the error takes the place of the result, and the row
\* stays as it is.
Raise(j) ==
  /\ Open(j, "queued", FALSE) \cup Open(j, "running", FALSE) # {}
  /\ Become(j, "error")
  /\ UNCHANGED rows

Begin(j) == CreateRun(j) \/ BuildFails(j)

Advance(j) == Start(j) \/ SaveScorecard(j) \/ Complete(j) \/ Fail(j) \/ Raise(j)

Next == \E j \in Jobs : Begin(j) \/ Advance(j)

Spec == Init /\ [][Next]_vars

-------------------------------------------------------------------------------
(***************************************************************************)
(* What others read.                                                       *)
(***************************************************************************)
RowOf(j) == {rows[Rev(j)][i] : i \in RowsOfJob(j)}

\* Mutant: an error record is not counted.
SummaryOfResults(s) ==
  LET returned == {j \in JobsOf(s) : state[j] = "returned"}
  IN  [total |-> Cardinality(JobsOf(s)),
       succeeded |-> Cardinality({j \in returned : \E r \in RowOf(j) : r.reason = "success"}),
       failures |-> Cardinality({j \in returned : \E r \in RowOf(j) : r.status = "failed"})]

\* run_suite's summary, once every job has its result: a RunResult carries
\* the status and the reason its row was given.
Summary(s) ==
  LET returned == {j \in JobsOf(s) : state[j] = "returned"}
      failed == {j \in returned : \E r \in RowOf(j) : r.status = "failed"}
      errors == {j \in JobsOf(s) : state[j] = "error"}
  IN  [total |-> Cardinality(JobsOf(s)),
       succeeded |-> Cardinality({j \in returned : \E r \in RowOf(j) : r.reason = "success"}),
       failures |-> Cardinality(errors \cup failed)]

\* db.list_runs: the newest of the rows found, newest first.
ListRuns(found) == SubSeq(Reverse(found), 1, Min({Len(found), ListLimit}))

\* A query's filter on the suite, one row at a time.
Collect(found, r, s) == IF SuiteOf[r.job] = s THEN Append(found, r) ELSE found

RowsOfSuite(s) ==
  FoldLeft(LAMBDA found, r : Collect(found, r, s), <<>>, rows[RevisionOf[s]])

\* All the rows a label stands for, oldest first: those of the suite of that
\* name, or else those of the agent revision.
RowsFor(label) ==
  LET ofSuite == IF label \in Suites THEN RowsOfSuite(label) ELSE <<>>
  IN  CASE ofSuite # <<>> -> ofSuite
        [] ofSuite = <<>> /\ label \in Revisions -> rows[label]
        [] OTHER -> <<>>

RunSet(label) == ListRuns(RowsFor(label))

\* The gate's exit code: 20 when a run set is empty.
Gate(baseline, candidate) ==
  LET base == RunSet(baseline)
      cand == RunSet(candidate)
  IN  IF base = <<>> \/ cand = <<>> THEN 20
      ELSE EvaluateRegression(CompareRunSets(base, cand))

===============================================================================
