---------------------------- MODULE SuiteProperties ----------------------------
(***************************************************************************)
(* What suites and the gate over them promise, stated over Suite for one   *)
(* baseline and one candidate.                                             *)
(***************************************************************************)
EXTENDS Suite

CONSTANTS Baseline, Candidate    \* labels: a suite, or an agent revision

(***************************************************************************)
(* The summary a suite prints at its end and the runs table agree: every   *)
(* run has one result, a success is a completed row, and the failures are  *)
(* the failed rows, those left unfinished by an exception and the runs     *)
(* that never got a row (run_suite).                                       *)
(***************************************************************************)
SummaryMatchesRows ==
  \A s \in Suites :
    (\A j \in JobsOf(s) : state[j] \in Ended) =>
      LET mine == UNION {RowOf(j) : j \in JobsOf(s)}
          sum == Summary(s)
      IN  /\ sum.total = sum.failures + Cardinality({r \in mine : r.status = "completed"})
          /\ sum.succeeded = Cardinality({r \in mine : r.reason = "success"})
          /\ Cardinality(mine) <= sum.total

-------------------------------------------------------------------------------
\* The limit cuts nothing off.
Listed(label) == Len(RowsFor(label)) <= ListLimit

\* The row that should stand for a key: its oldest.
Oldest(label, k) ==
  LET found == RowsFor(label)
  IN  found[Min({i \in DOMAIN found : found[i].key = k})]

SharedKeys == KeysOf(RowsFor(Baseline)) \cap KeysOf(RowsFor(Candidate))

(***************************************************************************)
(* A gate that does not report a safety regression has seen no pair gain   *)
(* as many violations as the threshold, whatever its other pairs lost      *)
(* (new_safety_violations, FR-023).                                        *)
(***************************************************************************)
SafetyIsNotAveraged ==
  Gate(Baseline, Candidate) \in {0, 10} /\ Listed(Baseline) /\ Listed(Candidate) =>
    \A k \in SharedKeys :
      Oldest(Candidate, k).violations < Oldest(Baseline, k).violations + MaxAdded

(***************************************************************************)
(* The verdict on the success rate is that of the first run of each pair:  *)
(* neither running a key again nor the order in which the pool finished    *)
(* the runs moves it, while the listing's limit cuts nothing off           *)
(* (_index_runs over list_runs).  Each rate is rounded to a hundredth of a *)
(* percent, so from a hundred pairs on a drop may be reported that falls   *)
(* short of the threshold by less than that; none that reaches it is       *)
(* missed.                                                                 *)
(***************************************************************************)
TheFirstRunsDecide ==
  Listed(Baseline) /\ Listed(Candidate) /\ SharedKeys # {} /\ Gate(Baseline, Candidate) # 11
  => LET solvedBy(label) == {k \in SharedKeys : Oldest(label, k).reason = "success"}
         lost == Cardinality(solvedBy(Baseline)) - Cardinality(solvedBy(Candidate))
         n == Cardinality(SharedKeys)
     IN  /\ 100 * lost >= DropPercent * n => Gate(Baseline, Candidate) = 10
         /\ Gate(Baseline, Candidate) = 10 => 100 * lost + (n \div 100) >= DropPercent * n

-------------------------------------------------------------------------------
(***************************************************************************)
(* docs/11-workflows-pipelines.md:304: the exit code of a regression is    *)
(* distinct from that of an infrastructure failure: the gate's 10 means    *)
(* that some run of the candidate was completed and did not solve what the *)
(* baseline solved.                                                        *)
(***************************************************************************)
RegressionIsNotInfrastructure ==
  Gate(Baseline, Candidate) = 10 /\ Listed(Baseline) /\ Listed(Candidate) =>
    \E k \in SharedKeys :
      /\ Oldest(Baseline, k).reason = "success"
      /\ Oldest(Candidate, k).status = "completed"
      /\ Oldest(Candidate, k).reason # "success"

===============================================================================
