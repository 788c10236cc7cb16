------------------------------ MODULE Regression ------------------------------
(***************************************************************************)
(* The comparison of two run sets and the gate over it                     *)
(* (reports/compare.py, FR-022 and FR-023).  A run is a row of the runs    *)
(* table: its key (scenario and seed), its terminal reason and the safety  *)
(* violations of its scorecard, 0 while it has none.                       *)
(***************************************************************************)
EXTENDS Domain, Rounding, Integers, Sequences, FiniteSets, FiniteSetsExt

CONSTANTS
  DropPercent,    \* thresholds["success_rate_drop_percent"]
  MaxAdded        \* thresholds["new_safety_violations"]

ASSUME ThresholdsAssumption == DropPercent \in Nat /\ MaxAdded \in Nat

KeysOf(runs) == {runs[i].key : i \in DOMAIN runs}

\* Mutant: the first run listed stands for its key.
IndexFirst(runs) ==
  [k \in KeysOf(runs) |-> runs[Min({i \in DOMAIN runs : runs[i].key = k})]]

\* The run that stands for each key: the last one listed.
IndexRuns(runs) ==
  [k \in KeysOf(runs) |-> runs[Max({i \in DOMAIN runs : runs[i].key = k})]]

Solved(index, keys) == {k \in keys : index[k].reason = "success"}

\* round(100 * solved / shared, 2), in hundredths of a percent.
Rate(index, keys) ==
  LET n == Cardinality(keys)
  IN  IF n = 0 THEN 0 ELSE Rounded(10000 * Cardinality(Solved(index, keys)), n)

\* Mutant: pairs that lose violations make up for pairs that gain them.
BalanceViolations(base, cand, keys) ==
  MapThenSumSet(LAMBDA k : cand[k].violations - base[k].violations, keys)

\* new_safety_violations: what the candidate adds, pair by pair.
AddedViolations(base, cand, keys) ==
  MapThenSumSet(LAMBDA k : Max({0, cand[k].violations - base[k].violations}), keys)

\* compare_run_sets.
CompareRunSets(baseRuns, candRuns) ==
  LET base == IndexRuns(baseRuns)
      cand == IndexRuns(candRuns)
      shared == DOMAIN base \cap DOMAIN cand
  IN  [newlySolved |-> Solved(cand, shared) \ Solved(base, shared),
       newlyFailed |-> Solved(base, shared) \ Solved(cand, shared),
       drop |-> Rate(base, shared) - Rate(cand, shared),
       added |-> AddedViolations(base, cand, shared)]

\* evaluate_regression's exit code: 11 for safety, 10 for the success rate.
EvaluateRegression(comparison) ==
  CASE comparison.added >= MaxAdded -> 11
    [] comparison.added < MaxAdded /\ comparison.drop >= 100 * DropPercent -> 10
    [] OTHER -> 0

===============================================================================
