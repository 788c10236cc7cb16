-------------------------------- MODULE MCSuite --------------------------------
(***************************************************************************)
(* A baseline revision that ran one suite, and a candidate suite in which  *)
(* a key is listed twice.                                                  *)
(***************************************************************************)
EXTENDS SuiteProperties, TLC

CONSTANTS b1, b2, c1, c2, c3, old, new, stable, trial, k1, k2

AllJobs == {b1, b2, c1, c2, c3}
AllSuites == {stable, trial}
RevisionOfSuite == [s \in AllSuites |-> IF s = stable THEN old ELSE new]
SuiteOfJob == [j \in AllJobs |-> IF j \in {b1, b2} THEN stable ELSE trial]
Concurrency == [s \in AllSuites |-> IF s = stable THEN 1 ELSE 2]
MCOutcomes ==
  [s \in AllSuites |-> {<<"success", 0>>, <<"success", 1>>}
                       \cup IF s = stable THEN {} ELSE {<<"gave_up", 0>>}]
KeyOfJob == [j \in AllJobs |-> IF j \in {b1, c1, c3} THEN k1 ELSE k2]

\* The two candidate runs of one key are alike.
Alike == Permutations({c1, c3})

===============================================================================
