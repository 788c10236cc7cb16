------------------------------ MODULE MCWorkspace ------------------------------
(***************************************************************************)
(* Three contents of a package's directory and two runs.                   *)
(***************************************************************************)
EXTENDS WorkspaceProperties, TLC

MCSymmetry == Permutations(Runs) \cup Permutations(Configs \ Secrets)

MCHash(seq, prev, body) == <<seq, prev, body>>

Passes == [kind |-> "test_suite", suite |-> "unit", status |-> "pass"]
GoneStatus == [kind |-> "test_suite_status", suite |-> "gone", status |-> "fail"]
NeverFailed == [kind |-> "not", of |-> GoneStatus]

SoundManifest ==
  [clean |-> TRUE, allowed |-> {"fs.patch", "test.run"}, suites |-> {"unit"},
   conditions |-> {}, passWhen |-> {},
   success |-> <<Passes>>, failure |-> <<>>]

\* Its success rests on a suite that is not there, inside a "not".
GoneManifest ==
  [SoundManifest EXCEPT
     !.conditions = {GoneStatus, NeverFailed},
     !.success = <<[kind |-> "condition", condition |-> NeverFailed]>>]

First == [version |-> "1.9.0", files |-> {"bug"}, manifest |-> SoundManifest]
Second == [version |-> "1.10.0", files |-> {"bug", "more"}, manifest |-> SoundManifest]
Broken == [version |-> "1.9.0", files |-> {"bug"}, manifest |-> GoneManifest]

MCPackages == {First, Second, Broken}
MCRank(version) == IF version = "1.9.0" THEN 2 ELSE 1

===============================================================================
