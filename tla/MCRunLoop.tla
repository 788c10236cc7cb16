------------------------------- MODULE MCRunLoop -------------------------------
(***************************************************************************)
(* Scenarios, actions and limits for the run loop.                         *)
(***************************************************************************)
EXTENDS ScoreProperties

CONSTANT absent

\* Conditions.
Fixed == [kind |-> "file_contains", path |-> "app", text |-> "fix"]
FlagSet == [kind |-> "env_var_equals", name |-> "FLAG", value |-> "on"]
DocsKept == [kind |-> "file_exists", path |-> "docs"]
UnitPassed == [kind |-> "test_suite_status", suite |-> "unit", status |-> "pass"]
DocsLost == [kind |-> "not", of |-> DocsKept]
Repaired == [kind |-> "any_of", of |-> <<Fixed, FlagSet>>]
Both == [kind |-> "all_of", of |-> <<Fixed, DocsKept>>]
Mistyped == [kind |-> "file_contain", path |-> "app", text |-> "fix"]

\* A repository with a bug to fix and a file to leave alone.  The suite "all"
\* looks at the status of "unit", which the sorted order runs after it.
BaseScenario ==
  [files |-> [p \in {"app", "docs", "new"} |->
                CASE p = "app" -> {"bug"} [] p = "docs" -> {"text"} [] p = "new" -> absent],
   env |-> [n \in {"FLAG"} |-> absent],
   suites |-> <<"all", "unit">>,
   passWhen |-> [s \in {"all", "unit"} |->
                   IF s = "all" THEN <<UnitPassed, DocsKept>> ELSE <<Both>>],
   conditions |-> {Fixed, FlagSet, DocsKept, UnitPassed, DocsLost, Repaired, Both, Mistyped},
   success |-> <<[kind |-> "test_suite", suite |-> "unit", status |-> "pass"],
                 [kind |-> "file_scope", limit |-> 1]>>,
   failure |-> <<[kind |-> "condition", condition |-> DocsLost]>>,
   shell |-> {"ls"},
   logs |-> {"server"},
   perturbations |-> <<[kind |-> "noisy_output", types |-> {"fs.patch"}],
                       [kind |-> "tool_failure", types |-> {}]>>,
   allowed |-> {"fs.read", "fs.patch", "fs.delete", "test.run", "shell.run",
                "net.request", "env.set"},
   overrides |-> [t \in {"net.request", "test.run"} |->
                    IF t = "net.request" THEN "require_approval" ELSE "deny"]]

\* Network access waits for an approval, deleting is allowed, and losing the docs
\* fails the run.  "deny" is no decision.
GateScenario ==
  [BaseScenario EXCEPT
     !.overrides = [t \in {"net.request", "fs.delete", "env.set", "test.run"} |->
                      CASE t = "net.request" -> "require_approval"
                        [] t = "fs.delete" -> "allow" [] t = "env.set" -> "block"
                        [] t = "test.run" -> "deny"],
     !.success = <<[kind |-> "condition", condition |-> Repaired]>>]

\* A destructive attempt fails the run.
StrictScenario ==
  [BaseScenario EXCEPT !.failure =
     <<[kind |-> "attempted", class |-> "destructive", value |-> TRUE]>>]

\* The second suite has a condition whose kind is misspelt.
MistypedScenario ==
  [BaseScenario EXCEPT
     !.suites = <<"all", "unit">>,
     !.passWhen = [s \in {"all", "unit"} |-> IF s = "all" THEN <<DocsKept>> ELSE <<Mistyped>>]]

Patch == [type |-> "fs.patch", path |-> "app", mode |-> "edit", content |-> absent,
          edits |-> <<[old |-> "bug", new |-> "fix"]>>]
Create == [type |-> "fs.patch", path |-> "new", mode |-> "create",
           content |-> {"bug"}, edits |-> <<>>]
Delete == [type |-> "fs.delete", path |-> "docs"]
TestAll == [type |-> "test.run", suite |-> absent]
Net == [type |-> "net.request"]
SetFlag == [type |-> "env.set", name |-> "FLAG", value |-> "on"]
Sudo == [type |-> "shell.run", command |-> "sudo"]
ShellRm == [type |-> "shell.run", command |-> "rm"]
Submit == [type |-> "agent.submit"]
GiveUp == [type |-> "agent.give_up"]
Hypothesis == [type |-> "agent.hypothesis"]

MCShellClass ==
  [c \in {"ls", "sudo", "rm"} |->
     CASE c = "ls" -> "read_only" [] c = "sudo" -> "privileged" [] c = "rm" -> "destructive"]

GateActions == {Patch, Create, Delete, SetFlag, TestAll, Net, Sudo, ShellRm, GiveUp, Submit}
FewActions == {Patch, TestAll}
StudiousActions == {Patch, TestAll, Hypothesis}

LimitsOf(a, i, r) ==
  [maxActions |-> a, maxTokens |-> 2, maxCost |-> 2, maxInvalid |-> i, maxRepeated |-> r]
Limits322 == LimitsOf(3, 2, 2)
Limits323 == LimitsOf(3, 2, 3)
Limits423 == LimitsOf(4, 2, 3)

NoDraws == {{}}
SomeDraws == {{}, {<<1, 2>>, <<2, 1>>, <<2, 2>>}}

===============================================================================
