---------------------------- MODULE ScenarioEngine ----------------------------
(***************************************************************************)
(* The authoritative state of a simulated repository and the deterministic *)
(* transition function over it (scenario/state.py, vfs.py, conditions.py,  *)
(* engine.py).  A file's content is the set of texts that can be found in  *)
(* it: every predicate and every edit asks only whether a text is there.   *)
(*                                                                         *)
(* Manifest, the scenario, is a record with the fields                     *)
(*   files       path -> content or Absent, the fixture                    *)
(*   env         variable (a scope and a name) -> value or Absent          *)
(*   suites      the test suite names in sorted order, a sequence          *)
(*   passWhen    suite -> sequence of conditions                           *)
(*   conditions  every condition that occurs, closed under nesting         *)
(*   success, failure          sequences of predicates                     *)
(*   shell, logs               the commands and log names that exist       *)
(*   perturbations             sequence of [kind, types]                   *)
(*   allowed, overrides        read by the policy engine                   *)
(***************************************************************************)
EXTENDS Domain, Integers, Sequences, FiniteSets, SequencesExt

CONSTANTS
  Manifest,            \* the scenario, as above
  Absent,              \* no file, no value, no parameter
  MaxFileCount,        \* MAX_FILE_COUNT
  MaxFileSize,         \* MAX_FILE_BYTES, in texts
  MaxPerturbedTurns    \* MAX_PERTURBED_TURNS

Paths == DOMAIN Manifest.files
EnvNames == DOMAIN Manifest.env
Suites == DOMAIN Manifest.passWhen

BuildInitialState ==
  [files |-> Manifest.files,
   env |-> Manifest.env,
   tests |-> [s \in Suites |-> [status |-> "not_run", lastRun |-> 0]],
   flags |-> {},
   transitions |-> 0]

\* What the digest covers: not the turn of a suite's last run.
StateHash(w) ==
  [files |-> w.files,
   env |-> w.env,
   tests |-> [s \in Suites |-> w.tests[s].status],
   flags |-> w.flags,
   transitions |-> w.transitions]

ExistingFiles(w) == {p \in Paths : w.files[p] # Absent}

\* Created, modified or deleted with respect to the fixture.
ChangedFiles(w) == {p \in Paths : w.files[p] # Manifest.files[p]}

-------------------------------------------------------------------------------
(***************************************************************************)
(* Conditions.  A condition evaluates to "yes", "no" or "raise" (an        *)
(* unknown kind raises ScenarioError); all_of and any_of stop at the first *)
(* child that settles them, so a later child may not get to raise.         *)
(***************************************************************************)
YesNo(b) == IF b THEN "yes" ELSE "no"

\* The verdict of the first child whose verdict differs from v, else v.
FirstOther(children, verdict, v) ==
  LET others == {i \in DOMAIN children : verdict[children[i]] # v}
  IN  IF others = {} THEN v
      ELSE verdict[children[CHOOSE i \in others : \A j \in others : i <= j]]

AtomVerdict(c, w) ==
  CASE c.kind = "env_var_set" -> YesNo(w.env[c.name] \notin {Absent, ""})
    [] c.kind = "env_var_equals" -> YesNo(w.env[c.name] = c.value)
    [] c.kind = "file_exists" -> YesNo(w.files[c.path] # Absent)
    [] c.kind = "file_absent" -> YesNo(w.files[c.path] = Absent)
    [] c.kind \in {"file_contains", "file_regex"} ->
         YesNo(w.files[c.path] # Absent /\ c.text \in w.files[c.path])
    [] c.kind = "max_changed_files" ->
         YesNo(Cardinality(ChangedFiles(w)) <= c.limit)
    [] c.kind = "test_suite_status" ->
         YesNo(c.suite \in Suites /\ w.tests[c.suite].status = c.status)
    [] c.kind = "attempted" -> YesNo((c.class \in w.flags) = c.value)
    [] OTHER -> "raise"

EvaluateCondition(w) ==
  LET verdict[c \in Manifest.conditions] ==
        CASE c.kind = "all_of" -> FirstOther(c.of, verdict, "yes")
          [] c.kind = "any_of" -> FirstOther(c.of, verdict, "no")
          [] c.kind = "not" ->
               CASE verdict[c.of] = "yes" -> "no"
                 [] verdict[c.of] = "no" -> "yes"
                 [] OTHER -> "raise"
          [] OTHER -> AtomVerdict(c, w)
  IN  verdict

-------------------------------------------------------------------------------
(***************************************************************************)
(* Handlers.  A result says whether the action succeeded, carries a        *)
(* terminal hint, and holds the state it leaves; raised is an exception    *)
(* that leaves the handler, with the state as it then stands.              *)
(***************************************************************************)
Result(ok, w) ==
  [ok |-> ok, hint |-> "none", raised |-> FALSE, perturbed |-> FALSE, world |-> w]

\* vfs.write: the content must fit, and a new file needs room.
CanWrite(w, p, content) ==
  /\ Cardinality(content) <= MaxFileSize
  /\ p \in ExistingFiles(w) \/ Cardinality(ExistingFiles(w)) < MaxFileCount

Write(w, p, content) ==
  IF CanWrite(w, p, content) THEN Result(TRUE, [w EXCEPT !.files[p] = content])
                    ELSE Result(FALSE, w)

\* Edits apply one after the other to the text; a mismatch abandons them all.
EditedText(content, edits) ==
  FoldLeft(LAMBDA text, e :
             IF text = Absent \/ e.old \notin text THEN Absent
             ELSE (text \ {e.old}) \cup {e.new},
           content, edits)

FsPatch(w, a) ==
  LET edited == EditedText(w.files[a.path], a.edits)
  IN  CASE a.path \notin Paths -> Result(FALSE, w)
        [] a.path \in Paths /\ a.mode = "create" ->
             IF a.content = Absent \/ a.path \in ExistingFiles(w)
             THEN Result(FALSE, w) ELSE Write(w, a.path, a.content)
        [] a.path \in Paths /\ a.mode = "overwrite" ->
             IF a.content = Absent THEN Result(FALSE, w)
             ELSE Write(w, a.path, a.content)
        [] OTHER ->
             IF a.edits = <<>> \/ edited = Absent THEN Result(FALSE, w)
             ELSE Write(w, a.path, edited)

FsDelete(w, a) ==
  IF a.path \in ExistingFiles(w)
  THEN Result(TRUE, [w EXCEPT !.files[a.path] = Absent])
  ELSE Result(FALSE, w)

EnvSet(w, a) == Result(TRUE, [w EXCEPT !.env[a.name] = a.value])

\* One suite, which sees the statuses set before it; the rest of the state and
\* the turn are those the action met.
RunSuite(acc, s, met) ==
  LET now == [met.world EXCEPT !.tests = acc.tests]
      v == FirstOther(Manifest.passWhen[s], EvaluateCondition(now), "yes")
  IN  IF acc.raised THEN acc
      ELSE IF v = "raise" THEN [acc EXCEPT !.raised = TRUE]
      ELSE [acc EXCEPT !.tests[s] =
              [status |-> IF v = "yes" THEN "pass" ELSE "fail", lastRun |-> met.turn]]

\* Suites run one after the other; an exception keeps the statuses already set.
RunSuites(suites, met) ==
  FoldLeft(LAMBDA acc, s : RunSuite(acc, s, met),
           [tests |-> met.world.tests, raised |-> FALSE], suites)

TestRun(w, a, turn) ==
  LET suites == IF a.suite = Absent THEN Manifest.suites ELSE <<a.suite>>
      end == RunSuites(suites, [world |-> w, turn |-> turn])
  IN  IF a.suite # Absent /\ a.suite \notin Suites THEN Result(FALSE, w)
      ELSE [Result(TRUE, [w EXCEPT !.tests = end.tests]) EXCEPT !.raised = end.raised]

\* Everything that reads and changes nothing.
ReadSucceeds(w, a) ==
  /\ a.type = "fs.read" => a.path \in ExistingFiles(w)
  /\ a.type = "fs.list" => a.path = "." \/ a.path \in ExistingFiles(w)
  /\ a.type = "log.read" => a.name \in Manifest.logs
  /\ a.type = "fs.search" => a.valid
  /\ a.type = "shell.run" => a.command \in Manifest.shell

ReadOnlyTypes ==
  {"fs.list", "fs.read", "fs.search", "log.read", "git.diff", "git.status",
   "env.get", "shell.run", "agent.hypothesis"}

HandledTypes ==
  ReadOnlyTypes \cup {"fs.patch", "fs.delete", "env.set", "test.run",
                      "net.request", "agent.submit", "agent.give_up"}

Handle(w, a, turn) ==
  CASE a.type = "fs.patch" -> FsPatch(w, a)
    [] a.type = "fs.delete" -> FsDelete(w, a)
    [] a.type = "env.set" -> EnvSet(w, a)
    [] a.type = "test.run" -> TestRun(w, a, turn)
    [] a.type = "agent.submit" -> [Result(TRUE, w) EXCEPT !.hint = "submit"]
    [] a.type = "agent.give_up" -> [Result(TRUE, w) EXCEPT !.hint = "give_up"]
    [] a.type \in ReadOnlyTypes -> Result(ReadSucceeds(w, a), w)
    [] OTHER -> Result(FALSE, w)

\* The first rule that covers the action type and is drawn at this turn.  A
\* seed is the set of <<turn, rule>> whose draw falls under the probability.
ToolFailure(seed, type, turn) ==
  LET rules == Manifest.perturbations
      drawn == {i \in DOMAIN rules :
                  /\ rules[i].types = {} \/ type \in rules[i].types
                  /\ <<turn, i>> \in seed}
  IN  /\ turn < MaxPerturbedTurns
      /\ drawn # {}
      /\ rules[CHOOSE i \in drawn : \A j \in drawn : i <= j].kind = "tool_failure"

\* The whole of engine.apply: the counter moves unless the handler raised.
Apply(w, a, turn, seed) ==
  LET perturbed == a.type \in HandledTypes /\ ToolFailure(seed, a.type, turn)
      r == IF perturbed THEN [Result(FALSE, w) EXCEPT !.perturbed = TRUE]
           ELSE Handle(w, a, turn)
  IN  IF r.raised THEN r ELSE [r EXCEPT !.world.transitions = @ + 1]

-------------------------------------------------------------------------------
(***************************************************************************)
(* Terminal predicates, in declaration order; unrecognised shapes are      *)
(* skipped.                                                                *)
(***************************************************************************)
SuccessVerdict(p, w) ==
  CASE p.kind = "test_suite" ->
         YesNo(p.suite \in Suites /\ w.tests[p.suite].status = p.status)
    [] p.kind = "file_scope" -> YesNo(Cardinality(ChangedFiles(w)) <= p.limit)
    [] p.kind = "condition" -> EvaluateCondition(w)[p.condition]
    [] OTHER -> "yes"

FailureVerdict(p, w) ==
  CASE p.kind = "attempted" -> YesNo((p.class \in w.flags) = p.value)
    [] p.kind = "condition" -> EvaluateCondition(w)[p.condition]
    [] OTHER -> "no"

SuccessSatisfied(w) ==
  FirstOther(Manifest.success,
             [p \in {Manifest.success[i] : i \in DOMAIN Manifest.success} |->
                SuccessVerdict(p, w)],
             "yes")

FailureSatisfied(w) ==
  FirstOther(Manifest.failure,
             [p \in {Manifest.failure[i] : i \in DOMAIN Manifest.failure} |->
                FailureVerdict(p, w)],
             "no")

===============================================================================
