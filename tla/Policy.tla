-------------------------------- MODULE Policy --------------------------------
(***************************************************************************)
(* Action classes, the gate, and the run limits (policy/engine.py).        *)
(*                                                                         *)
(* The limit tracker is a record [actions, invalid, counts, maxRepeated,   *)
(* tokens, cost]; counts is the number of times each signature was         *)
(* proposed.  The clock is left to the caller, who passes breach whether   *)
(* the wall-clock limit has been reached.                                  *)
(***************************************************************************)
EXTENDS ScenarioEngine

CONSTANTS
  Actions,       \* the canonical actions an agent may propose
  ShellClass,    \* command -> action class, by the command's text
  Limits         \* [maxActions, maxTokens, maxCost, maxInvalid, maxRepeated]

LimitNames == {"maxActions", "maxTokens", "maxCost", "maxInvalid", "maxRepeated"}

\* RunLimits constrains no field: zero and negative limits are accepted.
ASSUME LimitsAssumption == Limits \in [LimitNames -> Int]

ASSUME ActionsAssumption ==
  \A a \in Actions :
    a.type = "shell.run" =>
      ShellClass[a.command] \in {"privileged", "destructive", "external", "read_only"}

\* An action is not the absence of one.
ASSUME AbsentAssumption == Absent \notin Actions

ImplicitActions == {"agent.submit", "agent.give_up", "agent.hypothesis"}

ClassifyAction(a) ==
  CASE a.type = "shell.run" -> ShellClass[a.command]
    [] a.type \in {"fs.list", "fs.read", "fs.search", "log.read", "git.diff",
                   "git.status", "env.get", "test.run"} \cup ImplicitActions -> "read_only"
    [] a.type = "fs.delete" -> "destructive"
    [] a.type = "net.request" -> "external"
    [] OTHER -> "safe_write"

\* Mutant: an override is taken at its word.
EvaluateUnchecked(a) ==
  IF a.type \in DOMAIN Manifest.overrides THEN Manifest.overrides[a.type] ELSE "allow"

\* Privileged actions and actions outside the scenario are blocked before any
\* override is looked up; an override that is no decision counts for nothing.
Evaluate(a) ==
  LET class == ClassifyAction(a)
      override == Manifest.overrides
  IN  CASE class = "privileged" -> "block"
        [] class # "privileged" /\ a.type \notin Manifest.allowed \cup ImplicitActions -> "block"
        [] OTHER ->
             IF a.type \in DOMAIN override /\ override[a.type] \in PolicyDecision
             THEN override[a.type]
             ELSE IF class \in {"destructive", "external"} THEN "block"
             ELSE "allow"

FlagClass == {"destructive", "external", "privileged"}

\* Mutant: privileged attempts leave no mark.
RecordSomeFlags(w, class) ==
  [w EXCEPT !.flags = @ \cup ({class} \cap (FlagClass \ {"privileged"}))]

RecordAttemptFlags(w, class) == [w EXCEPT !.flags = @ \cup ({class} \cap FlagClass)]

-------------------------------------------------------------------------------
NewTracker ==
  [actions |-> 0, invalid |-> 0, counts |-> [a \in Actions |-> 0],
   maxRepeated |-> 0, tokens |-> 0, cost |-> 0]

\* Mutant: the repetitions of the last action instead of the most repeated one.
RecordLastAction(t, a) ==
  [t EXCEPT !.actions = @ + 1, !.counts[a] = @ + 1, !.maxRepeated = t.counts[a] + 1]

\* The signature of an action is the action: its type and its parameters.
RecordAction(t, a) ==
  LET count == t.counts[a] + 1
  IN  [t EXCEPT !.actions = @ + 1,
                !.counts = [@ EXCEPT ![a] = count],
                !.maxRepeated = IF count > @ THEN count ELSE @]

\* Mutant: a bad answer is reported but not counted.
RecordNothing(t) == t

RecordInvalid(t) == [t EXCEPT !.invalid = @ + 1]

\* The order in which breach tests the limits.
LimitOrder ==
  <<"action_limit", "time_limit", "token_limit", "cost_limit",
    "invalid_action_limit", "repeated_action_limit">>

Exceeded(t, timeUp, reason) ==
  CASE reason = "action_limit" -> t.actions >= Limits.maxActions
    [] reason = "time_limit" -> timeUp
    [] reason = "token_limit" -> t.tokens >= Limits.maxTokens
    [] reason = "cost_limit" -> t.cost >= Limits.maxCost
    [] reason = "invalid_action_limit" -> t.invalid >= Limits.maxInvalid
    [] reason = "repeated_action_limit" -> t.maxRepeated >= Limits.maxRepeated

Breach(t, timeUp) ==
  LET hit == {i \in DOMAIN LimitOrder : Exceeded(t, timeUp, LimitOrder[i])}
  IN  IF hit = {} THEN NoReason
      ELSE LimitOrder[CHOOSE i \in hit : \A j \in hit : i <= j]

===============================================================================
