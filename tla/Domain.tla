-------------------------------- MODULE Domain --------------------------------
(***************************************************************************)
(* The shared vocabulary of a run: lifecycle states and the transitions    *)
(* between them, terminal reasons, action classes and policy decisions.    *)
(***************************************************************************)

RunStatus ==
  {"queued", "running", "paused_for_approval",
   "completed", "failed", "canceled", "expired"}

\* VALID_STATUS_TRANSITIONS[s]: the states a run in state s may be moved to.
ValidTransitions ==
  [s \in RunStatus |->
     CASE s = "queued" -> {"running", "canceled", "expired"}
       [] s = "running" ->
            {"paused_for_approval", "completed", "failed", "canceled", "expired"}
       [] s = "paused_for_approval" ->
            {"running", "canceled", "expired", "failed"}
       [] OTHER -> {}]

FinalStatus == {s \in RunStatus : ValidTransitions[s] = {}}

LimitReason ==
  {"action_limit", "time_limit", "token_limit", "cost_limit",
   "invalid_action_limit", "repeated_action_limit"}

TerminalReason ==
  LimitReason \cup
  {"success", "failure_predicate", "submitted_unsolved", "gave_up",
   "canceled", "infrastructure_failure"}

\* The value of the local variable `terminal` while the run goes on.
NoReason == "none"

ActionClass == {"read_only", "safe_write", "destructive", "external", "privileged"}

PolicyDecision == {"allow", "block", "require_approval"}

===============================================================================
