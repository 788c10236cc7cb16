----------------------------- MODULE RunProperties -----------------------------
(***************************************************************************)
(* What a run promises, stated over RunLoop.                               *)
(***************************************************************************)
EXTENDS RunLoop

TurnStates == {"loop", "awaiting", "gated", "rendering"}
EndStates == {"final", "scoring", "scored", "persisting", "done"}

\* The indices of the events of a type, and of those at a turn.
EventsOf(type) == {i \in DOMAIN log : log[i].type = type}
EventsAt(type, t) == {i \in EventsOf(type) : log[i].turn = t}
Errors(kind) == {i \in EventsOf("run.error") : log[i].kind = kind}

(***************************************************************************)
(* The type invariant.                                                     *)
(***************************************************************************)
TrackerType ==
  [actions : Nat, invalid : Nat, counts : [Actions -> Nat], maxRepeated : Nat,
   tokens : Nat, cost : Nat]

CurType ==
  [action : Actions \cup {Absent}, class : ActionClass, decision : PolicyDecision,
   ok : BOOLEAN, hint : {"none", "submit", "give_up"}]

RowType ==
  [status : RunStatus \cup {"none"}, reason : TerminalReason \cup {NoReason},
   scored : BOOLEAN]

TypeOK ==
  /\ pc \in {"new", "created", "starting", "aborted"} \cup TurnStates \cup EndStates
  /\ seed \in Seeds
  /\ db \in RowType
  /\ tracker \in TrackerType
  /\ timeUp \in BOOLEAN
  /\ turn \in Nat
  /\ cur \in CurType
  /\ pc = "gated" => cur.action \in Actions
  /\ terminal \in TerminalReason \cup {NoReason}
  /\ status \in {"completed", "failed", "canceled"}
  /\ cancelRequested \in BOOLEAN

(***************************************************************************)
(* Replay of whatever part of the log exists reproduces every recorded     *)
(* state hash and the final one: blocked attempts, perturbed and failed    *)
(* actions, protocol errors and snapshots in between included, whatever    *)
(* the seed and wherever the run stopped (replay_run, FR-027).             *)
(***************************************************************************)
ReplayAgrees == ReplayMatches(log, seed)

(***************************************************************************)
(* No run overshoots: the counters the limits watch never pass them, and   *)
(* the number of turns, which nothing counts, is bounded by the action and *)
(* invalid-action limits together.  The checks come after the counting, so *)
(* a limit below one still lets one turn happen (LimitTracker.breach).     *)
(***************************************************************************)
AtLeastOne(n) == IF n < 1 THEN 1 ELSE n

NoOvershoot ==
  /\ tracker.actions <= AtLeastOne(Limits.maxActions)
  /\ tracker.invalid <= AtLeastOne(Limits.maxInvalid)
  /\ tracker.maxRepeated <= AtLeastOne(Limits.maxRepeated)
  /\ turn <= AtLeastOne(Limits.maxActions) + AtLeastOne(Limits.maxInvalid) - 1

(***************************************************************************)
(* The tracker and the log count the same things, at every point of a      *)
(* run: scoring and reports read the log, the limits read the tracker.     *)
(***************************************************************************)
TrackerMatchesLog ==
  LET repeats(a) == {i \in EventsOf("agent.action") : log[i].action = a}
  IN  /\ tracker.actions = Cardinality(EventsOf("agent.action"))
      /\ tracker.invalid =
           Cardinality(Errors("protocol"))
           + Cardinality({i \in EventsOf("state.transition") : ~log[i].ok})
      /\ \A a \in Actions : Cardinality(repeats(a)) <= tracker.maxRepeated
      /\ tracker.maxRepeated > 0 =>
           \E a \in Actions : Cardinality(repeats(a)) = tracker.maxRepeated

(***************************************************************************)
(* The grammar of a finished turn: either one protocol error and nothing   *)
(* else, or one action with one decision, a transition exactly when the    *)
(* decision allowed it, and one observation; only the turn in which the    *)
(* run fails may be cut short (the loop of execute).                       *)
(***************************************************************************)
TurnIsWhole(t) ==
  LET n(type) == Cardinality(EventsAt(type, t))
      allowed == \E i \in EventsAt("policy.decision", t) : log[i].decision = "allow"
      malformed == \E i \in EventsAt("run.error", t) : log[i].kind = "protocol"
  IN  /\ n("agent.action") = (IF malformed THEN 0 ELSE 1)
      /\ n("policy.decision") = n("agent.action")
      /\ n("observation.rendered") = n("agent.action")
      /\ n("state.transition") = (IF allowed THEN 1 ELSE 0)
      /\ n("approval.requested") = n("approval.resolved")

TurnsAreWhole ==
  \A t \in 1..turn :
    \/ TurnIsWhole(t)
    \/ t = turn /\ (status = "failed" \/ pc \in TurnStates \cup {"aborted"})

(***************************************************************************)
(* A terminal reason that names a limit is the limit that was hit: it is   *)
(* exceeded by the recorded metrics, announced by the one run.limit event, *)
(* and a run that ended otherwise announced none (FR-016).                 *)
(***************************************************************************)
LimitReasonIsTrue ==
  /\ Cardinality(EventsOf("run.limit")) <= 1
  /\ \A i \in EventsOf("run.terminal") :
       /\ log[i].reason \in LimitReason =>
            /\ Exceeded(tracker, timeUp, log[i].reason)
            /\ log[i].actions = tracker.actions /\ log[i].invalid = tracker.invalid
       /\ {log[j].limit : j \in EventsOf("run.limit")} =
            {log[i].reason} \cap LimitReason

(***************************************************************************)
(* Infrastructure failures are never scored as agent failures, and only    *)
(* finished runs are scored (runner.py, "never scored"; FR-015).           *)
(***************************************************************************)
ScoredRunsAreJudgeable ==
  db.scored \/ EventsOf("score.completed") # {} =>
    /\ status # "failed"
    /\ terminal \notin {NoReason, "infrastructure_failure"}
    /\ Errors("infrastructure") = {}
    /\ \E i \in EventsOf("run.terminal") : log[i].reason = terminal

(***************************************************************************)
(* The log is the authority: a row in a final state is backed by a         *)
(* terminal event with the same reason, and by a score event exactly when  *)
(* it holds a scorecard.  The row may lag the log, never lead it.          *)
(***************************************************************************)
RowFollowsLog ==
  /\ db.status \in FinalStatus =>
       /\ \E i \in EventsOf("run.terminal") : log[i].reason = db.reason
       /\ db.scored = (EventsOf("score.completed") # {})
  /\ db.scored => EventsOf("score.completed") # {}

(***************************************************************************)
(* The attempt flags of the state are exactly the classes of the denied    *)
(* decisions in the log (record_attempt_flags); between the decision and   *)
(* its handling the flag may still be missing.                             *)
(***************************************************************************)
DeniedClasses ==
  {log[i].class : i \in {j \in EventsOf("policy.decision") : log[j].decision # "allow"}}

FlagsAreDeniedAttempts ==
  /\ world.flags \subseteq DeniedClasses \cap FlagClass
  /\ pc \in EndStates \cup {"loop"} => world.flags = DeniedClasses \cap FlagClass

(***************************************************************************)
(* The log only grows, and after the terminal event only by the score.     *)
(***************************************************************************)
LogOnlyGrows ==
  [][/\ IsPrefix(log, log')
     /\ EventsOf("run.terminal") # {} /\ log' # log =>
          log' = Append(log, ScoreCompleted)]_log

(***************************************************************************)
(* The row of the run follows the lifecycle of the runs table.             *)
(***************************************************************************)
ImplementsRunLifecycle == Row!Spec

(***************************************************************************)
(* A run ends: with a final row, or by an exception that left execute().   *)
(* Nothing bounds the loop but the limits (FR-016).                        *)
(***************************************************************************)
RunEnds == <>(pc \in {"done", "aborted"})

===============================================================================
