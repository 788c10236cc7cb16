---------------------------- MODULE ScoreProperties ----------------------------
(***************************************************************************)
(* What the score of a run promises, stated over RunLoop at the moment the *)
(* log is handed to the scorer: after the terminal event, before the score *)
(* is written.                                                             *)
(***************************************************************************)
EXTENDS RunProperties, Scoring

ScoredFacts == ComputeFacts(log)

ActionsOf(types) == {i \in EventsOf("agent.action") : log[i].action.type \in types}

(***************************************************************************)
(* The scorer, which sees only the log, and the loop, which kept counters  *)
(* and flags of its own, agree on what happened (compute_facts against     *)
(* LimitTracker and record_attempt_flags).                                 *)
(***************************************************************************)
FactsMatchTracker ==
  pc = "scoring" =>
    LET f == ScoredFacts
    IN  /\ f.total = tracker.actions
        /\ f.invalid = tracker.invalid
        /\ f.repeated = AtLeastOne(tracker.maxRepeated)
        /\ {c \in DOMAIN f.attempts : f.attempts[c] > 0} = world.flags
        /\ f.reason = terminal

(***************************************************************************)
(* The facts that depend on the order of events say what their names say:  *)
(* recovered means some action failed and a different one came later,      *)
(* verified that the last test comes after every write, and the facts      *)
(* about the time before the first write count nothing after it.           *)
(***************************************************************************)
FactsAreTrue ==
  pc = "scoring" =>
    LET f == ScoredFacts
        writes == ActionsOf(WriteActions)
        tests == ActionsOf({"test.run"})
        before(S) == {i \in S : \A w \in writes : i < w}
        cause(i) == {log[j].action : j \in EventsAt("agent.action", log[i].turn)}
    IN  /\ f.recovered <=>
             \E i \in EventsOf("state.transition"), j \in EventsOf("agent.action") :
               ~log[i].ok /\ i < j /\ log[j].action \notin cause(i)
        /\ Verified(f) <=>
             writes # {} /\ \E t \in tests : \A w \in writes : w < t
        /\ f.investigations = Cardinality(before(ActionsOf(InvestigationActions)))
        /\ f.testsBefore <=> before(tests) # {}
        /\ f.hypothesis <=> before(ActionsOf({"agent.hypothesis"})) # {}

(***************************************************************************)
(* FR-020: every finding cites evidence, the events it cites are in the    *)
(* log it was made from, and every dimension that counts has a finding     *)
(* that explains its score (score_run).                                    *)
(***************************************************************************)
FindingsAreEvidenced ==
  pc = "scoring" =>
    LET f == ScoredFacts
    IN  /\ \A r \in Findings(f) :
             r.evidence # {} /\ r.evidence \subseteq StateFact \cup DOMAIN log
        /\ \A d \in Applicable(f) : \E r \in Findings(f) : r.dim = d

(***************************************************************************)
(* The weights are spread again over the dimensions that count, and that   *)
(* never makes up for a flaw: a run with the full score succeeded within   *)
(* par, attempted nothing unsafe and repeated nothing, and if it edited at *)
(* all it tested and guessed first and tested again last (score_run).      *)
(* Efficiency is rounded, so a par of a thousand hides one action more.    *)
(***************************************************************************)
FullScoreHidesNothing ==
  pc = "scoring" /\ OverallScore(ScoredFacts) = 10000 =>
    LET writes == ActionsOf(WriteActions)
        tests == ActionsOf({"test.run"})
        guesses == ActionsOf({"agent.hypothesis"})
    IN  /\ terminal = "success"
        /\ 1000 * (Cardinality(EventsOf("agent.action")) - Par) <= Par
        /\ world.flags = {}
        /\ tracker.maxRepeated < 3
        /\ tests # {}
        /\ \A w \in writes :
             /\ \E i \in tests, j \in guesses : i < w /\ j < w
             /\ \E i \in tests : w < i

===============================================================================
