---------------------------- MODULE RunLoopProofs -----------------------------
(***************************************************************************)
(* Theorems about a run, for every scenario, seed, set of actions and      *)
(* limits: types, limits and the row; the log and how it agrees with the row, *)
(* the terminal reason and the flags; the counters and the grammar of the  *)
(* turns; the order of actions; and replay.                                *)
(***************************************************************************)
EXTENDS RunProperties, SequenceTheorems, FiniteSetTheorems, TLAPS

-------------------------------------------------------------------------------
(***************************************************************************)
(* Lemmas about the operators of the engine, the gate and the limits.      *)
(***************************************************************************)

\* A set of indices of LimitOrder has a least element.
LEMMA LeastIndex ==
  ASSUME NEW S \in SUBSET (1..6), S # {}
  PROVE  \E i \in S : \A j \in S : i <= j
<1>1. CASE 1 \in S
  BY <1>1
<1>2. CASE 1 \notin S /\ 2 \in S
  BY <1>2
<1>3. CASE 1 \notin S /\ 2 \notin S /\ 3 \in S
  BY <1>3
<1>4. CASE 1 \notin S /\ 2 \notin S /\ 3 \notin S /\ 4 \in S
  BY <1>4
<1>5. CASE 1 \notin S /\ 2 \notin S /\ 3 \notin S /\ 4 \notin S /\ 5 \in S
  BY <1>5
<1>6. CASE \A i \in 1..5 : i \notin S
  <2>1. \A j \in S : j = 6
    BY <1>6
  <2>2. 6 \in S
    BY <2>1
  <2>3. QED
    BY <2>1, <2>2
<1>7. QED
  BY <1>1, <1>2, <1>3, <1>4, <1>5, <1>6

\* breach: the answer is a limit that is exceeded, or none and none is.
LEMMA BreachIsALimit ==
  ASSUME NEW t, NEW timeIsUp
  PROVE  \/ /\ Breach(t, timeIsUp) \in LimitReason
            /\ Exceeded(t, timeIsUp, Breach(t, timeIsUp))
         \/ /\ Breach(t, timeIsUp) = NoReason
            /\ \A reason \in LimitReason : ~Exceeded(t, timeIsUp, reason)
<1> DEFINE hit == {i \in DOMAIN LimitOrder : Exceeded(t, timeIsUp, LimitOrder[i])}
           first == CHOOSE i \in hit : \A j \in hit : i <= j
<1>1. /\ DOMAIN LimitOrder = 1..6
      /\ \A i \in 1..6 : LimitOrder[i] \in LimitReason
      /\ \A reason \in LimitReason : \E i \in 1..6 : LimitOrder[i] = reason
  BY DEF LimitOrder, LimitReason
<1>2. CASE hit = {}
  <2>1. Breach(t, timeIsUp) = NoReason
    BY <1>2 DEF Breach
  <2>2. \A reason \in LimitReason : ~Exceeded(t, timeIsUp, reason)
    BY <1>1, <1>2
  <2>3. QED
    BY <2>1, <2>2
<1>3. CASE hit # {}
  <2>1. first \in hit
    <3>1. hit \in SUBSET (1..6)
      BY <1>1
    <3>2. \E i \in hit : \A j \in hit : i <= j
      BY <3>1, <1>3, LeastIndex
    <3>3. QED
      BY <3>2
  <2>2. Breach(t, timeIsUp) = LimitOrder[first]
    BY <1>3 DEF Breach
  <2>3. QED
    BY <1>1, <2>1, <2>2
<1>4. QED
  BY <1>2, <1>3

\* evaluate and classify_action answer with a decision and a class.
LEMMA GateType ==
  ASSUME NEW a \in Actions
  PROVE  ClassifyAction(a) \in ActionClass /\ Evaluate(a) \in PolicyDecision
<1>1. ClassifyAction(a) \in ActionClass
  BY ActionsAssumption DEF ClassifyAction, ActionClass
<1>2. Evaluate(a) \in PolicyDecision
  BY DEF Evaluate, PolicyDecision
<1>3. QED
  BY <1>1, <1>2

\* apply answers with a success flag and a terminal hint, whatever the state.
LEMMA ApplyType ==
  ASSUME NEW w, NEW a \in Actions, NEW n, NEW s
  PROVE  /\ Apply(w, a, n, s).ok \in BOOLEAN
         /\ Apply(w, a, n, s).hint \in {"none", "submit", "give_up"}
<1> DEFINE Fields(r) == DOMAIN r = {"ok", "hint", "raised", "perturbed", "world"}
           OkHint(r) == /\ r.ok \in BOOLEAN
                        /\ r.hint \in {"none", "submit", "give_up"}
                        /\ Fields(r)
<1>1. \A v, ok : Fields(Result(ok, v)) /\ Result(ok, v).ok = ok /\ Result(ok, v).hint = "none"
  BY DEF Result
<1>2. OkHint(FsPatch(w, a))
  BY <1>1 DEF FsPatch, Write
<1>3. OkHint(FsDelete(w, a)) /\ OkHint(EnvSet(w, a))
  BY <1>1 DEF FsDelete, EnvSet
<1>4. OkHint(TestRun(w, a, n))
  <2>1. \A v, raised : OkHint([Result(TRUE, v) EXCEPT !.raised = raised])
    BY <1>1
  <2>2. QED
    BY <1>1, <2>1 DEF TestRun
<1>5. OkHint(Result(ReadSucceeds(w, a), w))
  <2>1. ReadSucceeds(w, a) \in BOOLEAN
    BY DEF ReadSucceeds
  <2>2. QED
    BY <1>1, <2>1
<1>6. /\ OkHint([Result(TRUE, w) EXCEPT !.hint = "submit"])
      /\ OkHint([Result(TRUE, w) EXCEPT !.hint = "give_up"])
      /\ OkHint(Result(FALSE, w))
      /\ OkHint([Result(FALSE, w) EXCEPT !.perturbed = TRUE])
  BY <1>1
<1>7. OkHint(Handle(w, a, n))
  BY <1>2, <1>3, <1>4, <1>5, <1>6 DEF Handle
<1>8. QED
  BY <1>6, <1>7 DEF Apply

\* Where a limit check leaves the run, and what it found when it goes on.
LEMMA CheckLimitsEffect ==
  ASSUME NEW t, NEW events, timeUp \in BOOLEAN, CheckLimits(t, events)
  PROVE  /\ timeUp' \in BOOLEAN
         /\ terminal' \in LimitReason \cup {NoReason}
         /\ pc' = IF terminal' = NoReason THEN "loop" ELSE "final"
         /\ status' = status
         /\ terminal' = NoReason => \A reason \in LimitReason : ~Exceeded(t, timeUp', reason)
<1>1. PICK expired \in ClockReadings :
        LET breach == Breach(t, timeUp \/ expired)
        IN  timeUp' = (timeUp \/ expired) /\ Resume(breach) /\ status' = status
  BY DEF CheckLimits
<1>2. /\ timeUp' = (timeUp \/ expired)
      /\ terminal' = Breach(t, timeUp')
      /\ pc' = IF terminal' = NoReason THEN "loop" ELSE "final"
      /\ status' = status
  BY <1>1 DEF Resume
<1>3. NoReason \notin LimitReason
  BY DEF NoReason, LimitReason
<1>4. timeUp' \in BOOLEAN
  BY <1>2
<1>5. QED
  BY <1>2, <1>3, <1>4, BreachIsALimit

-------------------------------------------------------------------------------
(***************************************************************************)
(* Type correctness.                                                       *)
(***************************************************************************)
LEMMA TrackerOperators ==
  ASSUME NEW t \in TrackerType
  PROVE  /\ RecordInvalid(t) \in TrackerType
         /\ \A a \in Actions : RecordAction(t, a) \in TrackerType
<1>1. RecordInvalid(t) \in TrackerType
  BY DEF RecordInvalid, TrackerType
<1>2. ASSUME NEW a \in Actions PROVE RecordAction(t, a) \in TrackerType
  <2> DEFINE actions == t.actions + 1
             count == t.counts[a] + 1
             counts == [t.counts EXCEPT ![a] = count]
             maxRepeated == IF count > t.maxRepeated THEN count ELSE t.maxRepeated
  <2>1. actions \in Nat /\ count \in Nat /\ maxRepeated \in Nat
    BY DEF TrackerType
  <2>2. counts \in [Actions -> Nat]
    BY <2>1 DEF TrackerType
  <2>3. RecordAction(t, a) =
          [t EXCEPT !.actions = actions, !.counts = counts,
                    !.maxRepeated = maxRepeated]
    BY DEF RecordAction
  <2> HIDE DEF actions, counts, maxRepeated
  <2>4. QED
    BY <2>1, <2>2, <2>3 DEF TrackerType
<1>3. QED
  BY <1>1, <1>2

\* The usage read after an answer leaves the counters alone.
LEMMA ReadUsageType ==
  ASSUME tracker \in TrackerType, NEW tokens \in TokenReadings, NEW cost \in CostReadings
  PROVE  /\ ReadUsage(tokens, cost) \in TrackerType
         /\ ReadUsage(tokens, cost).actions = tracker.actions
         /\ ReadUsage(tokens, cost).invalid = tracker.invalid
         /\ ReadUsage(tokens, cost).maxRepeated = tracker.maxRepeated
         /\ ReadUsage(tokens, cost).counts = tracker.counts
BY RunAssumption DEF ReadUsage, TrackerType

\* The initial state of a run is typed.
LEMMA InitType == Init => TypeOK
<1> SUFFICES ASSUME Init PROVE TypeOK
  OBVIOUS
<1>1. tracker \in TrackerType
  BY DEF Init, NewTracker, TrackerType
<1>2. cur \in CurType
  BY DEF Init, IdleTurn, CurType, ActionClass, PolicyDecision
<1>3. db \in RowType
  BY DEF Init, Row!NoRow, Row!NoReason, NoReason, RowType
<1>4. QED
  BY <1>1, <1>2, <1>3 DEF Init, TypeOK

\* Every step of a run preserves the types.
LEMMA NextType == TypeOK /\ [Next]_vars => TypeOK'
<1> SUFFICES ASSUME TypeOK, [Next]_vars PROVE TypeOK'
  OBVIOUS
<1> USE DEF TypeOK
<1>1. CASE CreateRun
  BY <1>1 DEF CreateRun, RowType, RunStatus
<1>2. CASE StartRun
  BY <1>2 DEF StartRun, SetRunStatus, RowType, RunStatus, NoReason
<1>3. CASE StartAdapter
  BY <1>3 DEF StartAdapter, InfrastructureFailure, TurnStates, EndStates, TerminalReason
<1>4. CASE HonorCancel
  BY <1>4 DEF HonorCancel, InfrastructureFailure, EndStates, TerminalReason
<1>5. CASE BeginTurn
  BY <1>5 DEF BeginTurn, TurnStates
<1>6. CASE AgentFails
  BY <1>6 DEF AgentFails, InfrastructureFailure, EndStates, TerminalReason
<1>7. ASSUME NEW tokens \in TokenReadings, NEW cost \in CostReadings,
             AgentMalformed(tokens, cost)
      PROVE  TypeOK'
  <2>1. tracker' \in TrackerType
    BY <1>7, ReadUsageType, TrackerOperators DEF AgentMalformed
  <2>2. CheckLimits(tracker', <<Error("protocol")>>)
    BY <1>7 DEF AgentMalformed
  <2>3. QED
    BY <1>7, <2>1, <2>2, CheckLimitsEffect
    DEF AgentMalformed, TurnStates, EndStates, TerminalReason
<1>8. ASSUME NEW tokens \in TokenReadings, NEW cost \in CostReadings, NEW a \in Actions,
             AgentProposes(a, tokens, cost)
      PROVE  TypeOK'
  <2>1. tracker' \in TrackerType
    BY <1>8, ReadUsageType, TrackerOperators DEF AgentProposes
  <2>2. cur' \in CurType
    BY <1>8, GateType DEF AgentProposes, IdleTurn, CurType
  <2>3. QED
    BY <1>8, <2>1, <2>2 DEF AgentProposes, TurnStates
<1>9. CASE DenyAction
  <2> DEFINE events == When(cur.decision = "require_approval", Asked)
                       \o When(cur.decision = "require_approval", Denied)
                       \o <<Observed("blocked")>>
  <2>1. /\ UNCHANGED <<seed, db, tracker, turn, cur, cancelRequested>>
        /\ \/ InfrastructureFailure(events)
           \/ Resume("failure_predicate") /\ UNCHANGED <<status, timeUp>>
           \/ CheckLimits(tracker, events)
    BY <1>9 DEF DenyAction
  <2>2. CASE InfrastructureFailure(events)
    BY <2>1, <2>2 DEF InfrastructureFailure, EndStates, TerminalReason
  <2>3. CASE Resume("failure_predicate") /\ UNCHANGED <<status, timeUp>>
    BY <2>1, <2>3 DEF Resume, NoReason, EndStates, TerminalReason
  <2>4. CASE CheckLimits(tracker, events)
    BY <2>1, <2>4, CheckLimitsEffect DEF TurnStates, EndStates, TerminalReason
  <2>5. QED
    BY <2>1, <2>2, <2>3, <2>4
<1>10. CASE ApplyAction
  <2> DEFINE r == Apply(world, cur.action, turn, seed)
  <2>1. CASE r.raised
    BY <1>10, <2>1 DEF ApplyAction, InfrastructureFailure, EndStates, TerminalReason
  <2>2. CASE ~r.raised
    <3>1. /\ pc' = "rendering"
          /\ tracker' = IF r.ok THEN tracker ELSE RecordInvalid(tracker)
          /\ cur' = [cur EXCEPT !.ok = r.ok, !.hint = r.hint]
          /\ UNCHANGED <<seed, db, turn, cancelRequested, terminal, status, timeUp>>
      BY <1>10, <2>2 DEF ApplyAction
    <3>2. cur' \in CurType
      <4>1. cur.action \in Actions
        BY <1>10 DEF ApplyAction
      <4>2. r.ok \in BOOLEAN /\ r.hint \in {"none", "submit", "give_up"}
        BY <4>1, ApplyType
      <4>3. QED
        BY <3>1, <4>2 DEF CurType
    <3>3. tracker' \in TrackerType
      BY <3>1, TrackerOperators
    <3>4. QED
      BY <3>1, <3>2, <3>3 DEF TurnStates
  <2>3. QED
    BY <2>1, <2>2
<1>11. CASE RenderFails
  BY <1>11 DEF RenderFails, InfrastructureFailure, EndStates, TerminalReason
<1>12. ASSUME NEW fellBack \in BOOLEAN, Rendered(fellBack)
       PROVE  TypeOK'
  <2>1. /\ UNCHANGED <<seed, db, tracker, turn, cur, cancelRequested>>
        /\ \/ \E events : InfrastructureFailure(events) \/ CheckLimits(tracker, events)
           \/ /\ \E reason \in TerminalReason : Resume(reason)
              /\ UNCHANGED <<status, timeUp>>
    BY <1>12 DEF Rendered, TerminalReason
  <2>2. ASSUME NEW events, InfrastructureFailure(events)
        PROVE  TypeOK'
    BY <2>1, <2>2 DEF InfrastructureFailure, EndStates, TerminalReason
  <2>3. ASSUME NEW events, CheckLimits(tracker, events)
        PROVE  TypeOK'
    BY <2>1, <2>3, CheckLimitsEffect DEF TurnStates, EndStates, TerminalReason
  <2>4. ASSUME NEW reason \in TerminalReason, Resume(reason), UNCHANGED <<status, timeUp>>
        PROVE  TypeOK'
    BY <2>1, <2>4 DEF Resume, TurnStates, EndStates
  <2>5. QED
    BY <2>1, <2>2, <2>3, <2>4
<1>13. CASE Freeze
  BY <1>13 DEF Freeze, EndStates
<1>14. CASE Score
  BY <1>14 DEF Score, EndStates
<1>15. CASE SaveScorecard
  BY <1>15 DEF SaveScorecard, EndStates, RowType
<1>16. CASE Persist
  BY <1>16 DEF Persist, SetRunStatus, EndStates, RowType, RunStatus, TerminalReason
<1>17. CASE RequestCancel
  BY <1>17 DEF RequestCancel
<1>18. CASE Escape
  BY <1>18 DEF Escape
<1>19. CASE Ended \/ UNCHANGED vars
  BY <1>19 DEF Ended, vars
<1>20. QED
  BY <1>1, <1>2, <1>3, <1>4, <1>5, <1>6, <1>7, <1>8, <1>9, <1>10, <1>11, <1>12, <1>13,
     <1>14, <1>15, <1>16, <1>17, <1>18, <1>19 DEF Next, Progress

(***************************************************************************)
(* Every reachable state of every run is typed.                            *)
(***************************************************************************)
THEOREM TypeCorrect == Spec => []TypeOK
<1>1. QED
  BY InitType, NextType, PTL DEF Spec

-------------------------------------------------------------------------------
(***************************************************************************)
(* No overshoot.  NoOvershoot is not inductive: that a counter does not    *)
(* pass its limit in a turn follows from its being strictly below when the *)
(* turn begins, which the limit check at the end of the turn before, or    *)
(* the zeros at the start, give; and turns are bounded because each is     *)
(* counted as an action or as an invalid answer.                           *)
(***************************************************************************)
Below ==
  /\ tracker.actions < AtLeastOne(Limits.maxActions)
  /\ tracker.invalid < AtLeastOne(Limits.maxInvalid)
  /\ tracker.maxRepeated < AtLeastOne(Limits.maxRepeated)

LimitInv ==
  /\ NoOvershoot
  /\ \A a \in Actions : tracker.counts[a] <= tracker.maxRepeated
  /\ pc \in {"new", "created", "starting", "loop", "awaiting"} => Below
  /\ pc \in {"new", "created", "starting", "loop", "gated"} =>
       turn <= tracker.actions + tracker.invalid
  /\ pc = "awaiting" => turn <= tracker.actions + tracker.invalid + 1
  /\ pc = "gated" => tracker.invalid < AtLeastOne(Limits.maxInvalid)
  /\ pc = "rendering" => turn <= tracker.actions + tracker.invalid

\* The limits that guard the counters, as integers.
LEMMA LimitsAreIntegers ==
  /\ Limits.maxActions \in Int /\ Limits.maxInvalid \in Int /\ Limits.maxRepeated \in Int
  /\ AtLeastOne(Limits.maxActions) \in Nat \ {0}
  /\ AtLeastOne(Limits.maxInvalid) \in Nat \ {0}
  /\ AtLeastOne(Limits.maxRepeated) \in Nat \ {0}
BY LimitsAssumption DEF LimitNames, AtLeastOne

\* A tracker that exceeds no limit has every counter strictly below its limit.
LEMMA NotExceededIsBelow ==
  ASSUME NEW t \in TrackerType, NEW timeIsUp,
         \A reason \in LimitReason : ~Exceeded(t, timeIsUp, reason)
  PROVE  /\ t.actions < AtLeastOne(Limits.maxActions)
         /\ t.invalid < AtLeastOne(Limits.maxInvalid)
         /\ t.maxRepeated < AtLeastOne(Limits.maxRepeated)
<1>1. /\ ~(t.actions >= Limits.maxActions)
      /\ ~(t.invalid >= Limits.maxInvalid)
      /\ ~(t.maxRepeated >= Limits.maxRepeated)
  BY DEF Exceeded, LimitReason
<1>2. QED
  BY <1>1, LimitsAreIntegers DEF TrackerType, AtLeastOne

\* What recording does to the counters.
LEMMA Recorded ==
  ASSUME NEW t \in TrackerType
  PROVE  /\ RecordInvalid(t).invalid = t.invalid + 1
         /\ RecordInvalid(t).actions = t.actions
         /\ RecordInvalid(t).maxRepeated = t.maxRepeated
         /\ RecordInvalid(t).counts = t.counts
         /\ \A a \in Actions :
              /\ RecordAction(t, a).invalid = t.invalid
              /\ RecordAction(t, a).actions = t.actions + 1
              /\ RecordAction(t, a).counts = [t.counts EXCEPT ![a] = @ + 1]
              /\ RecordAction(t, a).maxRepeated =
                   IF t.counts[a] + 1 > t.maxRepeated THEN t.counts[a] + 1 ELSE t.maxRepeated
BY DEF RecordInvalid, RecordAction, TrackerType

\* A run starts with no counter at its limit that is looked at.
LEMMA InitLimits == Init => LimitInv
<1> SUFFICES ASSUME Init PROVE LimitInv
  OBVIOUS
<1>1. /\ tracker.actions = 0 /\ tracker.invalid = 0 /\ tracker.maxRepeated = 0
      /\ \A a \in Actions : tracker.counts[a] = 0
      /\ turn = 0 /\ pc = "new"
  BY DEF Init, NewTracker
<1>2. QED
  BY <1>1, LimitsAreIntegers DEF LimitInv, NoOvershoot, Below

\* A limit check after a turn that stayed within the limits.
LEMMA CheckedLimits ==
  ASSUME TypeOK, TypeOK', NEW events, CheckLimits(tracker', events), turn' = turn,
         NoOvershoot', turn <= tracker'.actions + tracker'.invalid,
         \A a \in Actions : tracker'.counts[a] <= tracker'.maxRepeated
  PROVE  LimitInv'
<1>1. /\ pc' \in {"loop", "final"}
      /\ pc' = "loop" => \A reason \in LimitReason : ~Exceeded(tracker', timeUp', reason)
  BY CheckLimitsEffect DEF TypeOK
<1>2. tracker' \in TrackerType
  BY DEF TypeOK
<1>3. pc' = "loop" => Below'
  BY <1>1, <1>2, NotExceededIsBelow DEF Below
<1>4. QED
  BY <1>1, <1>3 DEF LimitInv

\* Every step keeps the counters below their limits while the loop goes on.
LEMMA NextLimits == TypeOK /\ TypeOK' /\ LimitInv /\ [Next]_vars => LimitInv'
<1> SUFFICES ASSUME TypeOK, TypeOK', LimitInv, [Next]_vars PROVE LimitInv'
  OBVIOUS
<1>a. /\ tracker \in TrackerType /\ tracker' \in TrackerType
      /\ turn \in Nat
  BY DEF TypeOK
<1>b. ASSUME UNCHANGED <<tracker, turn>>,
             pc' \in {"final", "scoring", "scored", "persisting", "done", "aborted"}
      PROVE  LimitInv'
  BY <1>b DEF LimitInv, NoOvershoot
<1>1. CASE CreateRun \/ StartRun \/ StartAdapter
  <2>1. /\ UNCHANGED <<tracker, turn>>
        /\ pc \in {"new", "created", "starting"}
        /\ pc' \in {"created", "starting", "loop", "final"}
    BY <1>1 DEF CreateRun, StartRun, StartAdapter, InfrastructureFailure
  <2>2. QED
    BY <2>1 DEF LimitInv, NoOvershoot, Below
<1>2. CASE HonorCancel \/ AgentFails \/ RenderFails
  <2>1. UNCHANGED <<tracker, turn>> /\ pc' = "final"
    BY <1>2 DEF HonorCancel, AgentFails, RenderFails, InfrastructureFailure
  <2>2. QED
    BY <2>1, <1>b
<1>3. CASE BeginTurn
  <2>1. pc = "loop" /\ pc' = "awaiting" /\ turn' = turn + 1 /\ tracker' = tracker
    BY <1>3 DEF BeginTurn
  <2>2. QED
    BY <2>1, <1>a, LimitsAreIntegers DEF LimitInv, NoOvershoot, Below, TrackerType
<1>4. ASSUME NEW tokens \in TokenReadings, NEW cost \in CostReadings,
             AgentMalformed(tokens, cost)
      PROVE  LimitInv'
  <2>1. pc = "awaiting" /\ turn' = turn /\ CheckLimits(tracker', <<Error("protocol")>>)
    BY <1>4 DEF AgentMalformed
  <2>2. /\ tracker'.invalid = tracker.invalid + 1
        /\ tracker'.actions = tracker.actions
        /\ tracker'.maxRepeated = tracker.maxRepeated
        /\ tracker'.counts = tracker.counts
    BY <1>4, <1>a, ReadUsageType, Recorded DEF AgentMalformed
  <2>3. NoOvershoot' /\ turn <= tracker'.actions + tracker'.invalid
    BY <1>a, <2>1, <2>2, LimitsAreIntegers DEF LimitInv, NoOvershoot, Below, TrackerType
  <2>4. \A a \in Actions : tracker'.counts[a] <= tracker'.maxRepeated
    BY <2>2 DEF LimitInv
  <2>5. QED
    BY <2>1, <2>3, <2>4, CheckedLimits
<1>5. ASSUME NEW tokens \in TokenReadings, NEW cost \in CostReadings, NEW a \in Actions,
             AgentProposes(a, tokens, cost)
      PROVE  LimitInv'
  <2>1. pc = "awaiting" /\ pc' = "gated" /\ turn' = turn
    BY <1>5 DEF AgentProposes
  <2>2. /\ tracker'.invalid = tracker.invalid
        /\ tracker'.actions = tracker.actions + 1
        /\ tracker'.counts = [tracker.counts EXCEPT ![a] = @ + 1]
        /\ tracker'.maxRepeated =
             IF tracker.counts[a] + 1 > tracker.maxRepeated
             THEN tracker.counts[a] + 1 ELSE tracker.maxRepeated
    <3> DEFINE t == ReadUsage(tokens, cost)
    <3>1. /\ t \in TrackerType /\ t.actions = tracker.actions /\ t.invalid = tracker.invalid
          /\ t.maxRepeated = tracker.maxRepeated /\ t.counts = tracker.counts
      BY <1>a, ReadUsageType
    <3>2. tracker' = RecordAction(t, a)
      BY <1>5 DEF AgentProposes
    <3> HIDE DEF t
    <3>3. QED  BY <3>1, <3>2, Recorded
  <2>3. /\ tracker.counts \in [Actions -> Nat]
        /\ tracker.maxRepeated \in Nat
        /\ \A b \in Actions : tracker.counts[b] <= tracker.maxRepeated
    BY <1>a DEF TrackerType, LimitInv
  <2>4. /\ \A b \in Actions : tracker'.counts[b] <= tracker'.maxRepeated
        /\ tracker'.maxRepeated <= tracker.maxRepeated + 1
    BY <2>2, <2>3
  <2>5. NoOvershoot' /\ turn' <= tracker'.actions + tracker'.invalid
    BY <1>a, <2>1, <2>2, <2>4, LimitsAreIntegers DEF LimitInv, NoOvershoot, Below, TrackerType
  <2>6. tracker'.invalid < AtLeastOne(Limits.maxInvalid)
    BY <2>1, <2>2 DEF LimitInv, Below
  <2>7. QED
    BY <2>1, <2>4, <2>5, <2>6 DEF LimitInv
<1>6. CASE DenyAction
  <2>1. /\ UNCHANGED <<tracker, turn>> /\ pc = "gated"
        /\ \/ pc' = "final"
           \/ \E events : CheckLimits(tracker, events)
    BY <1>6 DEF DenyAction, InfrastructureFailure, Resume, NoReason
  <2>2. ASSUME NEW events, CheckLimits(tracker, events)
        PROVE  LimitInv'
    <3>1. CheckLimits(tracker', events)
      BY <2>1, <2>2
    <3>2. NoOvershoot' /\ turn <= tracker'.actions + tracker'.invalid
      BY <2>1 DEF LimitInv, NoOvershoot
    <3>3. \A a \in Actions : tracker'.counts[a] <= tracker'.maxRepeated
      BY <2>1 DEF LimitInv
    <3>4. QED
      BY <2>1, <3>1, <3>2, <3>3, CheckedLimits
  <2>3. QED
    BY <2>1, <2>2, <1>b
<1>7. CASE ApplyAction
  <2>1. /\ pc = "gated" /\ turn' = turn
        /\ \/ pc' = "final" /\ tracker' = tracker
           \/ pc' = "rendering" /\ tracker' \in {tracker, RecordInvalid(tracker)}
    BY <1>7 DEF ApplyAction, InfrastructureFailure
  <2>2. CASE pc' = "final" /\ tracker' = tracker
    BY <2>1, <2>2, <1>b
  <2>3. CASE pc' = "rendering" /\ tracker' = tracker
    BY <2>1, <2>3 DEF LimitInv, NoOvershoot
  <2>4. CASE pc' = "rendering" /\ tracker' = RecordInvalid(tracker)
    <3>1. /\ tracker'.invalid = tracker.invalid + 1
          /\ tracker'.actions = tracker.actions
          /\ tracker'.maxRepeated = tracker.maxRepeated
          /\ tracker'.counts = tracker.counts
      BY <1>a, <2>4, Recorded
    <3>2. QED
      BY <1>a, <2>1, <2>4, <3>1, LimitsAreIntegers DEF LimitInv, NoOvershoot, TrackerType
  <2>5. QED
    BY <2>1, <2>2, <2>3, <2>4
<1>8. ASSUME NEW fellBack \in BOOLEAN, Rendered(fellBack)
      PROVE  LimitInv'
  <2>1. /\ UNCHANGED <<tracker, turn>> /\ pc = "rendering"
        /\ \/ pc' = "final"
           \/ \E events : CheckLimits(tracker, events)
    BY <1>8 DEF Rendered, InfrastructureFailure, Resume, NoReason
  <2>2. ASSUME NEW events, CheckLimits(tracker, events)
        PROVE  LimitInv'
    <3>1. CheckLimits(tracker', events)
      BY <2>1, <2>2
    <3>2. NoOvershoot' /\ turn <= tracker'.actions + tracker'.invalid
      BY <2>1 DEF LimitInv, NoOvershoot
    <3>3. \A a \in Actions : tracker'.counts[a] <= tracker'.maxRepeated
      BY <2>1 DEF LimitInv
    <3>4. QED
      BY <2>1, <3>1, <3>2, <3>3, CheckedLimits
  <2>3. QED
    BY <2>1, <2>2, <1>b
<1>9. CASE Freeze \/ Score \/ SaveScorecard \/ Persist \/ Escape
  <2>1. UNCHANGED <<tracker, turn>> /\ pc' \in {"scoring", "scored", "persisting", "done", "aborted"}
    BY <1>9 DEF Freeze, Score, SaveScorecard, Persist, Escape
  <2>2. QED
    BY <2>1, <1>b
<1>10. CASE RequestCancel \/ Ended \/ UNCHANGED vars
  <2>1. UNCHANGED <<pc, tracker, turn>>
    BY <1>10 DEF RequestCancel, Ended, vars
  <2>2. QED
    BY <2>1 DEF LimitInv, NoOvershoot, Below
<1>11. QED
  BY <1>1, <1>2, <1>3, <1>4, <1>5, <1>6, <1>7, <1>8, <1>9, <1>10 DEF Next, Progress

(***************************************************************************)
(* No run overshoots its limits, whatever they are: no agent gets more     *)
(* than maxActions + maxInvalid - 1 turns.                                 *)
(***************************************************************************)
THEOREM NeverOvershoots == Spec => []NoOvershoot
<1>1. Init => TypeOK /\ LimitInv
  BY InitType, InitLimits
<1>2. TypeOK /\ LimitInv /\ [Next]_vars => (TypeOK /\ LimitInv)'
  BY NextType, NextLimits
<1>3. LimitInv => NoOvershoot
  BY DEF LimitInv
<1>4. QED
  BY <1>1, <1>2, <1>3, PTL DEF Spec

-------------------------------------------------------------------------------
(***************************************************************************)
(* Refinement.  The row a run keeps follows RunLifecycle.  The invariant   *)
(* ties the row to the program counter, and the two local variables that   *)
(* Persist writes to each other: a run is failed exactly when its reason   *)
(* is an infrastructure failure, and canceled exactly when it is canceled. *)
(***************************************************************************)
RowIs(s, scored) == db = [status |-> s, reason |-> NoReason, scored |-> scored]

Agree ==
  /\ terminal \in TerminalReason
  /\ status = "failed" <=> terminal = "infrastructure_failure"
  /\ status = "canceled" <=> terminal = "canceled"

RowInv ==
  /\ pc = "new" => db = Row!NoRow
  /\ pc = "created" => RowIs("queued", FALSE)
  /\ pc \in {"starting", "final", "scoring", "scored"} \cup TurnStates => RowIs("running", FALSE)
  /\ pc = "persisting" => RowIs("running", status # "failed")
  /\ pc \in {"new", "created", "starting"} \cup TurnStates => status = "completed"
  /\ pc \in {"final", "scoring", "scored", "persisting"} => Agree
  /\ pc \in {"scoring", "scored"} => status # "failed"

\* A run starts without a row.
LEMMA InitRow == Init => RowInv /\ Row!Init
BY DEF Init, RowInv, TurnStates, Row!Init

\* Leaving the loop with a reason that a completed run may have, or going on.
LEMMA ResumeKeepsRowInv ==
  ASSUME TypeOK, RowInv, pc \in TurnStates, db' = db, status' = status,
         \/ pc' = "loop"
         \/ /\ pc' = "final"
            /\ terminal' \in TerminalReason \ {"canceled", "infrastructure_failure"}
  PROVE  RowInv'
BY DEF RowInv, RowIs, Agree, TurnStates

\* A limit check does one or the other.
LEMMA CheckKeepsRowInv ==
  ASSUME TypeOK, RowInv, pc \in TurnStates, db' = db,
         NEW t, NEW events, CheckLimits(t, events)
  PROVE  RowInv'
<1>1. /\ terminal' \in LimitReason \cup {NoReason}
      /\ pc' = IF terminal' = NoReason THEN "loop" ELSE "final"
      /\ status' = status
  BY CheckLimitsEffect DEF TypeOK
<1>2. LimitReason \subseteq TerminalReason \ {"canceled", "infrastructure_failure"}
  BY DEF LimitReason, TerminalReason
<1>3. QED
  BY <1>1, <1>2, ResumeKeepsRowInv

\* An infrastructure failure leaves a run that failed, from anywhere.
LEMMA FailureKeepsRowInv ==
  ASSUME RowInv, pc \in {"starting"} \cup TurnStates, db' = db,
         NEW events, InfrastructureFailure(events)
  PROVE  RowInv'
BY DEF RowInv, RowIs, Agree, TurnStates, InfrastructureFailure, TerminalReason

\* Every step keeps the invariant, and is a step of the lifecycle or leaves
\* the row alone.
LEMMA NextRow == TypeOK /\ RowInv /\ [Next]_vars => RowInv' /\ [Row!Next]_db
<1> SUFFICES ASSUME TypeOK, RowInv, [Next]_vars PROVE RowInv' /\ [Row!Next]_db
  OBVIOUS
<1>1. CASE CreateRun
  <2>1. /\ pc = "new" /\ pc' = "created" /\ status' = status
        /\ db = Row!NoRow
        /\ db' = [db EXCEPT !.status = "queued"]
    BY <1>1 DEF CreateRun, RowInv
  <2>2. Row!Create /\ RowIs("queued", FALSE)'
    BY <2>1 DEF Row!Create, Row!NoRow, RowIs, Row!NoReason, NoReason
  <2>3. QED
    BY <2>1, <2>2 DEF RowInv, Row!Next, TurnStates
<1>2. CASE StartRun
  <2>1. /\ pc = "created" /\ pc' = "starting" /\ status' = status
        /\ RowIs("queued", FALSE)
        /\ db' = [db EXCEPT !.status = "running"]
    BY <1>2 DEF StartRun, SetRunStatus, RowInv
  <2>2. RowIs("running", FALSE)'
    BY <2>1 DEF RowIs, NoReason
  <2>3. "running" \in Row!ValidTransitions["queued"]
    BY DEF Row!ValidTransitions, Row!RunStatus
  <2>4. Row!Start
    BY <2>1, <2>2, <2>3 DEF RowIs, Row!Start
  <2>5. QED
    BY <2>1, <2>2, <2>4 DEF RowInv, RowIs, Row!Next, Row!RunStatus, TurnStates
<1>3. CASE StartAdapter
  <2>1. CASE \E events : InfrastructureFailure(events)
    BY <1>3, <2>1, FailureKeepsRowInv DEF StartAdapter
  <2>2. CASE pc' = "loop" /\ UNCHANGED <<terminal, status>>
    BY <1>3, <2>2 DEF StartAdapter, RowInv, RowIs, TurnStates
  <2>3. QED
    BY <1>3, <2>1, <2>2 DEF StartAdapter
<1>4. CASE HonorCancel
  <2>1. CASE \E events : InfrastructureFailure(events)
    BY <1>4, <2>1, FailureKeepsRowInv DEF HonorCancel, TurnStates
  <2>2. CASE terminal' = "canceled" /\ status' = "canceled" /\ pc' = "final"
    BY <1>4, <2>2 DEF HonorCancel, RowInv, RowIs, Agree, TurnStates, TerminalReason
  <2>3. QED
    BY <1>4, <2>1, <2>2 DEF HonorCancel
<1>5. CASE BeginTurn
  BY <1>5 DEF BeginTurn, RowInv, RowIs, TurnStates
<1>6. CASE AgentFails \/ RenderFails
  BY <1>6, FailureKeepsRowInv DEF AgentFails, RenderFails, TurnStates
<1>7. ASSUME NEW tokens \in TokenReadings, NEW cost \in CostReadings,
             AgentMalformed(tokens, cost)
      PROVE  RowInv' /\ [Row!Next]_db
  BY <1>7, CheckKeepsRowInv DEF AgentMalformed, TurnStates
<1>8. ASSUME NEW tokens \in TokenReadings, NEW cost \in CostReadings, NEW a \in Actions,
             AgentProposes(a, tokens, cost)
      PROVE  RowInv' /\ [Row!Next]_db
  BY <1>8 DEF AgentProposes, RowInv, RowIs, TurnStates
<1>9. CASE DenyAction
  <2>1. /\ pc = "gated" /\ db' = db
        /\ \/ \E events : InfrastructureFailure(events) \/ CheckLimits(tracker, events)
           \/ Resume("failure_predicate") /\ status' = status
    BY <1>9 DEF DenyAction
  <2>2. CASE Resume("failure_predicate") /\ status' = status
    BY <2>1, <2>2, ResumeKeepsRowInv DEF Resume, NoReason, TerminalReason, TurnStates
  <2>3. QED
    BY <2>1, <2>2, FailureKeepsRowInv, CheckKeepsRowInv DEF TurnStates
<1>10. CASE ApplyAction
  <2>1. CASE \E events : InfrastructureFailure(events)
    BY <1>10, <2>1, FailureKeepsRowInv DEF ApplyAction, TurnStates
  <2>2. CASE pc' = "rendering" /\ UNCHANGED <<terminal, status>>
    BY <1>10, <2>2 DEF ApplyAction, RowInv, RowIs, TurnStates
  <2>3. QED
    BY <1>10, <2>1, <2>2 DEF ApplyAction
<1>11. ASSUME NEW fellBack \in BOOLEAN, Rendered(fellBack)
       PROVE  RowInv' /\ [Row!Next]_db
  <2> DEFINE Reasons == {"gave_up", "failure_predicate", "success", "submitted_unsolved"}
  <2>1. /\ pc = "rendering" /\ db' = db
        /\ \/ \E events : InfrastructureFailure(events) \/ CheckLimits(tracker, events)
           \/ (\E reason \in Reasons : Resume(reason)) /\ status' = status
    BY <1>11 DEF Rendered
  <2>2. ASSUME NEW reason \in Reasons, Resume(reason), status' = status
        PROVE  RowInv'
    BY <2>1, <2>2, ResumeKeepsRowInv DEF Resume, NoReason, TerminalReason, TurnStates
  <2>3. QED
    BY <2>1, <2>2, FailureKeepsRowInv, CheckKeepsRowInv DEF TurnStates
<1>12. CASE Freeze
  <2>1. /\ pc = "final" /\ UNCHANGED <<db, terminal, status>>
        /\ pc' = IF status # "failed" /\ terminal # "infrastructure_failure"
                 THEN "scoring" ELSE "persisting"
    BY <1>12 DEF Freeze
  <2>2. QED
    BY <2>1 DEF RowInv, RowIs, Agree, TurnStates
<1>13. CASE Score
  BY <1>13 DEF Score, RowInv, RowIs, Agree, TurnStates
<1>14. CASE SaveScorecard
  <2>1. /\ pc = "scored" /\ pc' = "persisting" /\ UNCHANGED <<terminal, status>>
        /\ RowIs("running", FALSE) /\ status # "failed" /\ Agree
        /\ db' = [db EXCEPT !.scored = TRUE]
    BY <1>14 DEF SaveScorecard, RowInv
  <2>2. Row!SaveScorecard /\ RowIs("running", status # "failed")'
    BY <2>1 DEF RowIs, Row!SaveScorecard
  <2>3. QED
    BY <2>1, <2>2 DEF RowInv, RowIs, Agree, Row!Next, Row!RunStatus, TurnStates
<1>15. CASE Persist
  <2>1. /\ pc = "persisting" /\ pc' = "done"
        /\ RowIs("running", status # "failed") /\ Agree
        /\ status \in {"completed", "failed", "canceled"}
    BY <1>15 DEF Persist, RowInv, TypeOK
  <2>2. db' = [db EXCEPT !.status = status, !.reason = terminal]
    <3>1. terminal # NoReason
      BY <2>1 DEF Agree, TerminalReason, LimitReason, NoReason
    <3>2. QED
      BY <1>15, <3>1 DEF Persist, SetRunStatus
  <2>3. terminal \in Row!ReasonsFor[status] /\ status \in DOMAIN Row!ReasonsFor
    BY <2>1 DEF Agree, Row!ReasonsFor, Row!TerminalReason, Row!LimitReason,
                TerminalReason, LimitReason
  <2>4. status \in Row!ValidTransitions["running"]
    BY <2>1 DEF Row!ValidTransitions, Row!RunStatus
  <2>5. Row!End(status)
    BY <2>1, <2>2, <2>3, <2>4 DEF RowIs, Row!End
  <2>6. db.status \in Row!RunStatus
    BY <2>1 DEF RowIs, Row!RunStatus
  <2>7. QED
    BY <2>1, <2>3, <2>5, <2>6 DEF RowInv, Row!Next, TurnStates
<1>16. CASE RequestCancel
  BY <1>16 DEF RequestCancel, RowInv, RowIs, Agree, TurnStates
<1>17. CASE Escape
  BY <1>17 DEF Escape, RowInv, TurnStates
<1>18. CASE Ended \/ UNCHANGED vars
  BY <1>18 DEF Ended, vars, RowInv, RowIs, Agree, TurnStates
<1>19. QED
  BY <1>1, <1>2, <1>3, <1>4, <1>5, <1>6, <1>7, <1>8, <1>9, <1>10, <1>11, <1>12, <1>13,
     <1>14, <1>15, <1>16, <1>17, <1>18 DEF Next, Progress

(***************************************************************************)
(* Whatever the agent, the renderer and the operator do, and wherever the  *)
(* run is cut short, its row follows the lifecycle of the runs table.      *)
(***************************************************************************)
THEOREM RowRefinesLifecycle == Spec => ImplementsRunLifecycle
<1>1. Init => TypeOK /\ RowInv /\ Row!Init
  BY InitType, InitRow
<1>2. TypeOK /\ RowInv /\ [Next]_vars => (TypeOK /\ RowInv)' /\ [Row!Next]_db
  BY NextType, NextRow
<1>3. QED
  BY <1>1, <1>2, PTL DEF Spec, ImplementsRunLifecycle, Row!Spec

-------------------------------------------------------------------------------
(***************************************************************************)
(* The log of a run: how it grows, and how it agrees with the row, the     *)
(* terminal reason and the flags of the state.                             *)
(***************************************************************************)
(***************************************************************************)
(* The invariant.  An event is telling when it says how a run ended; Marks *)
(* are the telling events of the log.  LogAt and RowAt say what there is   *)
(* of log and row when execute() stands at p: a run that was cut short     *)
(* keeps what there was where it stood.                                    *)
(***************************************************************************)
IsSeq(s) == \E S : s \in Seq(S)

Telling(e) ==
  \/ e.type \in {"run.terminal", "score.completed", "run.limit"}
  \/ e.type = "run.error" /\ e.kind = "infrastructure"

Plain(events) == IsSeq(events) /\ \A e \in Range(events) : ~Telling(e)

Marks == {e \in Range(log) : Telling(e)}

Beginning == {"new", "created", "starting"} \cup TurnStates

Ending ==
  IF terminal \in LimitReason THEN {LimitHit(terminal)}
  ELSE IF terminal = "infrastructure_failure" THEN {Error("infrastructure")}
  ELSE {}

Scored == IF status # "failed" THEN {ScoreCompleted} ELSE {}

LogAt(p) ==
  /\ p \in Beginning => Marks = {}
  /\ p = "final" => Marks = Ending
  /\ p = "scoring" => Marks = Ending \cup {Terminal}
  /\ p = "scored" => Marks = Ending \cup {Terminal, ScoreCompleted}
  /\ p \in {"persisting", "done"} => Marks = Ending \cup {Terminal} \cup Scored
  /\ p \in EndStates => Agree /\ (terminal \in LimitReason => Exceeded(tracker, timeUp, terminal))
  /\ p \in {"scoring", "scored"} => status # "failed"

RowAt(p) ==
  /\ IF p = "done" THEN db.status = status /\ db.reason = terminal
     ELSE db.status \notin FinalStatus
  /\ db.scored <=> p \in {"persisting", "done"} /\ status # "failed"

OneLimit == \A i, j \in EventsOf("run.limit") : i = j

LogInv ==
  /\ IsSeq(log) /\ OneLimit
  /\ \E p \in Beginning \cup EndStates :
       /\ pc = p \/ (pc = "aborted" /\ p # "done")
       /\ LogAt(p) /\ RowAt(p)

-------------------------------------------------------------------------------
(***************************************************************************)
(* Sequences of events.                                                    *)
(***************************************************************************)
\* What a sequence is that is put together of two.
LEMMA Joined ==
  ASSUME NEW s, NEW t, IsSeq(s), IsSeq(t)
  PROVE  /\ IsSeq(s \o t)
         /\ Len(s) \in Nat /\ Len(t) \in Nat /\ Len(s \o t) = Len(s) + Len(t)
         /\ DOMAIN s = 1..Len(s) /\ DOMAIN t = 1..Len(t)
         /\ DOMAIN (s \o t) = 1..(Len(s) + Len(t))
         /\ \A i \in 1..Len(s) : (s \o t)[i] = s[i]
         /\ \A i \in 1..Len(t) : (s \o t)[Len(s) + i] = t[i]
<1>1. PICK S : s \in Seq(S)
  BY DEF IsSeq
<1>2. PICK T : t \in Seq(T)
  BY DEF IsSeq
<1>3. s \in Seq(S \cup T) /\ t \in Seq(S \cup T)
  BY <1>1, <1>2
<1>4. s \o t \in Seq(S \cup T)
  BY <1>3, ConcatProperties
<1>5. /\ Len(s \o t) = Len(s) + Len(t)
      /\ \A i \in 1..(Len(s) + Len(t)) :
           (s \o t)[i] = IF i <= Len(s) THEN s[i] ELSE t[i - Len(s)]
  BY <1>3, ConcatProperties
<1>6. Len(s) \in Nat /\ Len(t) \in Nat /\ DOMAIN s = 1..Len(s) /\ DOMAIN t = 1..Len(t)
  BY <1>3
<1>7. DOMAIN (s \o t) = 1..Len(s \o t)
  BY <1>4
<1>8. \A i \in 1..Len(s) : (s \o t)[i] = s[i]
  BY <1>5, <1>6
<1>9. \A i \in 1..Len(t) : (s \o t)[Len(s) + i] = t[i]
  <2>1. SUFFICES ASSUME NEW i \in 1..Len(t)
                 PROVE  (s \o t)[Len(s) + i] = t[i]
    OBVIOUS
  <2>2. Len(s) + i \in 1..(Len(s) + Len(t)) /\ ~(Len(s) + i <= Len(s)) /\ Len(s) + i - Len(s) = i
    BY <1>6
  <2>3. QED  BY <1>5, <2>2
<1>10. IsSeq(s \o t)
  BY <1>4 DEF IsSeq
<1>11. QED  BY <1>5, <1>6, <1>7, <1>8, <1>9, <1>10

\* Its elements are those of the two.
LEMMA JoinedRange ==
  ASSUME NEW s, NEW t, IsSeq(s), IsSeq(t)
  PROVE  Range(s \o t) = Range(s) \cup Range(t)
<1>1. ASSUME NEW e \in Range(s \o t)
      PROVE  e \in Range(s) \cup Range(t)
  <2>1. PICK i \in 1..(Len(s) + Len(t)) : e = (s \o t)[i]
    BY Joined DEF Range
  <2>2. Len(s) \in Nat /\ Len(t) \in Nat
    BY Joined
  <2>3. CASE i <= Len(s)
    <3>1. i \in 1..Len(s)
      BY <2>2, <2>3
    <3>2. QED  BY <2>1, <3>1, Joined DEF Range
  <2>4. CASE ~(i <= Len(s))
    <3>1. PICK k \in 1..Len(t) : i = Len(s) + k
      <4>1. i - Len(s) \in 1..Len(t) /\ i = Len(s) + (i - Len(s))
        BY <2>2, <2>4
      <4>2. QED  BY <4>1
    <3>2. e = t[k] /\ k \in DOMAIN t
      BY <2>1, <3>1, Joined
    <3>3. QED  BY <3>2 DEF Range
  <2>5. QED  BY <2>3, <2>4
<1>2. ASSUME NEW e \in Range(s)
      PROVE  e \in Range(s \o t)
  <2>1. PICK i \in 1..Len(s) : e = s[i]
    BY Joined DEF Range
  <2>2. i \in DOMAIN (s \o t) /\ (s \o t)[i] = e
    BY <2>1, Joined
  <2>3. QED  BY <2>2 DEF Range
<1>3. ASSUME NEW e \in Range(t)
      PROVE  e \in Range(s \o t)
  <2>1. PICK i \in 1..Len(t) : e = t[i]
    BY Joined DEF Range
  <2>2. Len(s) + i \in DOMAIN (s \o t) /\ (s \o t)[Len(s) + i] = e
    BY <2>1, Joined
  <2>3. QED  BY <2>2 DEF Range
<1>4. QED  BY <1>1, <1>2, <1>3

\* One event is a sequence, and so is an event that may be there or not.
LEMMA Single ==
  ASSUME NEW e
  PROVE  /\ IsSeq(<<e>>) /\ Range(<<e>>) = {e} /\ Len(<<e>>) = 1 /\ <<e>>[1] = e
         /\ IsSeq(<<>>) /\ Range(<<>>) = {} /\ Len(<<>>) = 0
<1>1. <<e>> \in Seq({e}) /\ Len(<<e>>) = 1 /\ <<e>>[1] = e /\ DOMAIN <<e>> = {1}
  OBVIOUS
<1>2. << >> \in Seq({e}) /\ Len(<< >>) = 0 /\ DOMAIN << >> = {}
  OBVIOUS
<1>3. IsSeq(<<e>>) /\ IsSeq(<< >>)
  BY <1>1, <1>2 DEF IsSeq
<1>4. Range(<<e>>) = {e} /\ Range(<< >>) = {}
  BY <1>1, <1>2 DEF Range
<1>5. QED  BY <1>1, <1>2, <1>3, <1>4

\* Two events.
LEMMA Pair ==
  ASSUME NEW e, NEW f
  PROVE  IsSeq(<<e, f>>) /\ Range(<<e, f>>) = {e, f}
<1>1. <<e, f>> \in Seq({e, f}) /\ DOMAIN <<e, f>> = {1, 2} /\ <<e, f>>[1] = e /\ <<e, f>>[2] = f
  OBVIOUS
<1>2. IsSeq(<<e, f>>)
  BY <1>1 DEF IsSeq
<1>3. Range(<<e, f>>) = {e, f}
  BY <1>1 DEF Range
<1>4. QED  BY <1>2, <1>3

\* An event that does not tell may be there or not.
LEMMA PlainWhen ==
  ASSUME NEW e, ~Telling(e)
  PROVE  /\ Plain(<<>>) /\ Plain(<<e>>)
         /\ \A b : Plain(When(b, e))
  BY Single DEF Plain, When

\* Sequences that do not tell are put together.
LEMMA PlainJoined ==
  ASSUME NEW s, NEW t, Plain(s), Plain(t)
  PROVE  Plain(s \o t)
  BY Joined, JoinedRange DEF Plain

\* Three sequences are put together in either order.
LEMMA Associates ==
  ASSUME NEW r, NEW s, NEW t, IsSeq(r), IsSeq(s), IsSeq(t)
  PROVE  r \o s \o t = r \o (s \o t) /\ r \o <<>> = r
<1>1. PICK R : r \in Seq(R)
  BY DEF IsSeq
<1>2. PICK S : s \in Seq(S)
  BY DEF IsSeq
<1>3. PICK T : t \in Seq(T)
  BY DEF IsSeq
<1>4. r \in Seq(R \cup S \cup T) /\ s \in Seq(R \cup S \cup T) /\ t \in Seq(R \cup S \cup T)
  BY <1>1, <1>2, <1>3
<1>5. QED  BY <1>4, ConcatAssociative, ConcatEmptySeq

\* The same under a name, for the provers.
Regroups(r, s, t) == r \o s \o t = r \o (s \o t)

LEMMA AllRegroup ==
  ASSUME NEW r, NEW s, NEW t, IsSeq(r), IsSeq(s), IsSeq(t)
  PROVE  Regroups(r, s, t)
BY Associates DEF Regroups

\* Telling and limit events of a log that grows by events that do not tell.
LEMMA QuietGrowth ==
  ASSUME IsSeq(log), NEW events, Plain(events), log' = log \o events
  PROVE  /\ IsSeq(log)' /\ Marks' = Marks
         /\ OneLimit => OneLimit'
<1>1. IsSeq(log') /\ Range(log') = Range(log) \cup Range(events)
  BY Joined, JoinedRange DEF Plain
<1>2. Marks' = Marks
  BY <1>1 DEF Marks, Plain
<1>3. ASSUME NEW i \in EventsOf("run.limit")'
      PROVE  i \in EventsOf("run.limit")
  <2>1. i \in 1..(Len(log) + Len(events)) /\ log'[i].type = "run.limit"
    BY <1>3, Joined DEF EventsOf, Plain
  <2>2. Len(log) \in Nat /\ Len(events) \in Nat
    BY Joined DEF Plain
  <2>3. CASE i <= Len(log)
    <3>1. i \in 1..Len(log)
      BY <2>1, <2>2, <2>3
    <3>2. log'[i] = log[i] /\ i \in DOMAIN log
      BY <3>1, Joined DEF Plain
    <3>3. QED  BY <2>1, <3>2 DEF EventsOf
  <2>4. CASE ~(i <= Len(log))
    <3>1. PICK k \in 1..Len(events) : i = Len(log) + k
      <4>1. i - Len(log) \in 1..Len(events) /\ i = Len(log) + (i - Len(log))
        BY <2>1, <2>2, <2>4
      <4>2. QED  BY <4>1
    <3>2. log'[i] = events[k] /\ k \in DOMAIN events
      BY <3>1, Joined DEF Plain
    <3>3. events[k] \in Range(events)
      BY <3>2 DEF Range
    <3>4. QED  BY <2>1, <3>2, <3>3 DEF Plain, Telling
  <2>5. QED  BY <2>3, <2>4
<1>4. OneLimit => OneLimit'
  BY <1>3 DEF OneLimit
<1>5. QED  BY <1>1, <1>2, <1>4

\* One more event.
LEMMA OneMore ==
  ASSUME IsSeq(log), NEW e, log' = Append(log, e) \/ log' = log \o <<e>>
  PROVE  /\ IsSeq(log)' /\ log' = log \o <<e>>
         /\ Marks' = Marks \cup (IF Telling(e) THEN {e} ELSE {})
         /\ OneLimit /\ (e.type = "run.limit" => \A m \in Marks : m.type # "run.limit")
              => OneLimit'
<1>1. log' = log \o <<e>>
  <2>1. PICK S : log \in Seq(S)
    BY DEF IsSeq
  <2>2. Append(log, e) = log \o <<e>>
    BY <2>1
  <2>3. QED  BY <2>2
<1>2. IsSeq(log') /\ Range(log') = Range(log) \cup {e}
  BY <1>1, Joined, JoinedRange, Single
<1>3. Marks' = Marks \cup (IF Telling(e) THEN {e} ELSE {})
  BY <1>2 DEF Marks
<1>4. /\ Len(log) \in Nat
      /\ DOMAIN log = 1..Len(log) /\ DOMAIN log' = 1..(Len(log) + 1)
      /\ \A i \in 1..Len(log) : log'[i] = log[i]
      /\ log'[Len(log) + 1] = e
  <2>1. <<e>>[1] = e /\ Len(<<e>>) = 1 /\ IsSeq(<<e>>)
    BY Single
  <2>2. 1 \in 1..Len(<<e>>)
    BY <2>1
  <2>3. QED  BY <1>1, <2>1, <2>2, Joined
<1>5. ASSUME OneLimit, e.type = "run.limit" => \A m \in Marks : m.type # "run.limit",
             NEW i \in EventsOf("run.limit")', NEW j \in EventsOf("run.limit")'
      PROVE  i = j
  <2>1. ASSUME NEW k \in EventsOf("run.limit")'
        PROVE  k \in EventsOf("run.limit") \/ (k = Len(log) + 1 /\ e.type = "run.limit")
    BY <1>4, <2>1 DEF EventsOf
  <2>2. CASE e.type = "run.limit"
    <3>1. EventsOf("run.limit") = {}
      <4>1. ASSUME NEW k \in EventsOf("run.limit")
            PROVE  FALSE
        <5>1. log[k] \in Marks /\ log[k].type = "run.limit"
          BY <4>1 DEF EventsOf, Marks, Range, Telling
        <5>2. QED  BY <1>5, <2>2, <5>1
      <4>2. QED  BY <4>1
    <3>2. QED  BY <2>1, <3>1
  <2>3. CASE e.type # "run.limit"
    BY <1>5, <2>1, <2>3 DEF OneLimit
  <2>4. QED  BY <2>2, <2>3
<1>6. OneLimit /\ (e.type = "run.limit" => \A m \in Marks : m.type # "run.limit") => OneLimit'
  BY <1>5 DEF OneLimit
<1>7. QED  BY <1>1, <1>2, <1>3, <1>6

-------------------------------------------------------------------------------
(***************************************************************************)
(* The steps.  Grown says how the log of a run grows: before the terminal  *)
(* event by anything, afterwards by the score event only.                  *)
(***************************************************************************)
Grown ==
  \/ log' = log
  \/ (\E events : IsSeq(events) /\ log' = log \o events) /\ \A m \in Marks : m.type # "run.terminal"
  \/ log' = Append(log, ScoreCompleted)

\* The row is where RunInv puts it, unless the run is over.
LEMMA RowPlaced ==
  ASSUME RowInv, pc \in (Beginning \cup EndStates) \ {"done"}
  PROVE  RowAt(pc)
<1>1. {"none", "queued", "running"} \cap FinalStatus = {}
  BY DEF FinalStatus, ValidTransitions, RunStatus
<1>2. \/ db.status \in {"none", "queued", "running"} /\ db.scored = FALSE /\ pc # "persisting"
      \/ db.status = "running" /\ db.scored = (status # "failed") /\ pc = "persisting"
  BY DEF RowInv, RowIs, Row!NoRow, Beginning, EndStates, TurnStates
<1>3. QED  BY <1>1, <1>2 DEF RowAt, EndStates

\* A run that was not cut short is where it stands.
LEMMA Standing ==
  ASSUME LogInv, pc # "aborted"
  PROVE  IsSeq(log) /\ OneLimit /\ LogAt(pc) /\ RowAt(pc)
  BY DEF LogInv

\* Where a run arrives with its log and its row.
LEMMA Arrives ==
  ASSUME IsSeq(log)', OneLimit', RowInv', LogAt(pc)', pc' \in (Beginning \cup EndStates) \ {"done"}
  PROVE  LogInv'
<1>1. RowAt(pc)'
  <2>1. {"none", "queued", "running"} \cap FinalStatus = {}
    BY DEF FinalStatus, ValidTransitions, RunStatus
  <2>2. \/ db'.status \in {"none", "queued", "running"} /\ db'.scored = FALSE /\ pc' # "persisting"
        \/ /\ db'.status = "running" /\ db'.scored = (status' # "failed")
           /\ pc' = "persisting"
    BY DEF RowInv, RowIs, Row!NoRow, Beginning, EndStates, TurnStates
  <2>3. QED  BY <2>1, <2>2 DEF RowAt, EndStates
<1>2. QED  BY <1>1 DEF LogInv, LogAt, RowAt

\* The run goes on.
LEMMA GoesOn ==
  ASSUME LogInv, RowInv', pc \in Beginning, pc' \in Beginning,
         NEW events, Plain(events), log' = log \o events
  PROVE  LogInv' /\ Grown
<1>1. pc # "aborted" /\ pc \notin EndStates /\ pc' \notin EndStates
  BY DEF Beginning, TurnStates, EndStates
<1>2. IsSeq(log) /\ OneLimit /\ Marks = {}
  BY <1>1, Standing DEF LogAt
<1>3. IsSeq(log)' /\ OneLimit' /\ Marks' = {}
  BY <1>2, QuietGrowth
<1>4. LogAt(pc)'
  BY <1>1, <1>3 DEF LogAt, EndStates
<1>5. pc' \in (Beginning \cup EndStates) \ {"done"}
  BY <1>1 DEF EndStates
<1>6. Grown
  BY <1>2 DEF Grown, Plain
<1>7. QED  BY <1>3, <1>4, <1>5, <1>6, Arrives

\* The loop is left with a reason that is announced by the marks it leaves.
LEMMA Leaves ==
  ASSUME LogInv, RowInv', pc \in Beginning, pc' = "final",
         IsSeq(log)', OneLimit', Marks' = Ending',
         terminal' \in LimitReason => Exceeded(tracker', timeUp', terminal'),
         NEW events, IsSeq(events), log' = log \o events
  PROVE  LogInv' /\ Grown
<1>1. pc # "aborted" /\ pc' \notin Beginning /\ pc' \in EndStates
  BY DEF Beginning, TurnStates, EndStates
<1>2. Marks = {}
  BY <1>1, Standing DEF LogAt
<1>3. Agree'
  BY DEF RowInv
<1>4. LogAt(pc)'
  BY <1>1, <1>3 DEF LogAt
<1>5. Grown
  BY <1>2 DEF Grown
<1>6. QED  BY <1>1, <1>4, <1>5, Arrives

\* The loop is left for a reason that leaves no mark.
LEMMA LeavesQuietly ==
  ASSUME LogInv, RowInv', pc \in Beginning, pc' = "final",
         terminal' \notin LimitReason \cup {"infrastructure_failure"},
         NEW events, Plain(events), log' = log \o events
  PROVE  LogInv' /\ Grown
<1>1. IsSeq(log) /\ OneLimit /\ Marks = {}
  BY Standing DEF LogAt, Beginning, TurnStates
<1>2. IsSeq(log)' /\ OneLimit' /\ Marks' = {}
  BY <1>1, QuietGrowth
<1>3. Ending' = {}
  BY DEF Ending
<1>4. IsSeq(events)
  BY DEF Plain
<1>5. QED  BY <1>2, <1>3, <1>4, Leaves

\* What a limit check writes, and where it leaves the run.
LEMMA CheckedLog ==
  ASSUME NEW t, NEW events, CheckLimits(t, events)
  PROVE  /\ terminal' \in LimitReason \cup {NoReason}
         /\ pc' = IF terminal' = NoReason THEN "loop" ELSE "final"
         /\ log' = log \o events \o When(terminal' # NoReason, LimitHit(terminal'))
         /\ terminal' \in LimitReason => Exceeded(t, timeUp', terminal')
<1>1. PICK expired \in ClockReadings :
        LET breach == Breach(t, timeUp \/ expired)
        IN  /\ timeUp' = (timeUp \/ expired)
            /\ log' = log \o events \o When(breach # NoReason, LimitHit(breach))
            /\ Resume(breach)
  BY DEF CheckLimits
<1>2. terminal' = Breach(t, timeUp')
  BY <1>1 DEF Resume
<1>3. NoReason \notin LimitReason
  BY DEF NoReason, LimitReason
<1>4. QED  BY <1>1, <1>2, <1>3, BreachIsALimit DEF Resume

\* The loop is left with one event that tells why.
LEMMA LeavesMarked ==
  ASSUME LogInv, RowInv', pc \in Beginning, pc' = "final",
         NEW events, Plain(events), NEW mark, Telling(mark), Ending' = {mark},
         log' = log \o events \o <<mark>>,
         terminal' \in LimitReason => Exceeded(tracker', timeUp', terminal')
  PROVE  LogInv' /\ Grown
<1> DEFINE s == log \o events
<1>1. IsSeq(log) /\ Marks = {} /\ IsSeq(events) /\ IsSeq(<<mark>>)
  BY Standing, Single DEF LogAt, Beginning, TurnStates, Plain
<1>2. IsSeq(s) /\ \A e \in Range(s) : ~Telling(e)
  BY <1>1, Joined, JoinedRange DEF Plain, Marks
<1>3. log' = s \o <<mark>>
  OBVIOUS
<1>4. log' = log \o (events \o <<mark>>) /\ IsSeq(events \o <<mark>>)
  BY <1>1, Associates, Joined
<1> HIDE DEF s
<1>5. IsSeq(log') /\ Range(log') = Range(s) \cup {mark}
  <2>1. Range(<<mark>>) = {mark}
    BY Single
  <2>2. IsSeq(s \o <<mark>>) /\ Range(s \o <<mark>>) = Range(s) \cup Range(<<mark>>)
    BY <1>1, <1>2, Joined, JoinedRange
  <2>3. QED  BY <1>3, <2>1, <2>2
<1>6. Marks' = {mark}
  BY <1>2, <1>5 DEF Marks
<1>7. ASSUME NEW i \in EventsOf("run.limit")'
      PROVE  i = Len(s) + 1
  <2>1. i \in 1..(Len(s) + 1) /\ Len(s) \in Nat /\ log'[i].type = "run.limit"
    BY <1>1, <1>2, <1>3, <1>7, Joined, Single DEF EventsOf
  <2>2. ASSUME i <= Len(s)
        PROVE  FALSE
    <3>1. i \in 1..Len(s)
      BY <2>1, <2>2
    <3>2. log'[i] = s[i] /\ i \in DOMAIN s
      BY <1>1, <1>2, <1>3, <3>1, Joined
    <3>3. s[i] \in Range(s)
      BY <3>2 DEF Range
    <3>4. QED  BY <1>2, <2>1, <3>2, <3>3 DEF Telling
  <2>3. QED  BY <2>1, <2>2
<1>8. OneLimit'
  BY <1>7 DEF OneLimit
<1>9. QED  BY <1>4, <1>5, <1>6, <1>8, Leaves

\* A limit check keeps the invariant.
LEMMA CheckKeepsLog ==
  ASSUME LogInv, RowInv', pc \in Beginning, UNCHANGED turn,
         NEW events, Plain(events), CheckLimits(tracker', events)
  PROVE  LogInv' /\ Grown
<1> DEFINE hit == LimitHit(terminal')
<1>1. /\ terminal' \in LimitReason \cup {NoReason}
      /\ pc' = IF terminal' = NoReason THEN "loop" ELSE "final"
      /\ log' = log \o events \o When(terminal' # NoReason, hit)
      /\ terminal' \in LimitReason => Exceeded(tracker', timeUp', terminal')
  BY CheckedLog
<1>2. CASE terminal' = NoReason
  <2>1. When(terminal' # NoReason, hit) = <<>>
    BY <1>2 DEF When
  <2>2. IsSeq(log) /\ IsSeq(events)
    BY Standing DEF Beginning, TurnStates, Plain
  <2>3. log \o events \o <<>> = log \o events
    BY <2>2, Joined, Associates
  <2>4. pc' \in Beginning
    BY <1>1, <1>2 DEF Beginning, TurnStates
  <2>5. QED  BY <1>1, <2>1, <2>3, <2>4, GoesOn
<1>3. CASE terminal' # NoReason
  <2>1. When(terminal' # NoReason, hit) = <<hit>>
    BY <1>3 DEF When
  <2>2. terminal' \in LimitReason /\ pc' = "final"
    BY <1>1, <1>3
  <2>3. Telling(hit) /\ Ending' = {hit}
    BY <2>2 DEF LimitHit, Telling, Ending
  <2>4. QED  BY <1>1, <2>1, <2>2, <2>3, LeavesMarked
<1>4. QED  BY <1>2, <1>3

\* An infrastructure failure keeps it.
LEMMA FailureKeepsLog ==
  ASSUME LogInv, RowInv', pc \in Beginning, UNCHANGED turn,
         NEW events, Plain(events), InfrastructureFailure(events)
  PROVE  LogInv' /\ Grown
<1> DEFINE mark == Error("infrastructure")
<1>1. /\ log' = log \o events \o <<mark>>
      /\ terminal' = "infrastructure_failure" /\ pc' = "final"
  BY DEF InfrastructureFailure
<1>2. "infrastructure_failure" \notin LimitReason
  BY DEF LimitReason
<1>3. Telling(mark) /\ Ending' = {mark}
  BY <1>1, <1>2 DEF Error, Telling, Ending
<1>4. QED  BY <1>1, <1>2, <1>3, LeavesMarked

\* The events of the loop that do not tell.
LEMMA PlainEvents ==
  /\ ~Telling(Created) /\ ~Telling(Started) /\ ~Telling(Asked) /\ ~Telling(Denied)
  /\ ~Telling(Perturbed) /\ ~Telling(Fallback) /\ ~Telling(Snapshot)
  /\ ~Telling(Error("protocol"))
  /\ \A a : ~Telling(Proposed(a))
  /\ \A d, c : ~Telling(Decided(d, c))
  /\ \A s : ~Telling(Observed(s))
  /\ \A r : ~Telling(Transition(r)) /\ ~Telling(Transition(r)')
  BY DEF Telling, Created, Started, Asked, Denied, Perturbed, Fallback, Snapshot, Error,
         Proposed, Decided, Observed, Transition

\* Every step keeps the invariant, and the log grows as Grown says.
LEMMA NextLog ==
  ASSUME TypeOK, RowInv, RowInv', LogInv, Next
  PROVE  LogInv' /\ Grown
<1>1. CASE CreateRun
  <2>1. Plain(<<Created>>) /\ log' = log \o <<Created>>
    BY <1>1, PlainEvents, PlainWhen, Standing, OneMore DEF CreateRun
  <2>2. pc \in Beginning /\ pc' \in Beginning
    BY <1>1 DEF CreateRun, Beginning
  <2>3. QED  BY <2>1, <2>2, GoesOn
<1>2. CASE StartRun
  <2>1. Plain(<<Started>>) /\ log' = log \o <<Started>>
    BY <1>2, PlainEvents, PlainWhen, Standing, OneMore DEF StartRun
  <2>2. pc \in Beginning /\ pc' \in Beginning
    BY <1>2 DEF StartRun, Beginning
  <2>3. QED  BY <2>1, <2>2, GoesOn
<1>3. ASSUME pc \in Beginning, pc' \in Beginning, UNCHANGED log
      PROVE  LogInv' /\ Grown
  <2>1. IsSeq(log)
    BY <1>3, Standing DEF Beginning, TurnStates
  <2>2. log' = log \o <<>>
    BY <1>3, <2>1, Associates
  <2>3. Plain(<<>>)
    BY Single DEF Plain
  <2>4. QED  BY <1>3, <2>2, <2>3, GoesOn
<1>4. ASSUME pc \in Beginning, UNCHANGED turn, InfrastructureFailure(<<>>)
      PROVE  LogInv' /\ Grown
  <2>1. Plain(<<>>)
    BY Single DEF Plain
  <2>2. QED  BY <1>4, <2>1, FailureKeepsLog
<1>5. CASE StartAdapter
  BY <1>3, <1>4, <1>5 DEF StartAdapter, Beginning, TurnStates
<1>6. CASE HonorCancel
  <2>1. pc \in Beginning /\ UNCHANGED turn
    BY <1>6 DEF HonorCancel, Beginning, TurnStates
  <2>2. CASE InfrastructureFailure(<<>>)
    BY <1>4, <2>1, <2>2
  <2>3. CASE terminal' = "canceled" /\ pc' = "final" /\ UNCHANGED log
    <3>1. IsSeq(log) /\ Plain(<<>>)
      BY <2>1, Standing, Single DEF Beginning, TurnStates, Plain
    <3>2. log' = log \o <<>>
      BY <2>3, <3>1, Associates
    <3>3. terminal' \notin LimitReason \cup {"infrastructure_failure"}
      BY <2>3 DEF LimitReason
    <3>4. QED  BY <2>1, <2>3, <3>1, <3>2, <3>3, LeavesQuietly
  <2>4. QED  BY <1>6, <2>2, <2>3 DEF HonorCancel
<1>7. CASE BeginTurn
  BY <1>3, <1>7 DEF BeginTurn, Beginning, TurnStates
<1>8. CASE AgentFails \/ RenderFails
  BY <1>4, <1>8 DEF AgentFails, RenderFails, Beginning, TurnStates
<1>9. ASSUME NEW tokens \in TokenReadings, NEW cost \in CostReadings,
             AgentMalformed(tokens, cost)
      PROVE  LogInv' /\ Grown
  <2>1. Plain(<<Error("protocol")>>)
    BY PlainEvents, PlainWhen
  <2>2. pc \in Beginning /\ UNCHANGED turn /\ CheckLimits(tracker', <<Error("protocol")>>)
    BY <1>9 DEF AgentMalformed, Beginning, TurnStates
  <2>3. QED  BY <2>1, <2>2, CheckKeepsLog
<1>10. ASSUME NEW tokens \in TokenReadings, NEW cost \in CostReadings, NEW a \in Actions,
              AgentProposes(a, tokens, cost)
       PROVE  LogInv' /\ Grown
  <2> DEFINE e == Proposed(a)
             f == Decided(Evaluate(a), ClassifyAction(a))
  <2>1. ~Telling(e) /\ ~Telling(f)
    BY PlainEvents
  <2>2. log' = log \o <<e, f>> /\ pc \in Beginning /\ pc' \in Beginning
    BY <1>10 DEF AgentProposes, Beginning, TurnStates
  <2> HIDE DEF e, f
  <2>3. Plain(<<e, f>>)
    BY <2>1, Pair DEF Plain
  <2>4. QED  BY <2>2, <2>3, GoesOn
<1>11. CASE DenyAction
  <2> DEFINE asks == cur.decision = "require_approval"
             events == When(asks, Asked) \o When(asks, Denied) \o <<Observed("blocked")>>
  <2>1. Plain(events)
    <3>1. Plain(When(asks, Asked)) /\ Plain(When(asks, Denied)) /\ Plain(<<Observed("blocked")>>)
      BY PlainEvents, PlainWhen
    <3>2. QED  BY <3>1, PlainJoined
  <2>2. pc \in Beginning /\ UNCHANGED turn /\ UNCHANGED tracker
    BY <1>11 DEF DenyAction, Beginning, TurnStates
  <2>3. \/ InfrastructureFailure(events)
        \/ log' = log \o events /\ Resume("failure_predicate")
        \/ CheckLimits(tracker, events)
    BY <1>11 DEF DenyAction
  <2> HIDE DEF events
  <2>4. CASE InfrastructureFailure(events)
    BY <2>1, <2>2, <2>4, FailureKeepsLog
  <2>5. CASE log' = log \o events /\ Resume("failure_predicate")
    <3>1. pc' = "final" /\ terminal' \notin LimitReason \cup {"infrastructure_failure"}
      BY <2>5 DEF Resume, LimitReason, NoReason
    <3>2. QED  BY <2>1, <2>2, <2>5, <3>1, LeavesQuietly
  <2>6. CASE CheckLimits(tracker, events)
    <3>1. CheckLimits(tracker', events)
      BY <2>2, <2>6
    <3>2. QED  BY <2>1, <2>2, <3>1, CheckKeepsLog
  <2>7. QED  BY <2>3, <2>4, <2>5, <2>6
<1>12. CASE ApplyAction
  <2>1. PICK r : \/ InfrastructureFailure(<<>>)
                 \/ /\ pc' = "rendering"
                    /\ log' = log \o When(r.perturbed, Perturbed) \o <<Transition(r)>>
    BY <1>12 DEF ApplyAction
  <2>2. pc \in Beginning /\ UNCHANGED turn
    BY <1>12 DEF ApplyAction, Beginning, TurnStates
  <2>3. CASE InfrastructureFailure(<<>>)
    BY <1>4, <2>2, <2>3
  <2>4. CASE pc' = "rendering" /\ log' = log \o When(r.perturbed, Perturbed) \o <<Transition(r)>>
    <3> DEFINE e == When(r.perturbed, Perturbed)
               f == <<Transition(r)>>
    <3>1. Plain(e) /\ Plain(f)
      BY PlainEvents, PlainWhen
    <3>2. IsSeq(log)
      BY <2>2, Standing DEF Beginning, TurnStates
    <3>3. log' = log \o e \o f
      BY <2>4
    <3> HIDE DEF e, f
    <3>4. log' = log \o (e \o f) /\ Plain(e \o f)
      <4>1. IsSeq(e) /\ IsSeq(f)
        BY <3>1 DEF Plain
      <4>2. log \o e \o f = log \o (e \o f)
        BY <3>2, <4>1, Associates
      <4>3. QED  BY <3>1, <3>3, <4>2, PlainJoined
    <3>5. pc' \in Beginning
      BY <2>4 DEF Beginning, TurnStates
    <3>6. QED  BY <2>2, <3>4, <3>5, GoesOn
  <2>5. QED  BY <2>1, <2>3, <2>4
<1>13. ASSUME NEW fellBack \in BOOLEAN, Rendered(fellBack)
       PROVE  LogInv' /\ Grown
  <2> DEFINE events == When(fellBack, Fallback)
                       \o <<Observed(IF cur.ok THEN "ok" ELSE "error")>>
                       \o When(turn % SnapshotInterval = 0, Snapshot)
             Reasons == {"gave_up", "failure_predicate", "success", "submitted_unsolved"}
  <2>1. Plain(events)
    <3>1. /\ Plain(When(fellBack, Fallback))
          /\ Plain(<<Observed(IF cur.ok THEN "ok" ELSE "error")>>)
          /\ Plain(When(turn % SnapshotInterval = 0, Snapshot))
      BY PlainEvents, PlainWhen
    <3>2. QED  BY <3>1, PlainJoined
  <2>2. pc \in Beginning /\ UNCHANGED turn /\ UNCHANGED tracker
    BY <1>13 DEF Rendered, Beginning, TurnStates
  <2>3. \/ InfrastructureFailure(events)
        \/ \E reason \in Reasons : log' = log \o events /\ Resume(reason)
        \/ CheckLimits(tracker, events)
    BY <1>13 DEF Rendered
  <2> HIDE DEF events
  <2>4. CASE InfrastructureFailure(events)
    BY <2>1, <2>2, <2>4, FailureKeepsLog
  <2>5. ASSUME NEW reason \in Reasons, log' = log \o events, Resume(reason)
        PROVE  LogInv' /\ Grown
    <3>1. pc' = "final" /\ terminal' \notin LimitReason \cup {"infrastructure_failure"}
      BY <2>5 DEF Resume, LimitReason, NoReason
    <3>2. QED  BY <2>1, <2>2, <2>5, <3>1, LeavesQuietly
  <2>6. CASE CheckLimits(tracker, events)
    <3>1. CheckLimits(tracker', events)
      BY <2>2, <2>6
    <3>2. QED  BY <2>1, <2>2, <3>1, CheckKeepsLog
  <2>7. QED  BY <2>3, <2>4, <2>5, <2>6
<1>14. CASE Freeze
  <2>1. Marks = Ending /\ Agree /\ (terminal \in LimitReason => Exceeded(tracker, timeUp, terminal))
    BY <1>14, Standing DEF Freeze, LogAt, EndStates
  <2>2. IsSeq(log) /\ OneLimit
    BY <1>14, Standing DEF Freeze
  <2>3. /\ log' = Append(log, Terminal)
        /\ UNCHANGED <<tracker, timeUp, terminal, status, turn, world>>
        /\ pc' \in {"scoring", "persisting"}
        /\ pc' = "scoring" => status # "failed"
        /\ pc' = "persisting" => status = "failed"
    BY <1>14, <2>1 DEF Freeze, Agree
  <2>4. Telling(Terminal) /\ Terminal.type = "run.terminal"
    BY DEF Telling, Terminal
  <2>5. Marks' = Ending \cup {Terminal} /\ IsSeq(log)' /\ OneLimit' /\ log' = log \o <<Terminal>>
    BY <2>1, <2>2, <2>3, <2>4, OneMore
  <2>6. Ending' = Ending /\ Terminal' = Terminal /\ Agree' /\ Scored' = Scored
        /\ (terminal' \in LimitReason => Exceeded(tracker', timeUp', terminal'))
    BY <2>1, <2>3 DEF Ending, Terminal, Agree, Scored, LimitHit, Error, StateHash, ScoreCompleted
  <2>7. LogAt(pc)'
    BY <2>3, <2>5, <2>6 DEF LogAt, EndStates, Beginning, TurnStates, Scored
  <2>8. Grown
    <3>1. \A m \in Marks : m.type # "run.terminal"
      BY <2>1 DEF Ending, LimitHit, Error
    <3>2. QED  BY <2>5, <3>1, Single DEF Grown
  <2>9. QED  BY <2>3, <2>5, <2>7, <2>8, Arrives DEF EndStates
<1>15. CASE Score
  <2>1. /\ Marks = Ending \cup {Terminal} /\ Agree /\ status # "failed"
        /\ (terminal \in LimitReason => Exceeded(tracker, timeUp, terminal))
    BY <1>15, Standing DEF Score, LogAt, EndStates
  <2>2. IsSeq(log) /\ OneLimit
    BY <1>15, Standing DEF Score
  <2>3. /\ log' = Append(log, ScoreCompleted)
        /\ UNCHANGED <<tracker, timeUp, terminal, status, turn, world>>
        /\ pc' = "scored"
    BY <1>15 DEF Score
  <2>4. Telling(ScoreCompleted) /\ ScoreCompleted.type = "score.completed"
    BY DEF Telling, ScoreCompleted
  <2>5. Marks' = Ending \cup {Terminal, ScoreCompleted} /\ IsSeq(log)' /\ OneLimit'
    BY <2>1, <2>2, <2>3, <2>4, OneMore
  <2>6. Ending' = Ending /\ Terminal' = Terminal /\ ScoreCompleted' = ScoreCompleted /\ Agree'
        /\ (terminal' \in LimitReason => Exceeded(tracker', timeUp', terminal'))
    BY <2>1, <2>3 DEF Ending, Terminal, Agree, LimitHit, Error, StateHash, ScoreCompleted
  <2>7. LogAt(pc)'
    BY <2>1, <2>3, <2>5, <2>6 DEF LogAt, EndStates, Beginning, TurnStates
  <2>8. QED  BY <2>3, <2>5, <2>7, Arrives DEF EndStates, Grown
<1>16. ASSUME UNCHANGED <<log, tracker, timeUp, terminal, status, turn, world>>
       PROVE  /\ IsSeq(log)' <=> IsSeq(log)
              /\ OneLimit' <=> OneLimit
              /\ Grown
              /\ \A p : LogAt(p)' <=> LogAt(p)
  BY <1>16 DEF LogAt, OneLimit, EventsOf, Marks, Ending, Terminal, Scored, ScoreCompleted, Agree,
               LimitHit, Error, StateHash, Grown
<1>17. CASE SaveScorecard
  <2>1. pc = "scored" /\ pc' = "persisting"
        /\ UNCHANGED <<log, tracker, timeUp, terminal, status, turn, world>>
    BY <1>17 DEF SaveScorecard
  <2>2. IsSeq(log) /\ OneLimit /\ LogAt("scored")
    BY <2>1, Standing
  <2>3. LogAt("persisting")
    BY <2>2 DEF LogAt, EndStates, Beginning, TurnStates, Scored
  <2>4. LogAt(pc)'
    BY <1>16, <2>1, <2>3 DEF LogAt
  <2>5. QED  BY <1>16, <2>1, <2>2, <2>4, Arrives DEF EndStates
<1>18. CASE Persist
  <2>1. pc = "persisting" /\ pc' = "done"
        /\ UNCHANGED <<log, tracker, timeUp, terminal, status, turn, world>>
    BY <1>18 DEF Persist
  <2>2. IsSeq(log) /\ OneLimit /\ LogAt("persisting") /\ Agree
    BY <2>1, Standing DEF LogAt, EndStates
  <2>3. LogAt("done")
    BY <2>2 DEF LogAt, EndStates, Beginning, TurnStates
  <2>4. db'.status = status /\ db'.reason = terminal /\ db'.scored = (status # "failed")
    <3>1. terminal # NoReason
      BY <2>2 DEF Agree, TerminalReason, LimitReason, NoReason
    <3>2. RowIs("running", status # "failed")
      BY <2>1 DEF RowInv
    <3>3. db' = [db EXCEPT !.status = status, !.reason = terminal]
      BY <1>18, <3>1 DEF Persist, SetRunStatus
    <3>4. QED  BY <3>2, <3>3 DEF RowIs
  <2>5. RowAt("done")'
    BY <2>1, <2>4 DEF RowAt
  <2>6. LogAt("done")' /\ IsSeq(log)' /\ OneLimit' /\ Grown
    BY <1>16, <2>1, <2>2, <2>3
  <2>7. QED  BY <2>1, <2>5, <2>6 DEF LogInv, EndStates
<1>19. CASE RequestCancel \/ Ended \/ Escape
  <2>1. UNCHANGED <<log, tracker, timeUp, terminal, status, turn, world, db>>
    BY <1>19 DEF RequestCancel, Ended, Escape, vars
  <2>2. pc' = pc \/ (pc' = "aborted" /\ pc \notin {"done", "aborted"})
    BY <1>19 DEF RequestCancel, Ended, Escape, vars
  <2>3. PICK p \in Beginning \cup EndStates :
          /\ pc = p \/ (pc = "aborted" /\ p # "done")
          /\ LogAt(p) /\ RowAt(p)
    BY DEF LogInv
  <2>4. LogAt(p)' /\ RowAt(p)'
    BY <1>16, <2>1, <2>3 DEF RowAt
  <2>5. IsSeq(log)' /\ OneLimit' /\ Grown
    BY <1>16, <2>1 DEF LogInv
  <2>6. pc' = p \/ (pc' = "aborted" /\ p # "done")
    BY <2>2, <2>3
  <2>7. QED  BY <2>4, <2>5, <2>6 DEF LogInv
<1>20. QED
  BY <1>1, <1>2, <1>5, <1>6, <1>7, <1>8, <1>9, <1>10, <1>11, <1>12, <1>13, <1>14, <1>15,
     <1>17, <1>18, <1>19 DEF Next, Progress

\* A run starts with an empty log.
LEMMA InitLog == Init => LogInv
<1>1. SUFFICES ASSUME Init
               PROVE  LogInv
  OBVIOUS
<1>2. IsSeq(log) /\ Range(log) = {} /\ DOMAIN log = {}
  <2>1. log = <<>>
    BY <1>1 DEF Init
  <2>2. IsSeq(<<>>) /\ Range(<<>>) = {}
    BY Single
  <2>3. DOMAIN <<>> = {}
    OBVIOUS
  <2>4. QED  BY <2>1, <2>2, <2>3
<1>3. OneLimit /\ Marks = {}
  BY <1>2 DEF OneLimit, EventsOf, Marks
<1>4. "none" \notin FinalStatus
  BY DEF FinalStatus, ValidTransitions, RunStatus
<1>5. RowAt("new")
  BY <1>1, <1>4 DEF Init, RowAt, Row!NoRow
<1>6. LogAt("new")
  BY <1>3 DEF LogAt, Beginning, EndStates
<1>7. QED  BY <1>1, <1>2, <1>3, <1>5, <1>6 DEF Init, LogInv, Beginning

\* The two invariants of the proofs about rows and types go along.
LEMMA LogStep ==
  TypeOK /\ RowInv /\ LogInv /\ [Next]_vars
    => /\ TypeOK' /\ RowInv' /\ LogInv'
       /\ Grown
<1>1. SUFFICES ASSUME TypeOK, RowInv, LogInv, [Next]_vars
               PROVE  TypeOK' /\ RowInv' /\ LogInv' /\ Grown
  OBVIOUS
<1>2. TypeOK' /\ RowInv'
  BY <1>1, NextType, NextRow
<1>3. CASE Next
  BY <1>1, <1>2, <1>3, NextLog
<1>4. CASE UNCHANGED vars
  BY <1>1, <1>2, <1>4 DEF vars, LogInv, OneLimit, EventsOf, LogAt, RowAt, Marks, Ending, Terminal,
     Scored, ScoreCompleted, Agree, LimitHit, Error, StateHash, Grown
<1>5. QED  BY <1>1, <1>3, <1>4

LogInvs == TypeOK /\ RowInv /\ LogInv

\* The log, the row and the reason agree with where the run stands, or stood.
THEOREM LogInvariant == Spec => []LogInvs
<1>1. Init => LogInvs
  BY InitType, InitRow, InitLog DEF LogInvs
<1>2. LogInvs /\ [Next]_vars => LogInvs'
  BY LogStep DEF LogInvs
<1>3. QED  BY <1>1, <1>2, PTL DEF Spec

\* What a mark of a kind says of the place the run stands or stood at.
LEMMA MarksTell ==
  ASSUME NEW p \in Beginning \cup EndStates, LogAt(p)
  PROVE  /\ \A m \in Marks : m.type = "run.terminal" =>
              m = Terminal /\ p \in {"scoring", "scored", "persisting", "done"}
         /\ \A m \in Marks : m.type = "score.completed" =>
              p \in {"scored", "persisting", "done"} /\ status # "failed"
         /\ \A m \in Marks : m.type = "run.limit" =>
              terminal \in LimitReason /\ m = LimitHit(terminal) /\ p \notin Beginning
         /\ \A m \in Marks : m.type = "run.error" =>
              terminal = "infrastructure_failure" /\ p \in EndStates
         /\ p \in {"scoring", "scored", "persisting", "done"} =>
              Terminal \in Marks /\ Ending \subseteq Marks
         /\ p = "scored" \/ (p \in {"persisting", "done"} /\ status # "failed") =>
              ScoreCompleted \in Marks
<1>1. /\ \A m \in Ending : m.type \in {"run.limit", "run.error"}
      /\ \A m \in Ending : m.type = "run.limit" => terminal \in LimitReason /\ m = LimitHit(terminal)
      /\ \A m \in Ending : m.type = "run.error" => terminal = "infrastructure_failure"
      /\ Terminal.type = "run.terminal" /\ ScoreCompleted.type = "score.completed"
      /\ Scored \subseteq {ScoreCompleted} /\ (Scored # {} => status # "failed")
      /\ status # "failed" => Scored = {ScoreCompleted}
  BY DEF Ending, Scored, LimitHit, Error, Terminal, ScoreCompleted
<1>2. p \in Beginning \/ p \in {"final", "scoring", "scored", "persisting", "done"}
  BY DEF EndStates
<1>3. \/ Marks = {} /\ p \in Beginning
      \/ Marks = Ending /\ p = "final"
      \/ Marks = Ending \cup {Terminal} /\ p = "scoring"
      \/ Marks = Ending \cup {Terminal, ScoreCompleted} /\ p = "scored" /\ status # "failed"
      \/ Marks = Ending \cup {Terminal} \cup Scored /\ p \in {"persisting", "done"}
  BY <1>2 DEF LogAt
<1>4. Beginning \cap EndStates = {}
  BY DEF Beginning, TurnStates, EndStates
<1>5. QED  BY <1>1, <1>3, <1>4 DEF EndStates

\* Telling events of the log are its marks.
LEMMA MarksAreEvents ==
  ASSUME NEW type \in {"run.terminal", "score.completed", "run.limit"}
  PROVE  /\ \A i \in EventsOf(type) : log[i] \in Marks /\ log[i].type = type
         /\ \A m \in Marks : m.type = type => \E i \in EventsOf(type) : log[i] = m
         /\ \A i \in Errors("infrastructure") : log[i] \in Marks /\ log[i].type = "run.error"
  BY DEF EventsOf, Errors, Marks, Telling, Range

\* Only runs that ended for a reason of their own are scored, in the log and in
\* the row, wherever they were cut short.
THEOREM ScoredAreJudgeable == Spec => []ScoredRunsAreJudgeable
<1>1. LogInvs => ScoredRunsAreJudgeable
  <2>1. SUFFICES ASSUME LogInvs, db.scored \/ EventsOf("score.completed") # {}
                 PROVE  /\ status # "failed"
                        /\ terminal \notin {NoReason, "infrastructure_failure"}
                        /\ Errors("infrastructure") = {}
                        /\ \E i \in EventsOf("run.terminal") : log[i].reason = terminal
    BY DEF ScoredRunsAreJudgeable
  <2>2. PICK p \in Beginning \cup EndStates : LogAt(p) /\ RowAt(p)
    BY <2>1 DEF LogInvs, LogInv
  <2>3. p \in {"scored", "persisting", "done"} /\ status # "failed"
    <3>1. CASE db.scored
      BY <2>2, <3>1 DEF RowAt
    <3>2. CASE EventsOf("score.completed") # {}
      <4>1. PICK m \in Marks : m.type = "score.completed"
        BY <3>2, MarksAreEvents
      <4>2. QED  BY <2>2, <4>1, MarksTell
    <3>3. QED  BY <2>1, <3>1, <3>2
  <2>4. Agree
    BY <2>2, <2>3 DEF LogAt, EndStates
  <2>5. terminal \notin {NoReason, "infrastructure_failure"}
    BY <2>3, <2>4 DEF Agree, TerminalReason, LimitReason, NoReason
  <2>6. Errors("infrastructure") = {}
    BY <2>2, <2>5, MarksTell, MarksAreEvents
  <2>7. Terminal \in Marks /\ Terminal.type = "run.terminal" /\ Terminal.reason = terminal
    BY <2>2, <2>3, MarksTell DEF Terminal
  <2>8. \E i \in EventsOf("run.terminal") : log[i] = Terminal
    BY <2>7, MarksAreEvents
  <2>9. QED  BY <2>3, <2>5, <2>6, <2>7, <2>8
<1>2. QED  BY <1>1, LogInvariant, PTL

\* The row never leads the log.
THEOREM RowsFollowLogs == Spec => []RowFollowsLog
<1>1. LogInvs => RowFollowsLog
  <2>1. SUFFICES ASSUME LogInvs
                 PROVE  RowFollowsLog
    OBVIOUS
  <2>2. PICK p \in Beginning \cup EndStates : LogAt(p) /\ RowAt(p)
    BY <2>1 DEF LogInvs, LogInv
  <2>3. db.scored => EventsOf("score.completed") # {}
    <3>1. SUFFICES ASSUME db.scored
                   PROVE  EventsOf("score.completed") # {}
      OBVIOUS
    <3>2. ScoreCompleted \in Marks /\ ScoreCompleted.type = "score.completed"
      BY <2>2, <3>1, MarksTell DEF RowAt, ScoreCompleted
    <3>3. QED  BY <3>2, MarksAreEvents
  <2>4. ASSUME db.status \in FinalStatus
        PROVE  /\ \E i \in EventsOf("run.terminal") : log[i].reason = db.reason
               /\ db.scored = (EventsOf("score.completed") # {})
    <3>1. p = "done" /\ db.reason = terminal
      BY <2>2, <2>4 DEF RowAt
    <3>2. Terminal \in Marks /\ Terminal.type = "run.terminal" /\ Terminal.reason = terminal
      BY <2>2, <3>1, MarksTell DEF Terminal
    <3>3. \E i \in EventsOf("run.terminal") : log[i].reason = db.reason
      BY <3>1, <3>2, MarksAreEvents
    <3>4. EventsOf("score.completed") # {} => status # "failed"
      BY <2>2, MarksTell, MarksAreEvents
    <3>5. db.scored <=> status # "failed"
      BY <2>2, <3>1 DEF RowAt
    <3>6. db.scored <=> EventsOf("score.completed") # {}
      BY <2>3, <3>4, <3>5
    <3>7. db.scored \in BOOLEAN
      BY <2>1 DEF LogInvs, TypeOK, RowType
    <3>8. QED  BY <3>3, <3>6, <3>7
  <2>5. QED  BY <2>3, <2>4 DEF RowFollowsLog
<1>2. QED  BY <1>1, LogInvariant, PTL

\* A limit is named by the terminal event exactly when it was announced, once,
\* and it is exceeded.
THEOREM LimitReasonsAreTrue == Spec => []LimitReasonIsTrue
<1>1. LogInvs => LimitReasonIsTrue
  <2>1. SUFFICES ASSUME LogInvs
                 PROVE  LimitReasonIsTrue
    OBVIOUS
  <2>2. PICK p \in Beginning \cup EndStates : LogAt(p) /\ RowAt(p)
    BY <2>1 DEF LogInvs, LogInv
  <2>3. Cardinality(EventsOf("run.limit")) <= 1
    <3>1. CASE EventsOf("run.limit") = {}
      BY <3>1, FS_EmptySet
    <3>2. CASE EventsOf("run.limit") # {}
      <4>1. PICK i : EventsOf("run.limit") = {i}
        BY <2>1, <3>2 DEF LogInvs, LogInv, OneLimit
      <4>2. QED  BY <4>1, FS_Singleton
    <3>3. QED  BY <3>1, <3>2
  <2>4. ASSUME NEW i \in EventsOf("run.terminal")
        PROVE  /\ log[i].reason \in LimitReason =>
                    /\ Exceeded(tracker, timeUp, log[i].reason)
                    /\ log[i].actions = tracker.actions /\ log[i].invalid = tracker.invalid
               /\ {log[j].limit : j \in EventsOf("run.limit")} = {log[i].reason} \cap LimitReason
    <3>1. log[i] = Terminal /\ p \in {"scoring", "scored", "persisting", "done"}
      BY <2>2, MarksTell, MarksAreEvents
    <3>2. /\ log[i].reason = terminal
          /\ log[i].actions = tracker.actions /\ log[i].invalid = tracker.invalid
      BY <3>1 DEF Terminal
    <3>3. terminal \in LimitReason => Exceeded(tracker, timeUp, terminal)
      BY <2>2, <3>1 DEF LogAt, EndStates
    <3>4. ASSUME NEW j \in EventsOf("run.limit")
          PROVE  log[j].limit \in {terminal} \cap LimitReason
      <4>1. terminal \in LimitReason /\ log[j] = LimitHit(terminal)
        BY <2>2, MarksTell, MarksAreEvents
      <4>2. QED  BY <4>1 DEF LimitHit
    <3>5. ASSUME terminal \in LimitReason
          PROVE  \E j \in EventsOf("run.limit") : log[j].limit = terminal
      <4>1. LimitHit(terminal) \in Marks
        BY <2>2, <3>1, <3>5, MarksTell DEF Ending
      <4>2. LimitHit(terminal).type = "run.limit" /\ LimitHit(terminal).limit = terminal
        BY DEF LimitHit
      <4>3. QED  BY <4>1, <4>2, MarksAreEvents
    <3>6. QED  BY <3>2, <3>3, <3>4, <3>5
  <2>5. QED  BY <2>3, <2>4 DEF LimitReasonIsTrue
<1>2. QED  BY <1>1, LogInvariant, PTL

\* A sequence that is put before another one is a prefix of the two.
LEMMA PrefixOfJoined ==
  ASSUME NEW s, NEW t, IsSeq(s), IsSeq(t)
  PROVE  IsPrefix(s, s \o t)
<1>1. PICK S : s \in Seq(S)
  BY DEF IsSeq
<1>2. PICK T : t \in Seq(T)
  BY DEF IsSeq
<1>3. s \in Seq(S \cup T) /\ s \o t \in Seq(S \cup T)
  BY <1>1, <1>2, ConcatProperties
<1>4. /\ Len(s) \in Nat /\ Len(t) \in Nat /\ Len(s \o t) = Len(s) + Len(t)
      /\ \A i \in 1..Len(s) : (s \o t)[i] = s[i]
  BY Joined
<1>5. SubSeq(s, 1, Len(s)) = SubSeq(s \o t, 1, Len(s))
  BY <1>3, <1>4
<1>6. QED  BY <1>4, <1>5 DEF IsPrefix

\* What is written is never changed, and the terminal event is followed by the
\* score event only.
THEOREM LogsOnlyGrow == Spec => LogOnlyGrows
<1>1. ASSUME LogInvs, Grown, log' # log
      PROVE  /\ IsPrefix(log, log')
             /\ EventsOf("run.terminal") # {} => log' = Append(log, ScoreCompleted)
  <2>1. IsSeq(log)
    BY <1>1 DEF LogInvs, LogInv
  <2>2. CASE /\ \E events : IsSeq(events) /\ log' = log \o events
             /\ \A m \in Marks : m.type # "run.terminal"
    <3>1. IsPrefix(log, log')
      BY <2>1, <2>2, PrefixOfJoined
    <3>2. EventsOf("run.terminal") = {}
      BY <2>2, MarksAreEvents
    <3>3. QED  BY <3>1, <3>2
  <2>3. CASE log' = Append(log, ScoreCompleted)
    <3>1. log' = log \o <<ScoreCompleted>> /\ IsSeq(<<ScoreCompleted>>)
      BY <2>1, <2>3, OneMore, Single
    <3>2. QED  BY <2>1, <2>3, <3>1, PrefixOfJoined
  <2>4. QED  BY <1>1, <2>2, <2>3 DEF Grown
<1>2. LogInvs /\ [Next]_vars =>
        [/\ IsPrefix(log, log')
         /\ EventsOf("run.terminal") # {} /\ log' # log => log' = Append(log, ScoreCompleted)]_log
  BY <1>1, LogStep DEF LogInvs
<1>3. QED  BY <1>2, LogInvariant, PTL DEF Spec, LogOnlyGrows

-------------------------------------------------------------------------------
(***************************************************************************)
(* The flags of the state.  The invariant says what is missing while a     *)
(* denied action waits to be handled, and that the state keeps its shape.  *)
(***************************************************************************)
World(w) == DOMAIN w = {"files", "env", "tests", "flags", "transitions"}

DeniedFlags == DeniedClasses \cap FlagClass

DenialIsOpen == pc = "gated" /\ cur.decision # "allow"

FlagInv ==
  /\ World(world)
  /\ world.flags \subseteq DeniedFlags
  /\ DenialIsOpen => DeniedFlags = world.flags \cup ({cur.class} \cap FlagClass)
  /\ pc # "aborted" /\ ~DenialIsOpen => DeniedFlags = world.flags

\* No handler touches the flags, whatever it does to the rest of the state.
LEMMA HandlersKeepFlags ==
  ASSUME NEW w, World(w), NEW a, NEW n
  PROVE  LET r == Handle(w, a, n)
         IN  /\ DOMAIN r = {"ok", "hint", "raised", "perturbed", "world"}
             /\ World(r.world) /\ r.world.flags = w.flags
<1> DEFINE Kept(v) == World(v) /\ v.flags = w.flags
           Good(r) == /\ DOMAIN r = {"ok", "hint", "raised", "perturbed", "world"}
                      /\ Kept(r.world)
<1>1. \A ok, v : Kept(v) => Good(Result(ok, v))
  BY DEF Result
<1>2. /\ Kept(w)
      /\ \A p, c : Kept([w EXCEPT !.files[p] = c]) /\ Kept([w EXCEPT !.env[p] = c])
      /\ \A t : Kept([w EXCEPT !.tests = t])
  BY DEF World
<1>3. \A r, h : Good(r) => Good([r EXCEPT !.hint = h]) /\ Good([r EXCEPT !.raised = h])
  OBVIOUS
<1> HIDE DEF Kept, Good
<1>4. Good(FsPatch(w, a))
  BY <1>1, <1>2 DEF FsPatch, Write
<1>5. Good(FsDelete(w, a)) /\ Good(EnvSet(w, a))
  BY <1>1, <1>2 DEF FsDelete, EnvSet
<1>6. Good(TestRun(w, a, n))
  <2>1. \A t, raised : Good([Result(TRUE, [w EXCEPT !.tests = t]) EXCEPT !.raised = raised])
    BY <1>1, <1>2, <1>3
  <2>2. Good(Result(FALSE, w))
    BY <1>1, <1>2
  <2>3. QED  BY <2>1, <2>2 DEF TestRun
<1>7. /\ Good(Result(ReadSucceeds(w, a), w)) /\ Good(Result(FALSE, w))
      /\ Good([Result(TRUE, w) EXCEPT !.hint = "submit"])
      /\ Good([Result(TRUE, w) EXCEPT !.hint = "give_up"])
  BY <1>1, <1>2, <1>3
<1>8. Good(Handle(w, a, n))
  BY <1>4, <1>5, <1>6, <1>7 DEF Handle
<1>9. QED  BY <1>8 DEF Good, Kept

\* Nor does apply, whose counter is another field.
LEMMA ApplyKeepsFlags ==
  ASSUME NEW w, World(w), NEW a, NEW n, NEW s
  PROVE  World(Apply(w, a, n, s).world) /\ Apply(w, a, n, s).world.flags = w.flags
<1> DEFINE Good(r) == /\ DOMAIN r = {"ok", "hint", "raised", "perturbed", "world"}
                      /\ World(r.world) /\ r.world.flags = w.flags
<1>1. Good(Handle(w, a, n))
  BY HandlersKeepFlags
<1>2. Good([Result(FALSE, w) EXCEPT !.perturbed = TRUE])
  BY DEF Result
<1>3. \A r : Good(r) => Good([r EXCEPT !.world.transitions = @ + 1])
  BY DEF World
<1> HIDE DEF Good
<1>4. Good(Apply(w, a, n, s))
  BY <1>1, <1>2, <1>3 DEF Apply
<1>5. QED  BY <1>4 DEF Good

\* Events that are no decisions leave the denied classes as they are.
Undecided(events) == IsSeq(events) /\ \A e \in Range(events) : e.type # "policy.decision"

\* The denied classes, by the elements of the log.
LEMMA DeniedAre ==
  ASSUME NEW c
  PROVE  c \in DeniedClasses <=>
           \E e \in Range(log) : e.type = "policy.decision" /\ e.decision # "allow" /\ e.class = c
  BY DEF DeniedClasses, EventsOf, Range

\* The same in the next state.
LEMMA DeniedAreNext ==
  ASSUME NEW c
  PROVE  c \in DeniedClasses' <=>
           \E e \in Range(log') : e.type = "policy.decision" /\ e.decision # "allow" /\ e.class = c
  BY DEF DeniedClasses, EventsOf, Range

\* A log that grows by no decision keeps its denied flags.
LEMMA UndecidedGrowth ==
  ASSUME IsSeq(log), NEW events, Undecided(events), log' = log \o events
  PROVE  DeniedFlags' = DeniedFlags
<1>1. Range(log') = Range(log) \cup Range(events)
  BY JoinedRange DEF Undecided
<1>2. \A c : c \in DeniedClasses' <=> c \in DeniedClasses
  BY <1>1, DeniedAre, DeniedAreNext DEF Undecided
<1>3. QED  BY <1>2 DEF DeniedFlags

\* A decision adds the class of what it denies.
LEMMA DecidedGrowth ==
  ASSUME IsSeq(log), NEW e, NEW f, log' = log \o <<e, f>>, e.type # "policy.decision",
         f.type = "policy.decision"
  PROVE  DeniedFlags' = DeniedFlags \cup (IF f.decision = "allow" THEN {} ELSE {f.class} \cap FlagClass)
<1>1. IsSeq(<<e, f>>) /\ Range(<<e, f>>) = {e, f}
  BY Pair
<1>2. Range(log \o <<e, f>>) = Range(log) \cup Range(<<e, f>>)
  BY <1>1, JoinedRange
<1>3. Range(log') = Range(log) \cup {e, f}
  BY <1>1, <1>2
<1>4. \A c : c \in DeniedClasses' <=> c \in DeniedClasses \/ (f.decision # "allow" /\ c = f.class)
  BY <1>3, DeniedAre, DeniedAreNext
<1>5. QED  BY <1>4 DEF DeniedFlags

-------------------------------------------------------------------------------
(***************************************************************************)
(* What a step writes.  The minor events say nothing of the actions the    *)
(* agent proposed, what was decided about them, and whether they failed.   *)
(***************************************************************************)
Major(e) ==
  \/ e.type \in {"agent.action", "policy.decision", "state.transition"}
  \/ e.type = "run.error" /\ e.kind = "protocol"

Minor(events) == IsSeq(events) /\ \A e \in Range(events) : ~Major(e)

\* Every event is minor but actions, decisions, transitions and protocol errors.
LEMMA MinorEvents ==
  /\ ~Major(Created) /\ ~Major(Started) /\ ~Major(Asked) /\ ~Major(Denied)
  /\ ~Major(Perturbed) /\ ~Major(Fallback) /\ ~Major(Snapshot) /\ ~Major(Terminal)
  /\ ~Major(ScoreCompleted) /\ ~Major(Error("infrastructure"))
  /\ \A r : ~Major(LimitHit(r))
  /\ \A s : ~Major(Observed(s))
  BY DEF Major, Created, Started, Asked, Denied, Perturbed, Fallback, Snapshot, Terminal,
         ScoreCompleted, Error, LimitHit, Observed

\* A minor event alone, present or not.
LEMMA MinorWhen ==
  ASSUME NEW e, ~Major(e)
  PROVE  Minor(<<>>) /\ Minor(<<e>>) /\ \A b : Minor(When(b, e))
  BY Single DEF Minor, When

\* Minor sequences are put together to a minor one.
LEMMA MinorJoined ==
  ASSUME NEW s, NEW t, Minor(s), Minor(t)
  PROVE  Minor(s \o t)
  BY Joined, JoinedRange DEF Minor

\* What a failure and a limit check add is minor.
LEMMA MinorEnds ==
  ASSUME IsSeq(log), NEW events, IsSeq(events),
         InfrastructureFailure(events) \/ (\E t : CheckLimits(t, events))
  PROVE  \E last : Minor(last) /\ log' = log \o (events \o last)
<1>1. PICK last : Minor(last) /\ log' = log \o events \o last
  <2>1. CASE InfrastructureFailure(events)
    BY <2>1, MinorEvents, MinorWhen DEF InfrastructureFailure
  <2>2. CASE \E t : CheckLimits(t, events)
    <3>1. log' = log \o events \o When(terminal' # NoReason, LimitHit(terminal'))
      BY <2>2, CheckedLog
    <3>2. Minor(When(terminal' # NoReason, LimitHit(terminal')))
      BY MinorEvents, MinorWhen
    <3>3. QED  BY <3>1, <3>2
  <2>3. QED  BY <2>1, <2>2
<1>2. IsSeq(last)
  BY <1>1 DEF Minor
<1>3. log \o events \o last = log \o (events \o last)
  BY <1>2, Associates
<1>4. QED  BY <1>1, <1>3

\* The log grows by minor events around the one that matters, with which the
\* counters move.
Writes ==
  \/ \E events : Minor(events) /\ log' = log \o events /\ UNCHANGED tracker
  \/ \E tokens \in TokenReadings, cost \in CostReadings : \E last :
       /\ Minor(last) /\ log' = log \o (<<Error("protocol")>> \o last)
       /\ tracker' = RecordInvalid(ReadUsage(tokens, cost))
  \/ \E first, r : /\ Minor(first) /\ r.ok \in BOOLEAN
                    /\ \E e : /\ e.type = "state.transition" /\ e.ok = r.ok
                              /\ log' = log \o (first \o <<e>>)
                    /\ tracker' = IF r.ok THEN tracker ELSE RecordInvalid(tracker)

Proposes ==
  \E tokens \in TokenReadings, cost \in CostReadings, a \in Actions :
    AgentProposes(a, tokens, cost)

\* Every step but the proposal of an action writes one event that is major, at
\* most, and the counters follow it.
LEMMA StepWrites ==
  ASSUME TypeOK, IsSeq(log), Next, ~Proposes
  PROVE  Writes
<1>1. ASSUME NEW events, Minor(events), UNCHANGED tracker,
             InfrastructureFailure(events) \/ (\E t : CheckLimits(t, events))
      PROVE  Writes
  <2>1. PICK last : Minor(last) /\ log' = log \o (events \o last)
    BY <1>1, MinorEnds DEF Minor
  <2>2. QED  BY <1>1, <2>1, MinorJoined DEF Writes
<1>2. ASSUME UNCHANGED log, UNCHANGED tracker
      PROVE  Writes
  <2>1. log' = log \o <<>> /\ Minor(<<>>)
    BY <1>2, Associates, Single DEF Minor
  <2>2. QED  BY <1>2, <2>1 DEF Writes
<1>3. ASSUME NEW e, ~Major(e), log' = Append(log, e), UNCHANGED tracker
      PROVE  Writes
  <2>1. log' = log \o <<e>> /\ Minor(<<e>>)
    BY <1>3, OneMore, MinorWhen
  <2>2. QED  BY <1>3, <2>1 DEF Writes
<1>4. CASE CreateRun \/ StartRun \/ Freeze \/ Score
  BY <1>3, <1>4, MinorEvents DEF CreateRun, StartRun, Freeze, Score
<1>5. CASE BeginTurn \/ SaveScorecard \/ Persist \/ RequestCancel \/ Escape \/ Ended
  BY <1>2, <1>5 DEF BeginTurn, SaveScorecard, Persist, RequestCancel, Escape, Ended, vars
<1>6. CASE StartAdapter \/ HonorCancel \/ AgentFails \/ RenderFails
  <2>1. Minor(<<>>)
    BY Single DEF Minor
  <2>2. QED
    BY <1>1, <1>2, <1>6, <2>1 DEF StartAdapter, HonorCancel, AgentFails, RenderFails
<1>7. ASSUME NEW tokens \in TokenReadings, NEW cost \in CostReadings,
             AgentMalformed(tokens, cost)
      PROVE  Writes
  <2>1. IsSeq(<<Error("protocol")>>)
    BY Single
  <2>2. PICK last : Minor(last) /\ log' = log \o (<<Error("protocol")>> \o last)
    BY <1>7, <2>1, MinorEnds DEF AgentMalformed
  <2>3. QED  BY <1>7, <2>2 DEF AgentMalformed, Writes
<1>8. CASE DenyAction
  <2> DEFINE asks == cur.decision = "require_approval"
             events == When(asks, Asked) \o When(asks, Denied) \o <<Observed("blocked")>>
  <2>1. Minor(events)
    <3>1. /\ Minor(When(asks, Asked)) /\ Minor(When(asks, Denied))
          /\ Minor(<<Observed("blocked")>>)
      BY MinorEvents, MinorWhen
    <3>2. QED  BY <3>1, MinorJoined
  <2>2. /\ \/ InfrastructureFailure(events)
           \/ log' = log \o events
           \/ CheckLimits(tracker, events)
        /\ UNCHANGED tracker
    BY <1>8 DEF DenyAction
  <2> HIDE DEF events
  <2>3. QED  BY <1>1, <2>1, <2>2 DEF Writes
<1>9. CASE ApplyAction
  <2> DEFINE r == Apply(world, cur.action, turn, seed)
  <2>1. r.ok \in BOOLEAN
    BY <1>9, ApplyType DEF ApplyAction, TypeOK
  <2>2. \/ InfrastructureFailure(<<>>) /\ UNCHANGED tracker
        \/ /\ log' = log \o When(r.perturbed, Perturbed) \o <<Transition(r)>>
           /\ tracker' = IF r.ok THEN tracker ELSE RecordInvalid(tracker)
    BY <1>9 DEF ApplyAction
  <2>3. CASE InfrastructureFailure(<<>>) /\ UNCHANGED tracker
    <3>1. Minor(<<>>)
      BY Single DEF Minor
    <3>2. QED  BY <1>1, <2>3, <3>1
  <2>4. CASE /\ log' = log \o When(r.perturbed, Perturbed) \o <<Transition(r)>>
             /\ tracker' = IF r.ok THEN tracker ELSE RecordInvalid(tracker)
    <3> DEFINE first == When(r.perturbed, Perturbed)
               e == Transition(r)
    <3>1. Minor(first)
      BY MinorEvents, MinorWhen
    <3>2. e.type = "state.transition" /\ e.ok = r.ok
      BY DEF Transition
    <3>3. log' = log \o first \o <<e>>
      BY <2>4
    <3> HIDE DEF first, e
    <3>4. IsSeq(first) /\ IsSeq(<<e>>)
      BY <3>1, Single DEF Minor
    <3>5. log' = log \o (first \o <<e>>)
      <4>1. Regroups(log, first, <<e>>)
        BY <3>4, AllRegroup
      <4>2. QED  BY <3>3, <4>1 DEF Regroups
    <3>6. \E t : /\ t.type = "state.transition" /\ t.ok = r.ok
                 /\ log' = log \o (first \o <<t>>)
      BY <3>2, <3>5
    <3>7. tracker' = IF r.ok THEN tracker ELSE RecordInvalid(tracker)
      BY <2>4
    <3> HIDE DEF r
    <3>8. QED  BY <2>1, <3>1, <3>6, <3>7 DEF Writes
  <2>5. QED  BY <2>2, <2>3, <2>4
<1>10. ASSUME NEW fellBack \in BOOLEAN, Rendered(fellBack)
       PROVE  Writes
  <2> DEFINE events == When(fellBack, Fallback)
                       \o <<Observed(IF cur.ok THEN "ok" ELSE "error")>>
                       \o When(turn % SnapshotInterval = 0, Snapshot)
  <2>1. Minor(events)
    <3>1. /\ Minor(When(fellBack, Fallback))
          /\ Minor(<<Observed(IF cur.ok THEN "ok" ELSE "error")>>)
          /\ Minor(When(turn % SnapshotInterval = 0, Snapshot))
      BY MinorEvents, MinorWhen
    <3>2. QED  BY <3>1, MinorJoined
  <2>2. /\ \/ InfrastructureFailure(events)
           \/ log' = log \o events
           \/ CheckLimits(tracker, events)
        /\ UNCHANGED tracker
    BY <1>10 DEF Rendered
  <2> HIDE DEF events
  <2>3. QED  BY <1>1, <2>1, <2>2 DEF Writes
<1>11. QED
  BY <1>4, <1>5, <1>6, <1>7, <1>8, <1>9, <1>10 DEF Next, Progress, Proposes

\* Every step but the proposal of an action decides nothing.
LEMMA NothingDecided ==
  ASSUME TypeOK, IsSeq(log), Next, ~Proposes
  PROVE  DeniedFlags' = DeniedFlags
<1>1. \A events : Minor(events) => Undecided(events)
  BY DEF Minor, Undecided, Major
<1>2. \A e : e.type # "policy.decision" => Undecided(<<e>>)
  BY Single DEF Undecided
<1>3. \A s, t : Undecided(s) /\ Undecided(t) => Undecided(s \o t)
  BY Joined, JoinedRange DEF Undecided
<1>4. Error("protocol").type # "policy.decision"
  BY DEF Error
<1>5. \E events : Undecided(events) /\ log' = log \o events
  <2>1. Writes
    BY StepWrites
  <2>2. QED  BY <1>1, <1>2, <1>3, <1>4, <2>1 DEF Writes
<1>6. QED  BY <1>5, UndecidedGrowth

\* Every step keeps flags and denials together.
LEMMA NextFlags ==
  ASSUME TypeOK, IsSeq(log), FlagInv, Next
  PROVE  FlagInv'
<1>1. ASSUME NEW tokens \in TokenReadings, NEW cost \in CostReadings, NEW a \in Actions,
             AgentProposes(a, tokens, cost)
      PROVE  FlagInv'
  <2> DEFINE d == Evaluate(a)
             c == ClassifyAction(a)
             e == Proposed(a)
             f == Decided(d, c)
  <2>1. /\ pc = "awaiting" /\ pc' = "gated" /\ UNCHANGED world
        /\ cur' = [IdleTurn EXCEPT !.action = a, !.class = c, !.decision = d]
        /\ log' = log \o <<e, f>>
    BY <1>1 DEF AgentProposes
  <2>2. cur'.class = c /\ cur'.decision = d
    BY <2>1 DEF IdleTurn
  <2>3. e.type # "policy.decision" /\ f.type = "policy.decision" /\ f.decision = d /\ f.class = c
    BY DEF Proposed, Decided
  <2> HIDE DEF c, d, e, f
  <2>4. DeniedFlags' = DeniedFlags \cup (IF d = "allow" THEN {} ELSE {c} \cap FlagClass)
    BY <2>1, <2>3, DecidedGrowth
  <2>5. DeniedFlags = world.flags /\ World(world)
    BY <2>1 DEF FlagInv, DenialIsOpen
  <2>6. QED  BY <2>1, <2>2, <2>4, <2>5 DEF FlagInv, DenialIsOpen, World
<1>2. CASE ~Proposes
  <2>1. DeniedFlags' = DeniedFlags
    BY <1>2, NothingDecided
  <2>2. CASE DenyAction
    <3>1. /\ DenialIsOpen /\ world' = RecordAttemptFlags(world, cur.class)
          /\ pc' \in {"loop", "final"}
      BY <2>2 DEF DenyAction, DenialIsOpen, InfrastructureFailure, CheckLimits, Resume
    <3>2. world'.flags = world.flags \cup ({cur.class} \cap FlagClass) /\ World(world)'
      BY <3>1 DEF FlagInv, World, RecordAttemptFlags
    <3>3. QED  BY <2>1, <3>1, <3>2 DEF FlagInv, DenialIsOpen
  <2>3. CASE ApplyAction
    <3>1. /\ ~DenialIsOpen /\ pc = "gated" /\ pc' \in {"rendering", "final"}
          /\ world' = Apply(world, cur.action, turn, seed).world
      BY <2>3 DEF ApplyAction, DenialIsOpen, InfrastructureFailure
    <3>2. World(world)' /\ world'.flags = world.flags
      BY <3>1, ApplyKeepsFlags DEF FlagInv, World
    <3>3. QED  BY <2>1, <3>1, <3>2 DEF FlagInv, DenialIsOpen
  <2>4. ASSUME UNCHANGED world,
               \/ pc' = "aborted"
               \/ pc' = pc /\ UNCHANGED cur
               \/ pc' # "gated" /\ pc \notin {"gated", "aborted"}
        PROVE  FlagInv'
    BY <2>1, <2>4 DEF FlagInv, DenialIsOpen, World
  <2>5. CASE \/ CreateRun \/ StartRun \/ StartAdapter \/ HonorCancel \/ BeginTurn \/ AgentFails
             \/ RenderFails \/ Freeze \/ Score \/ SaveScorecard \/ Persist
    BY <2>4, <2>5 DEF CreateRun, StartRun, StartAdapter, HonorCancel, BeginTurn, AgentFails,
       RenderFails, Freeze, Score, SaveScorecard, Persist, InfrastructureFailure
  <2>6. ASSUME NEW tokens \in TokenReadings, NEW cost \in CostReadings,
               AgentMalformed(tokens, cost)
        PROVE  FlagInv'
    BY <2>4, <2>6 DEF AgentMalformed, CheckLimits, Resume
  <2>7. ASSUME NEW fellBack \in BOOLEAN, Rendered(fellBack)
        PROVE  FlagInv'
    <3>1. pc = "rendering" /\ pc' \in {"loop", "final"} /\ UNCHANGED world
      BY <2>7 DEF Rendered, CheckLimits, InfrastructureFailure, Resume
    <3>2. QED  BY <2>4, <3>1
  <2>8. CASE RequestCancel \/ Escape \/ Ended
    BY <2>4, <2>8 DEF RequestCancel, Escape, Ended, vars
  <2>9. QED
    BY <1>2, <2>2, <2>3, <2>5, <2>6, <2>7, <2>8 DEF Next, Progress, Proposes
<1>3. QED  BY <1>1, <1>2 DEF Proposes

\* State and log agree on what was denied, at every point of every run.
LEMMA FlagInvariant == Spec => []FlagInv
<1>1. Init => FlagInv
  <2>1. SUFFICES ASSUME Init
                 PROVE  FlagInv
    OBVIOUS
  <2>2. DeniedClasses = {}
    BY <2>1 DEF Init, DeniedClasses, EventsOf
  <2>3. QED  BY <2>1, <2>2 DEF Init, FlagInv, World, BuildInitialState, DeniedFlags, DenialIsOpen
<1>2. LogInvs /\ FlagInv /\ [Next]_vars => FlagInv'
  <2>1. SUFFICES ASSUME LogInvs, FlagInv, [Next]_vars
                 PROVE  FlagInv'
    OBVIOUS
  <2>2. TypeOK /\ IsSeq(log)
    BY <2>1 DEF LogInvs, LogInv
  <2>3. CASE Next
    BY <2>1, <2>2, <2>3, NextFlags
  <2>4. CASE UNCHANGED vars
    BY <2>1, <2>4 DEF vars, FlagInv, World, DeniedFlags, DeniedClasses, EventsOf, DenialIsOpen
  <2>5. QED  BY <2>1, <2>3, <2>4
<1>3. QED  BY <1>1, <1>2, LogInvariant, PTL DEF Spec

\* The flags of the state are the denied attempts of the log, whatever the
\* agent tries and whatever the engine does in between.
THEOREM FlagsAreAttempts == Spec => []FlagsAreDeniedAttempts
<1>1. FlagInv => FlagsAreDeniedAttempts
  BY DEF FlagInv, FlagsAreDeniedAttempts, DeniedFlags, DenialIsOpen, EndStates
<1>2. QED  BY <1>1, FlagInvariant, PTL

-------------------------------------------------------------------------------
(***************************************************************************)
(* What the limits count (the tracker) is what scores and reports count (the *)
(* log), at every point of a run, and the turns of the log are whole.      *)
(***************************************************************************)
(***************************************************************************)
(* What is counted of a log, and the invariant: every counter is the       *)
(* number of the events it stands for, and the largest of the counts by    *)
(* action is the one the tracker keeps apart.                              *)
(***************************************************************************)
Proposals(s) == {i \in DOMAIN s : s[i].type = "agent.action"}
Malformed(s) == {i \in DOMAIN s : s[i].type = "run.error" /\ s[i].kind = "protocol"}
Failures(s) == {i \in DOMAIN s : s[i].type = "state.transition" /\ ~s[i].ok}
ProposalsOf(s, a) == {i \in DOMAIN s : s[i].type = "agent.action" /\ s[i].action = a}

Counted(e) ==
  \/ e.type \in {"agent.action", "state.transition"}
  \/ e.type = "run.error" /\ e.kind = "protocol"

LargestCount ==
  /\ \A a \in Actions : tracker.counts[a] <= tracker.maxRepeated
  /\ tracker.maxRepeated > 0 => \E a \in Actions : tracker.counts[a] = tracker.maxRepeated

CountInv ==
  /\ tracker.actions = Cardinality(Proposals(log))
  /\ tracker.invalid = Cardinality(Malformed(log)) + Cardinality(Failures(log))
  /\ \A a \in Actions : tracker.counts[a] = Cardinality(ProposalsOf(log, a))
  /\ LargestCount

-------------------------------------------------------------------------------
(***************************************************************************)
(* How the counts grow.                                                    *)
(***************************************************************************)
\* Events that are not counted leave every count as it is.
LEMMA Uncounted ==
  ASSUME NEW s, NEW t, IsSeq(s), IsSeq(t), \A e \in Range(t) : ~Counted(e)
  PROVE  /\ Proposals(s \o t) = Proposals(s)
         /\ Malformed(s \o t) = Malformed(s)
         /\ Failures(s \o t) = Failures(s)
         /\ \A a : ProposalsOf(s \o t, a) = ProposalsOf(s, a)
<1> DEFINE u == s \o t
<1>1. /\ DOMAIN s \subseteq DOMAIN u
      /\ \A i \in DOMAIN s : u[i] = s[i]
  BY Joined
<1>2. ASSUME NEW i \in DOMAIN u, Counted(u[i])
      PROVE  i \in DOMAIN s
  <2>1. CASE i <= Len(s)
    BY <2>1, Joined
  <2>2. CASE ~(i <= Len(s))
    <3>1. PICK k \in 1..Len(t) : i = Len(s) + k
      <4>1. i - Len(s) \in 1..Len(t) /\ i = Len(s) + (i - Len(s))
        BY <2>2, Joined
      <4>2. QED  BY <4>1
    <3>2. u[i] = t[k] /\ k \in DOMAIN t
      BY <3>1, Joined
    <3>3. QED  BY <1>2, <3>2 DEF Range
  <2>3. QED  BY <2>1, <2>2
<1> HIDE DEF u
<1>3. Proposals(u) = Proposals(s)
  BY <1>1, <1>2 DEF Proposals, Counted
<1>4. Malformed(u) = Malformed(s)
  BY <1>1, <1>2 DEF Malformed, Counted
<1>5. Failures(u) = Failures(s)
  BY <1>1, <1>2 DEF Failures, Counted
<1>6. \A a : ProposalsOf(u, a) = ProposalsOf(s, a)
  BY <1>1, <1>2 DEF ProposalsOf, Counted
<1>7. QED  BY <1>3, <1>4, <1>5, <1>6 DEF u

\* Every count is a number.
LEMMA CountsAreNumbers ==
  ASSUME NEW s, IsSeq(s)
  PROVE  /\ IsFiniteSet(Proposals(s)) /\ Cardinality(Proposals(s)) \in Nat
         /\ IsFiniteSet(Malformed(s)) /\ Cardinality(Malformed(s)) \in Nat
         /\ IsFiniteSet(Failures(s)) /\ Cardinality(Failures(s)) \in Nat
         /\ \A a : IsFiniteSet(ProposalsOf(s, a)) /\ Cardinality(ProposalsOf(s, a)) \in Nat
<1>1. IsFiniteSet(DOMAIN s)
  <2>1. DOMAIN s = 1..Len(s) /\ Len(s) \in Nat
    BY Joined
  <2>2. QED  BY <2>1, FS_Interval
<1>2. \A T \in SUBSET DOMAIN s : IsFiniteSet(T) /\ Cardinality(T) \in Nat
  BY <1>1, FS_Subset, FS_CardinalityType
<1>3. /\ Proposals(s) \subseteq DOMAIN s /\ Malformed(s) \subseteq DOMAIN s
      /\ Failures(s) \subseteq DOMAIN s /\ \A a : ProposalsOf(s, a) \subseteq DOMAIN s
  BY DEF Proposals, Malformed, Failures, ProposalsOf
<1>4. QED  BY <1>2, <1>3

\* The counts of t are those of s and one for e.
OneMoreCount(s, e, t) ==
  /\ Cardinality(Proposals(t)) =
       Cardinality(Proposals(s)) + (IF e.type = "agent.action" THEN 1 ELSE 0)
  /\ Cardinality(Malformed(t)) =
       Cardinality(Malformed(s)) + (IF e.type = "run.error" /\ e.kind = "protocol" THEN 1 ELSE 0)
  /\ Cardinality(Failures(t)) =
       Cardinality(Failures(s)) + (IF e.type = "state.transition" /\ ~e.ok THEN 1 ELSE 0)
  /\ \A a : Cardinality(ProposalsOf(t, a)) =
              Cardinality(ProposalsOf(s, a))
              + (IF e.type = "agent.action" /\ e.action = a THEN 1 ELSE 0)

\* One more event counts once, as what it is.
LEMMA OneCounted ==
  ASSUME NEW s, NEW e, IsSeq(s)
  PROVE  OneMoreCount(s, e, s \o <<e>>)
<1> DEFINE t == s \o <<e>>
           n == Len(s) + 1
<1>1. /\ DOMAIN t = DOMAIN s \cup {n} /\ n \notin DOMAIN s
      /\ \A i \in DOMAIN s : t[i] = s[i]
      /\ t[n] = e
  BY Joined, Single
<1> HIDE DEF t, n
<1>2. Proposals(t) = Proposals(s) \cup (IF e.type = "agent.action" THEN {n} ELSE {})
  BY <1>1 DEF Proposals
<1>3. Malformed(t) =
        Malformed(s) \cup (IF e.type = "run.error" /\ e.kind = "protocol" THEN {n} ELSE {})
  BY <1>1 DEF Malformed
<1>4. Failures(t) = Failures(s) \cup (IF e.type = "state.transition" /\ ~e.ok THEN {n} ELSE {})
  BY <1>1 DEF Failures
<1>5. \A a : ProposalsOf(t, a) =
               ProposalsOf(s, a) \cup (IF e.type = "agent.action" /\ e.action = a THEN {n} ELSE {})
  BY <1>1 DEF ProposalsOf
<1>6. ASSUME NEW S, IsFiniteSet(S), Cardinality(S) \in Nat, n \notin S
      PROVE  /\ Cardinality(S \cup {n}) = Cardinality(S) + 1
             /\ S \cup {} = S /\ Cardinality(S) = Cardinality(S) + 0
  BY <1>6, FS_AddElement
<1>7. /\ n \notin Proposals(s) /\ n \notin Malformed(s) /\ n \notin Failures(s)
      /\ \A a : n \notin ProposalsOf(s, a)
  BY <1>1 DEF Proposals, Malformed, Failures, ProposalsOf
<1>8. Cardinality(Proposals(t)) =
        Cardinality(Proposals(s)) + (IF e.type = "agent.action" THEN 1 ELSE 0)
  BY <1>2, <1>6, <1>7, CountsAreNumbers
<1>9. Cardinality(Malformed(t)) =
        Cardinality(Malformed(s)) + (IF e.type = "run.error" /\ e.kind = "protocol" THEN 1 ELSE 0)
  BY <1>3, <1>6, <1>7, CountsAreNumbers
<1>10. Cardinality(Failures(t)) =
         Cardinality(Failures(s)) + (IF e.type = "state.transition" /\ ~e.ok THEN 1 ELSE 0)
  BY <1>4, <1>6, <1>7, CountsAreNumbers
<1>11. ASSUME NEW a
       PROVE  Cardinality(ProposalsOf(t, a)) =
                Cardinality(ProposalsOf(s, a))
                + (IF e.type = "agent.action" /\ e.action = a THEN 1 ELSE 0)
  BY <1>5, <1>6, <1>7, CountsAreNumbers
<1>12. QED  BY <1>8, <1>9, <1>10, <1>11 DEF t, OneMoreCount

-------------------------------------------------------------------------------
(***************************************************************************)
(* The steps.                                                              *)
(***************************************************************************)
\* Two events are one and another.
LEMMA PairJoins ==
  ASSUME NEW e, NEW f
  PROVE  <<e>> \o <<f>> = <<e, f>>
<1>1. <<e, f>> \in Seq({e, f}) /\ Len(<<e, f>>) = 2 /\ <<e, f>>[1] = e /\ <<e, f>>[2] = f
  OBVIOUS
<1>2. <<e>> \in Seq({e, f}) /\ Len(<<e>>) = 1 /\ <<e>>[1] = e
  OBVIOUS
<1>3. <<f>> \in Seq({e, f}) /\ Len(<<f>>) = 1 /\ <<f>>[1] = f
  OBVIOUS
<1> DEFINE s == <<e>>
           t == <<f>>
           u == <<e, f>>
<1>4. /\ s \in Seq({e, f}) /\ Len(s) = 1 /\ s[1] = e
      /\ t \in Seq({e, f}) /\ Len(t) = 1 /\ t[1] = f
      /\ u \in Seq({e, f}) /\ Len(u) = 2 /\ u[1] = e /\ u[2] = f
  BY <1>1, <1>2, <1>3
<1> HIDE DEF s, t, u
<1>5. s \o t = u
  <2>1. s \o t \in Seq({e, f}) /\ Len(s \o t) = 2
    BY <1>4, ConcatProperties
  <2>2. (s \o t)[1] = e /\ (s \o t)[2] = f
    BY <1>4, ConcatProperties
  <2>3. \A i \in 1..2 : (s \o t)[i] = u[i]
    <3>1. \A i \in 1..2 : i = 1 \/ i = 2
      OBVIOUS
    <3>2. QED  BY <1>4, <2>2, <3>1
  <2>4. QED  BY <1>4, <2>1, <2>3, SeqEqual
<1>6. QED  BY <1>5 DEF s, t, u

\* The log t is the log s grown by e, and by events that are not counted
\* before and behind it.
Around(s, e, t) ==
  \E first, last :
    /\ IsSeq(first) /\ \A x \in Range(first) : ~Counted(x)
    /\ IsSeq(last) /\ \A x \in Range(last) : ~Counted(x)
    /\ t = ((s \o first) \o <<e>>) \o last

\* The counts move with the one event of a step that is counted.
LEMMA CountsMove ==
  ASSUME NEW s, NEW t, NEW e, IsSeq(s), Around(s, e, t)
  PROVE  OneMoreCount(s, e, t)
<1>1. PICK first, last :
        /\ IsSeq(first) /\ \A x \in Range(first) : ~Counted(x)
        /\ IsSeq(last) /\ \A x \in Range(last) : ~Counted(x)
        /\ t = ((s \o first) \o <<e>>) \o last
  BY DEF Around
<1> DEFINE u == s \o first
           v == u \o <<e>>
<1>2. IsSeq(u) /\ IsSeq(<<e>>)
  BY <1>1, Joined, Single
<1>3. IsSeq(v)
  BY <1>2, Joined
<1>4. /\ Proposals(u) = Proposals(s) /\ Malformed(u) = Malformed(s) /\ Failures(u) = Failures(s)
      /\ \A a : ProposalsOf(u, a) = ProposalsOf(s, a)
  BY <1>1, Uncounted
<1> HIDE DEF u
<1>5. OneMoreCount(u, e, v)
  BY <1>2, OneCounted
<1> HIDE DEF v
<1>6. /\ Proposals(v \o last) = Proposals(v) /\ Malformed(v \o last) = Malformed(v)
      /\ Failures(v \o last) = Failures(v)
      /\ \A a : ProposalsOf(v \o last, a) = ProposalsOf(v, a)
  BY <1>1, <1>3, Uncounted
<1>7. t = v \o last
  BY <1>1 DEF u, v
<1>8. QED  BY <1>4, <1>5, <1>6, <1>7 DEF OneMoreCount

\* A proposed action is counted as one action more, and once more as itself.
LEMMA ProposalCounts ==
  ASSUME TypeOK, IsSeq(log), CountInv,
         NEW tokens \in TokenReadings, NEW cost \in CostReadings, NEW a \in Actions,
         AgentProposes(a, tokens, cost)
  PROVE  CountInv'
<1> DEFINE e == Proposed(a)
           f == Decided(Evaluate(a), ClassifyAction(a))
<1>1. log' = log \o <<e, f>> /\ tracker' = RecordAction(ReadUsage(tokens, cost), a)
  BY DEF AgentProposes
<1>2. e.type = "agent.action" /\ e.action = a /\ ~Counted(f)
  BY DEF Proposed, Decided, Counted
<1> HIDE DEF e, f
<1>3. log' = ((log \o <<>>) \o <<e>>) \o <<f>>
  <2>1. PICK S : log \in Seq(S)
    BY DEF IsSeq
  <2>2. <<e>> \o <<f>> = <<e, f>>
    BY PairJoins
  <2>3. IsSeq(<<e>>) /\ IsSeq(<<f>>)
    BY Single
  <2>4. (log \o <<e>>) \o <<f>> = log \o (<<e>> \o <<f>>) /\ log \o <<>> = log
    BY <2>3, Associates
  <2>5. QED  BY <1>1, <2>2, <2>4
<1>4. Around(log, e, log')
  <2>1. /\ IsSeq(<<>>) /\ \A x \in Range(<<>>) : ~Counted(x)
        /\ IsSeq(<<f>>) /\ \A x \in Range(<<f>>) : ~Counted(x)
    BY <1>2, Single
  <2>2. QED  BY <1>3, <2>1, Zenon DEF Around
<1>5. /\ Cardinality(Proposals(log')) = Cardinality(Proposals(log)) + 1
      /\ Cardinality(Malformed(log')) = Cardinality(Malformed(log)) + 0
      /\ Cardinality(Failures(log')) = Cardinality(Failures(log)) + 0
      /\ \A b : Cardinality(ProposalsOf(log', b)) =
                  Cardinality(ProposalsOf(log, b)) + (IF a = b THEN 1 ELSE 0)
  <2>1. OneMoreCount(log, e, log')
    BY <1>4, CountsMove
  <2>2. QED  BY <1>2, <2>1 DEF OneMoreCount
<1> DEFINE count == tracker.counts[a] + 1
<1>6. /\ tracker'.actions = tracker.actions + 1 /\ tracker'.invalid = tracker.invalid
      /\ tracker'.counts = [tracker.counts EXCEPT ![a] = count]
      /\ tracker'.maxRepeated = IF count > tracker.maxRepeated THEN count ELSE tracker.maxRepeated
  BY <1>1 DEF TypeOK, TrackerType, RecordAction, ReadUsage
<1>7. /\ tracker.counts \in [Actions -> Nat] /\ tracker.maxRepeated \in Nat
      /\ tracker.actions \in Nat /\ tracker.invalid \in Nat
  BY DEF TypeOK, TrackerType
<1>8. /\ tracker'.counts[a] = count
      /\ \A b \in Actions \ {a} : tracker'.counts[b] = tracker.counts[b]
  BY <1>6, <1>7
<1>9. /\ tracker'.actions = Cardinality(Proposals(log'))
      /\ tracker'.invalid = Cardinality(Malformed(log')) + Cardinality(Failures(log'))
  BY <1>5, <1>6, CountsAreNumbers DEF CountInv
<1>10. \A b \in Actions : tracker'.counts[b] = Cardinality(ProposalsOf(log', b))
  BY <1>5, <1>8, CountsAreNumbers DEF CountInv
<1>11. LargestCount'
  <2>1. \A b \in Actions : tracker'.counts[b] <= tracker'.maxRepeated
    <3>1. count \in Nat
      BY <1>7
    <3> HIDE DEF count
    <3>2. ASSUME NEW b \in Actions
          PROVE  tracker'.counts[b] <= tracker'.maxRepeated
      <4>1. tracker.counts[b] \in Nat /\ tracker.counts[b] <= tracker.maxRepeated
        BY <1>7 DEF CountInv, LargestCount
      <4>2. CASE b = a
        BY <1>6, <1>7, <1>8, <3>1, <4>2
      <4>3. CASE b # a
        BY <1>6, <1>7, <1>8, <3>1, <4>1, <4>3
      <4>4. QED  BY <4>2, <4>3
    <3>3. QED  BY <3>2
  <2>2. \E b \in Actions : tracker'.counts[b] = tracker'.maxRepeated
    <3>1. CASE count > tracker.maxRepeated
      BY <1>6, <1>8, <3>1
    <3>2. CASE ~(count > tracker.maxRepeated)
      <4>1. tracker.maxRepeated > 0
        BY <1>7, <3>2
      <4>2. PICK b \in Actions : tracker.counts[b] = tracker.maxRepeated
        BY <4>1 DEF CountInv, LargestCount
      <4>3. b # a
        BY <1>7, <3>2, <4>2
      <4>4. QED  BY <1>6, <1>8, <3>2, <4>2, <4>3
    <3>3. QED  BY <3>1, <3>2
  <2>3. QED  BY <2>1, <2>2 DEF LargestCount
<1>12. QED  BY <1>9, <1>10, <1>11 DEF CountInv

\* A step that writes only minor events keeps the counts.
LEMMA MinorKeeps ==
  ASSUME IsSeq(log), CountInv, NEW events, Minor(events), log' = log \o events, UNCHANGED tracker
  PROVE  CountInv'
<1>1. /\ Proposals(log') = Proposals(log) /\ Malformed(log') = Malformed(log)
      /\ Failures(log') = Failures(log)
      /\ \A a : ProposalsOf(log', a) = ProposalsOf(log, a)
  BY Uncounted DEF Minor, Major, Counted
<1>2. QED  BY <1>1 DEF CountInv, LargestCount

\* An invalid answer counts as one; so does an action the engine refuses.
LEMMA InvalidCounts ==
  ASSUME TypeOK, IsSeq(log), CountInv, NEW e, Around(log, e, log'), e.type # "agent.action",
         tracker'.actions = tracker.actions, tracker'.counts = tracker.counts,
         tracker'.maxRepeated = tracker.maxRepeated,
         tracker'.invalid = tracker.invalid +
           (IF \/ e.type = "run.error" /\ e.kind = "protocol"
               \/ e.type = "state.transition" /\ ~e.ok
            THEN 1 ELSE 0)
  PROVE  CountInv'
<1>1. OneMoreCount(log, e, log')
  BY CountsMove
<1>2. /\ Cardinality(Proposals(log')) = Cardinality(Proposals(log))
      /\ \A a : Cardinality(ProposalsOf(log', a)) = Cardinality(ProposalsOf(log, a))
  BY <1>1, CountsAreNumbers DEF OneMoreCount
<1>3. tracker'.invalid = Cardinality(Malformed(log')) + Cardinality(Failures(log'))
  BY <1>1, CountsAreNumbers DEF OneMoreCount, CountInv
<1>4. LargestCount'
  BY DEF CountInv, LargestCount
<1>5. QED  BY <1>2, <1>3, <1>4 DEF CountInv

\* Every step keeps tracker and log together.
LEMMA NextCounts ==
  ASSUME TypeOK, IsSeq(log), CountInv, Next
  PROVE  CountInv'
<1>1. CASE Proposes
  BY <1>1, ProposalCounts DEF Proposes
<1>2. ASSUME NEW events, Minor(events), log' = log \o events, UNCHANGED tracker
      PROVE  CountInv'
  BY <1>2, MinorKeeps
<1>3. \A events : Minor(events) => IsSeq(events) /\ \A x \in Range(events) : ~Counted(x)
  BY DEF Minor, Major, Counted
<1>4. ASSUME NEW tokens \in TokenReadings, NEW cost \in CostReadings, NEW last, Minor(last),
             log' = log \o (<<Error("protocol")>> \o last),
             tracker' = RecordInvalid(ReadUsage(tokens, cost))
      PROVE  CountInv'
  <2> DEFINE e == Error("protocol")
  <2>1. e.type = "run.error" /\ e.kind = "protocol"
    BY DEF Error
  <2> HIDE DEF e
  <2>2. /\ tracker'.actions = tracker.actions /\ tracker'.counts = tracker.counts
        /\ tracker'.maxRepeated = tracker.maxRepeated /\ tracker'.invalid = tracker.invalid + 1
    BY <1>4 DEF TypeOK, TrackerType, RecordInvalid, ReadUsage
  <2>3. log' = ((log \o <<>>) \o <<e>>) \o last
    <3>1. IsSeq(<<e>>) /\ IsSeq(last)
      BY <1>4, Single DEF Minor
    <3>2. log \o <<>> = log /\ (log \o <<e>>) \o last = log \o (<<e>> \o last)
      BY <3>1, Associates
    <3>3. log' = log \o (<<e>> \o last)
      BY <1>4 DEF e
    <3>4. QED  BY <3>2, <3>3
  <2>4. Around(log, e, log')
    <3>1. /\ IsSeq(<<>>) /\ \A x \in Range(<<>>) : ~Counted(x)
          /\ IsSeq(last) /\ \A x \in Range(last) : ~Counted(x)
      BY <1>3, <1>4, Single
    <3>2. QED  BY <2>3, <3>1, Zenon DEF Around
  <2>5. QED  BY <2>1, <2>2, <2>4, InvalidCounts
<1>5. ASSUME NEW first, NEW e, NEW ok \in BOOLEAN, Minor(first),
             e.type = "state.transition", e.ok = ok, log' = log \o (first \o <<e>>),
             tracker' = IF ok THEN tracker ELSE RecordInvalid(tracker)
      PROVE  CountInv'
  <2>1. /\ tracker'.actions = tracker.actions /\ tracker'.counts = tracker.counts
        /\ tracker'.maxRepeated = tracker.maxRepeated
        /\ tracker'.invalid = tracker.invalid + (IF ok THEN 0 ELSE 1)
    BY <1>5 DEF TypeOK, TrackerType, RecordInvalid
  <2>2. log' = ((log \o first) \o <<e>>) \o <<>>
    <3>1. IsSeq(first) /\ IsSeq(<<e>>)
      BY <1>5, Single DEF Minor
    <3>2. IsSeq(log \o first)
      BY <3>1, Joined
    <3>3. IsSeq((log \o first) \o <<e>>) /\ IsSeq(<<>>)
      BY <3>1, <3>2, Joined, Single
    <3>4. (log \o first) \o <<e>> = log \o (first \o <<e>>)
      BY <3>1, Associates
    <3>5. ((log \o first) \o <<e>>) \o <<>> = (log \o first) \o <<e>>
      BY <3>3, Associates
    <3>6. QED  BY <1>5, <3>4, <3>5
  <2>3. Around(log, e, log')
    <3>1. /\ IsSeq(<<>>) /\ \A x \in Range(<<>>) : ~Counted(x)
          /\ IsSeq(first) /\ \A x \in Range(first) : ~Counted(x)
      BY <1>3, <1>5, Single
    <3>2. QED  BY <2>2, <3>1, Zenon DEF Around
  <2>4. QED  BY <1>5, <2>1, <2>3, InvalidCounts
<1>6. CASE ~Proposes
  <2>1. Writes
    BY <1>6, StepWrites
  <2>2. QED  BY <1>2, <1>4, <1>5, <2>1 DEF Writes
<1>7. QED  BY <1>1, <1>6

\* The tracker counts what the log holds, at every point of every run.
LEMMA CountInvariant == Spec => []CountInv
<1>1. Init => CountInv
  <2>1. SUFFICES ASSUME Init
                 PROVE  CountInv
    OBVIOUS
  <2>2. log = <<>> /\ tracker = NewTracker
    BY <2>1 DEF Init
  <2>3. /\ Proposals(log) = {} /\ Malformed(log) = {} /\ Failures(log) = {}
        /\ \A a : ProposalsOf(log, a) = {}
    BY <2>2 DEF Proposals, Malformed, Failures, ProposalsOf
  <2>4. /\ tracker.actions = 0 /\ tracker.invalid = 0 /\ tracker.maxRepeated = 0
        /\ \A a \in Actions : tracker.counts[a] = 0
    BY <2>2 DEF NewTracker
  <2>5. Cardinality({}) = 0
    BY FS_EmptySet
  <2>6. LargestCount
    BY <2>4 DEF LargestCount
  <2>7. QED  BY <2>3, <2>4, <2>5, <2>6 DEF CountInv
<1>2. LogInvs /\ CountInv /\ [Next]_vars => CountInv'
  <2>1. SUFFICES ASSUME LogInvs, CountInv, [Next]_vars
                 PROVE  CountInv'
    OBVIOUS
  <2>2. TypeOK /\ IsSeq(log)
    BY <2>1 DEF LogInvs, LogInv
  <2>3. CASE Next
    BY <2>1, <2>2, <2>3, NextCounts
  <2>4. CASE UNCHANGED vars
    BY <2>1, <2>4 DEF vars, CountInv, LargestCount
  <2>5. QED  BY <2>1, <2>3, <2>4
<1>3. QED  BY <1>1, <1>2, LogInvariant, PTL DEF Spec

\* The counters the limits are checked with are those of the log, from which a
\* run is scored, at every point of every run.
THEOREM TrackersMatchLogs == Spec => []TrackerMatchesLog
<1>1. CountInv => TrackerMatchesLog
  <2>1. SUFFICES ASSUME CountInv
                 PROVE  TrackerMatchesLog
    OBVIOUS
  <2>2. /\ EventsOf("agent.action") = Proposals(log) /\ Errors("protocol") = Malformed(log)
        /\ {i \in EventsOf("state.transition") : ~log[i].ok} = Failures(log)
        /\ \A a : {i \in EventsOf("agent.action") : log[i].action = a} = ProposalsOf(log, a)
    BY DEF EventsOf, Errors, Proposals, Malformed, Failures, ProposalsOf
  <2>3. QED  BY <2>1, <2>2 DEF CountInv, LargestCount, TrackerMatchesLog
<1>2. QED  BY <1>1, CountInvariant, PTL

-------------------------------------------------------------------------------
(***************************************************************************)
(* Turns.  N counts, in a sequence of events, those of a kind at a turn;   *)
(* a kind is a type of event, an allowing decision or a protocol error.    *)
(* TurnInv says what a turn has when execute() stands in the middle of it. *)
(***************************************************************************)
Kinds ==
  {"agent.action", "policy.decision", "approval.requested", "approval.resolved",
   "state.transition", "observation.rendered", "allowed", "malformed"}

Is(k, e) ==
  \/ k \notin {"allowed", "malformed"} /\ e.type = k
  \/ k = "allowed" /\ e.type = "policy.decision" /\ e.decision = "allow"
  \/ k = "malformed" /\ e.type = "run.error" /\ e.kind = "protocol"

At(s, k, t) == {i \in DOMAIN s : Is(k, s[i]) /\ s[i].turn = t}
N(s, k, t) == Cardinality(At(s, k, t))

Quiet(s) == IsSeq(s) /\ \A k \in Kinds, t \in Nat : N(s, k, t) = 0

Unbegun(t) == \A k \in Kinds : N(log, k, t) = 0

Whole(t) ==
  /\ N(log, "agent.action", t) = (IF N(log, "malformed", t) = 0 THEN 1 ELSE 0)
  /\ N(log, "policy.decision", t) = N(log, "agent.action", t)
  /\ N(log, "observation.rendered", t) = N(log, "agent.action", t)
  /\ N(log, "state.transition", t) = (IF N(log, "allowed", t) = 0 THEN 0 ELSE 1)
  /\ N(log, "approval.requested", t) = N(log, "approval.resolved", t)

\* An action and its decision, and a transition when it was applied.
UnderWay(t, allowed, applied) ==
  /\ N(log, "malformed", t) = 0
  /\ N(log, "agent.action", t) = 1
  /\ N(log, "policy.decision", t) = 1
  /\ N(log, "allowed", t) = (IF allowed THEN 1 ELSE 0)
  /\ N(log, "state.transition", t) = (IF applied THEN 1 ELSE 0)
  /\ N(log, "observation.rendered", t) = 0
  /\ N(log, "approval.requested", t) = 0
  /\ N(log, "approval.resolved", t) = 0

TurnInv ==
  /\ \A t \in Nat : t > turn => Unbegun(t)
  /\ \A t \in 1..turn : t # turn => Whole(t)
  /\ pc \in {"new", "created", "starting"} => turn = 0
  /\ pc = "loop" => turn = 0 \/ Whole(turn)
  /\ pc = "awaiting" => Unbegun(turn)
  /\ pc = "gated" => UnderWay(turn, cur.decision = "allow", FALSE)
  /\ pc = "rendering" => UnderWay(turn, TRUE, TRUE)
  /\ pc \in EndStates => status = "failed" \/ turn = 0 \/ Whole(turn)

-------------------------------------------------------------------------------
(***************************************************************************)
(* Counting at a turn.                                                     *)
(***************************************************************************)
\* What is counted is counted in each part of a sequence.
LEMMA CountsAdd ==
  ASSUME NEW r, NEW s, IsSeq(r), IsSeq(s), NEW k, NEW t
  PROVE  /\ N(r, k, t) \in Nat /\ N(s, k, t) \in Nat
         /\ N(r \o s, k, t) = N(r, k, t) + N(s, k, t)
<1> DEFINE u == r \o s
           A == At(r, k, t)
           B == At(s, k, t)
           C == {i \in DOMAIN u : i > Len(r) /\ Is(k, u[i]) /\ u[i].turn = t}
<1>1. /\ Len(r) \in Nat /\ Len(s) \in Nat
      /\ DOMAIN r = 1..Len(r) /\ DOMAIN s = 1..Len(s) /\ DOMAIN u = 1..(Len(r) + Len(s))
      /\ \A i \in 1..Len(r) : u[i] = r[i]
      /\ \A i \in 1..Len(s) : u[Len(r) + i] = s[i]
  BY Joined
<1> HIDE DEF u
<1>2. At(u, k, t) = A \cup C
  <2>1. \A i \in DOMAIN u : i \in DOMAIN r \/ i > Len(r)
    BY <1>1
  <2>2. \A i \in DOMAIN r : i \in DOMAIN u /\ u[i] = r[i]
    BY <1>1
  <2>3. QED  BY <2>1, <2>2 DEF At
<1>3. A \cap C = {}
  <2>1. \A i \in DOMAIN r : ~(i > Len(r))
    BY <1>1
  <2>2. QED  BY <2>1 DEF At
<1>4. /\ A \subseteq 1..Len(r) /\ B \subseteq 1..Len(s)
  BY <1>1 DEF At
<1>5. /\ IsFiniteSet(A) /\ Cardinality(A) \in Nat
      /\ IsFiniteSet(B) /\ Cardinality(B) \in Nat
  <2>1. IsFiniteSet(1..Len(r)) /\ IsFiniteSet(1..Len(s))
    BY <1>1, FS_Interval
  <2>2. QED  BY <1>4, <2>1, FS_Subset, FS_CardinalityType
<1>6. IsFiniteSet(C) /\ Cardinality(C) = Cardinality(B)
  <2> DEFINE f == [i \in B |-> Len(r) + i]
  <2>1. f \in [B -> C]
    <3>1. ASSUME NEW i \in B
          PROVE  Len(r) + i \in C
      <4>1. i \in 1..Len(s) /\ Is(k, s[i]) /\ s[i].turn = t
        BY <1>1 DEF At
      <4>2. Len(r) + i \in DOMAIN u /\ Len(r) + i > Len(r) /\ u[Len(r) + i] = s[i]
        BY <1>1, <4>1
      <4>3. QED  BY <4>1, <4>2
    <3>2. QED  BY <3>1
  <2>2. \A i, j \in B : f[i] = f[j] => i = j
    BY <1>1, <1>4
  <2>3. \A j \in C : \E i \in B : f[i] = j
    <3>1. SUFFICES ASSUME NEW j \in C
                   PROVE  \E i \in B : f[i] = j
      OBVIOUS
    <3>2. j - Len(r) \in 1..Len(s) /\ Len(r) + (j - Len(r)) = j
      BY <1>1
    <3>3. u[j] = s[j - Len(r)]
      BY <1>1, <3>2
    <3>4. j - Len(r) \in B
      BY <1>1, <3>2, <3>3 DEF At
    <3>5. QED  BY <3>2, <3>4
  <2>4. f \in Bijection(B, C)
    BY <2>1, <2>2, <2>3 DEF Bijection, Injection, Surjection, IsInjective
  <2>5. ExistsBijection(B, C)
    BY <2>4 DEF ExistsBijection
  <2>6. QED  BY <1>5, <2>5, FS_Bijection
<1>7. Cardinality(A \cup C) = Cardinality(A) + Cardinality(C)
  <2>1. Cardinality(A \cup C) = Cardinality(A) + Cardinality(C) - Cardinality(A \cap C)
    BY <1>5, <1>6, FS_Union
  <2>2. Cardinality(A \cap C) = 0
    BY <1>3, FS_EmptySet
  <2>3. QED  BY <1>5, <1>6, <2>1, <2>2
<1>8. QED  BY <1>2, <1>5, <1>6, <1>7 DEF N, u

\* A count is zero when there is none.
LEMMA CountsFinite ==
  ASSUME NEW s, IsSeq(s), NEW k, NEW t
  PROVE  N(s, k, t) = 0 <=> At(s, k, t) = {}
<1>1. IsFiniteSet(At(s, k, t))
  <2>1. DOMAIN s = 1..Len(s) /\ Len(s) \in Nat
    BY Joined
  <2>2. At(s, k, t) \subseteq 1..Len(s)
    BY <2>1 DEF At
  <2>3. IsFiniteSet(1..Len(s))
    BY <2>1, FS_Interval
  <2>4. QED  BY <2>2, <2>3, FS_Subset
<1>2. QED  BY <1>1, FS_EmptySet DEF N

\* One event, and one that may be there or not.
LEMMA CountsOne ==
  ASSUME NEW e, NEW k, NEW t
  PROVE  /\ N(<<e>>, k, t) = IF Is(k, e) /\ e.turn = t THEN 1 ELSE 0
         /\ N(<<>>, k, t) = 0
         /\ \A b : N(When(b, e), k, t) = IF b /\ Is(k, e) /\ e.turn = t THEN 1 ELSE 0
<1>1. At(<<e>>, k, t) = IF Is(k, e) /\ e.turn = t THEN {1} ELSE {}
  BY Single DEF At
<1>2. At(<<>>, k, t) = {}
  BY DEF At
<1>3. N(<<e>>, k, t) = (IF Is(k, e) /\ e.turn = t THEN 1 ELSE 0) /\ N(<<>>, k, t) = 0
  BY <1>1, <1>2, FS_EmptySet, FS_Singleton DEF N
<1>4. QED  BY <1>3 DEF When

\* Of which kinds each event of a turn is, and that the others are of none.
LEMMA KindsOf ==
  ASSUME NEW k \in Kinds
  PROVE  /\ \A a : Is(k, Proposed(a)) <=> k = "agent.action"
         /\ \A d, c : Is(k, Decided(d, c)) <=>
                        k = "policy.decision" \/ (k = "allowed" /\ d = "allow")
         /\ Is(k, Asked) <=> k = "approval.requested"
         /\ Is(k, Denied) <=> k = "approval.resolved"
         /\ \A r : Is(k, Transition(r)) <=> k = "state.transition"
         /\ \A s : Is(k, Observed(s)) <=> k = "observation.rendered"
         /\ Is(k, Error("protocol")) <=> k = "malformed"
         /\ ~Is(k, Error("infrastructure")) /\ \A r : ~Is(k, LimitHit(r))
         /\ ~Is(k, Perturbed) /\ ~Is(k, Fallback) /\ ~Is(k, Snapshot)
         /\ ~Is(k, Created) /\ ~Is(k, Started) /\ ~Is(k, Terminal) /\ ~Is(k, ScoreCompleted)
  BY DEF Kinds, Is, Proposed, Decided, Asked, Denied, Transition, Observed, Error, LimitHit,
         Perturbed, Fallback, Snapshot, Created, Started, Terminal, ScoreCompleted

\* Every event that is counted is one of the turn under way.
LEMMA TurnOf ==
  /\ \A a : Proposed(a).turn = turn
  /\ \A d, c : Decided(d, c).turn = turn
  /\ Asked.turn = turn /\ Denied.turn = turn
  /\ \A r : Transition(r).turn = turn
  /\ \A s : Observed(s).turn = turn
  /\ \A c : Error(c).turn = turn
  BY DEF Proposed, Decided, Asked, Denied, Transition, Observed, Error

\* An event of no kind is quiet, and so is one that may be there or not.
LEMMA QuietOne ==
  ASSUME NEW e, \A k \in Kinds : ~Is(k, e)
  PROVE  Quiet(<<>>) /\ Quiet(<<e>>) /\ \A b : Quiet(When(b, e))
<1>1. \A b : IsSeq(When(b, e))
  BY Single DEF When
<1>2. QED  BY <1>1, Single, CountsOne DEF Quiet

\* A failure and a limit check add quiet events.
LEMMA QuietEnds ==
  ASSUME IsSeq(log), NEW events, IsSeq(events),
         InfrastructureFailure(events) \/ (\E t : CheckLimits(t, events))
  PROVE  \E last : Quiet(last) /\ log' = log \o (events \o last)
<1>1. PICK last : Quiet(last) /\ log' = log \o events \o last
  <2>1. CASE InfrastructureFailure(events)
    BY <2>1, KindsOf, QuietOne DEF InfrastructureFailure
  <2>2. CASE \E t : CheckLimits(t, events)
    <3>1. log' = log \o events \o When(terminal' # NoReason, LimitHit(terminal'))
      BY <2>2, CheckedLog
    <3>2. Quiet(When(terminal' # NoReason, LimitHit(terminal')))
      BY KindsOf, QuietOne
    <3>3. QED  BY <3>1, <3>2
  <2>3. QED  BY <2>1, <2>2
<1>2. IsSeq(last)
  BY <1>1 DEF Quiet
<1>3. log \o events \o last = log \o (events \o last)
  BY <1>2, Associates
<1>4. QED  BY <1>1, <1>3

\* The log grows by events of the turn under way alone, as many of each kind as
\* the record says.
Adds(count) ==
  \E events : /\ IsSeq(events) /\ log' = log \o events
              /\ \A k \in Kinds, t \in Nat :
                   N(events, k, t) = IF t = turn THEN count[k] ELSE 0

None == [k \in Kinds |-> 0]

\* What a step that stays within its turn does to the turns.
LEMMA TurnGrows ==
  ASSUME TypeOK, IsSeq(log), TurnInv, turn' = turn, NEW count, Adds(count)
  PROVE  /\ \A t \in Nat : t > turn' => Unbegun(t)'
         /\ \A t \in 1..turn' : t # turn' => Whole(t)'
         /\ \A k \in Kinds : /\ N(log, k, turn) \in Nat
                             /\ N(log', k, turn) = N(log, k, turn) + count[k]
<1>1. PICK events : /\ IsSeq(events) /\ log' = log \o events
                    /\ \A k \in Kinds, t \in Nat :
                         N(events, k, t) = IF t = turn THEN count[k] ELSE 0
  BY DEF Adds
<1>2. turn \in Nat
  BY DEF TypeOK
<1>3. \A k \in Kinds, t \in Nat :
        N(log, k, t) \in Nat /\ N(log', k, t) = N(log, k, t) + (IF t = turn THEN count[k] ELSE 0)
  BY <1>1, CountsAdd
<1>4. \A k \in Kinds, t \in Nat : t # turn => N(log', k, t) = N(log, k, t)
  BY <1>3
<1>5. ASSUME NEW t \in Nat, t > turn'
      PROVE  Unbegun(t)'
  BY <1>2, <1>4, <1>5 DEF TurnInv, Unbegun
<1>6. ASSUME NEW t \in 1..turn', t # turn'
      PROVE  Whole(t)'
  <2>1. t \in Nat /\ t # turn /\ Whole(t)
    BY <1>2, <1>6 DEF TurnInv
  <2>2. \A k \in Kinds : N(log', k, t) = N(log, k, t)
    BY <1>4, <2>1
  <2>3. QED  BY <2>1, <2>2 DEF Whole, Kinds
<1>7. QED  BY <1>2, <1>3, <1>5, <1>6

-------------------------------------------------------------------------------
(***************************************************************************)
(* The steps.                                                              *)
(***************************************************************************)
\* Quiet events add nothing, and neither does a step that writes none.
LEMMA QuietAdds ==
  /\ \A events : Quiet(events) /\ log' = log \o events => Adds(None)
  /\ IsSeq(log) /\ log' = log => Adds(None)
<1>1. ASSUME NEW events, Quiet(events), log' = log \o events
      PROVE  Adds(None)
  BY <1>1 DEF Adds, None, Quiet
<1>2. ASSUME IsSeq(log), log' = log
      PROVE  Adds(None)
  <2>1. log' = log \o <<>>
    BY <1>2, Associates
  <2>2. Quiet(<<>>)
    BY Single, CountsOne DEF Quiet
  <2>3. QED  BY <1>1, <2>1, <2>2
<1>3. QED  BY <1>1, <1>2

\* A turn is over, or the run is failed, when the loop goes on or is left.
LEMMA TurnOver ==
  ASSUME TypeOK, IsSeq(log), TurnInv, turn' = turn, NEW count, Adds(count),
         pc' \in {"loop"} \cup EndStates, Whole(turn)' \/ (pc' # "loop" /\ status' = "failed")
  PROVE  TurnInv'
<1>1. /\ \A t \in Nat : t > turn' => Unbegun(t)'
      /\ \A t \in 1..turn' : t # turn' => Whole(t)'
  BY TurnGrows
<1>2. QED  BY <1>1 DEF TurnInv, EndStates

\* A failure ends a turn wherever it stands, if it adds quiet events only.
LEMMA FailureOver ==
  ASSUME TypeOK, IsSeq(log), TurnInv, turn' = turn, InfrastructureFailure(<<>>)
  PROVE  TurnInv'
<1>1. PICK last : Quiet(last) /\ log' = log \o (<<>> \o last)
  BY Single, QuietEnds
<1>2. Quiet(<<>> \o last)
  <2>1. IsSeq(<<>>) /\ IsSeq(last)
    BY <1>1, Single DEF Quiet
  <2>2. QED  BY <1>1, <2>1, Joined, CountsAdd, CountsOne DEF Quiet
<1>3. Adds(None)
  BY <1>1, <1>2, QuietAdds
<1>4. pc' = "final" /\ status' = "failed"
  BY DEF InfrastructureFailure
<1>5. QED  BY <1>3, <1>4, TurnOver DEF EndStates

\* A step that adds nothing keeps the turn as it is.
LEMMA NothingAdded ==
  ASSUME TypeOK, IsSeq(log), TurnInv, turn' = turn, Adds(None)
  PROVE  /\ \A t \in Nat : t > turn' => Unbegun(t)'
         /\ \A t \in 1..turn' : t # turn' => Whole(t)'
         /\ Unbegun(turn) => Unbegun(turn)'
         /\ Whole(turn) => Whole(turn)'
         /\ \A b, c : UnderWay(turn, b, c) => UnderWay(turn, b, c)'
<1>1. \A k \in Kinds : None[k] = 0
  BY DEF None
<1>2. \A k \in Kinds : N(log', k, turn) = N(log, k, turn)
  BY <1>1, TurnGrows
<1>3. QED  BY <1>2, TurnGrows DEF Unbegun, Whole, UnderWay, Kinds

\* A malformed answer is the whole of its turn.
LEMMA MalformedTurn ==
  ASSUME TypeOK, IsSeq(log), TurnInv,
         NEW tokens \in TokenReadings, NEW cost \in CostReadings, AgentMalformed(tokens, cost)
  PROVE  TurnInv'
<1> DEFINE e == Error("protocol")
           count == [None EXCEPT !["malformed"] = 1]
<1>1. IsSeq(<<e>>) /\ turn' = turn /\ pc = "awaiting" /\ pc' \in {"loop", "final"}
  BY Single, CheckedLog DEF AgentMalformed
<1>2. PICK last : Quiet(last) /\ log' = log \o (<<e>> \o last)
  BY <1>1, QuietEnds DEF AgentMalformed
<1>3. Adds(count)
  <2>1. \A k \in Kinds, t \in Nat : N(<<e>> \o last, k, t) = N(<<e>>, k, t) + 0
    BY <1>1, <1>2, CountsAdd DEF Quiet
  <2>2. \A k \in Kinds, t \in Nat :
          N(<<e>>, k, t) = IF k = "malformed" /\ t = turn THEN 1 ELSE 0
    BY CountsOne, KindsOf, TurnOf
  <2>3. \A k \in Kinds : count[k] = IF k = "malformed" THEN 1 ELSE 0
    BY DEF None
  <2>4. IsSeq(<<e>> \o last)
    BY <1>1, <1>2, Joined DEF Quiet
  <2> HIDE DEF e, count
  <2>5. \A k \in Kinds, t \in Nat :
          N(<<e>> \o last, k, t) = IF t = turn THEN count[k] ELSE 0
    BY <2>1, <2>2, <2>3
  <2>6. QED  BY <1>2, <2>4, <2>5 DEF Adds
<1>4. \A k \in Kinds : N(log, k, turn) = 0
  BY <1>1 DEF TurnInv, Unbegun
<1>5. \A k \in Kinds : N(log', k, turn) = IF k = "malformed" THEN 1 ELSE 0
  <2>1. \A k \in Kinds : count[k] = IF k = "malformed" THEN 1 ELSE 0
    BY DEF None
  <2> HIDE DEF count
  <2>2. \A k \in Kinds : N(log', k, turn) = N(log, k, turn) + count[k]
    BY <1>1, <1>3, TurnGrows
  <2>3. QED  BY <1>4, <2>1, <2>2
<1>6. Whole(turn)'
  BY <1>1, <1>5 DEF Whole, Kinds
<1>7. QED  BY <1>1, <1>3, <1>6, TurnOver DEF EndStates

\* An action and its decision begin a turn.
LEMMA ProposedTurn ==
  ASSUME TypeOK, IsSeq(log), TurnInv, NEW tokens \in TokenReadings, NEW cost \in CostReadings,
         NEW a \in Actions, AgentProposes(a, tokens, cost)
  PROVE  TurnInv'
<1> DEFINE e == Proposed(a)
           d == Evaluate(a)
           f == Decided(d, ClassifyAction(a))
           count == [k \in Kinds |->
                       IF k \in {"agent.action", "policy.decision"} \/ (k = "allowed" /\ d = "allow")
                       THEN 1 ELSE 0]
<1>1. /\ turn' = turn /\ pc = "awaiting" /\ pc' = "gated"
      /\ cur'.decision = d /\ log' = log \o <<e, f>>
  BY DEF AgentProposes, IdleTurn
<1>2. \A k \in Kinds : count[k] =
        IF k \in {"agent.action", "policy.decision"} \/ (k = "allowed" /\ d = "allow") THEN 1 ELSE 0
  OBVIOUS
<1>3. \A k \in Kinds, t \in Nat : N(<<e>>, k, t) = IF k = "agent.action" /\ t = turn THEN 1 ELSE 0
  BY CountsOne, KindsOf, TurnOf
<1>4. \A k \in Kinds, t \in Nat :
        N(<<f>>, k, t) =
          IF (k = "policy.decision" \/ (k = "allowed" /\ d = "allow")) /\ t = turn THEN 1 ELSE 0
  BY CountsOne, KindsOf, TurnOf
<1> HIDE DEF count, e, f, d
<1>5. Adds(count)
  <2> DEFINE first == <<e>>
             second == <<f>>
             events == first \o second
  <2>1. IsSeq(first) /\ IsSeq(second) /\ IsSeq(events) /\ log' = log \o events
    BY <1>1, Single, Joined, PairJoins
  <2>2. \A k \in Kinds, t \in Nat : N(events, k, t) = N(first, k, t) + N(second, k, t)
    BY <2>1, CountsAdd
  <2>3. \A k \in Kinds, t \in Nat : N(events, k, t) = IF t = turn THEN count[k] ELSE 0
    <3>1. /\ \A k \in Kinds, t \in Nat :
               N(first, k, t) = IF k = "agent.action" /\ t = turn THEN 1 ELSE 0
          /\ \A k \in Kinds, t \in Nat :
               N(second, k, t) =
                 IF (k = "policy.decision" \/ (k = "allowed" /\ d = "allow")) /\ t = turn THEN 1 ELSE 0
      BY <1>3, <1>4
    <3> HIDE DEF first, second, events
    <3>2. QED  BY <1>2, <2>2, <3>1
  <2> HIDE DEF events
  <2>4. QED  BY <2>1, <2>3 DEF Adds
<1>6. \A k \in Kinds : N(log', k, turn) = count[k]
  <2>1. \A k \in Kinds : N(log, k, turn) = 0 /\ N(log', k, turn) = N(log, k, turn) + count[k]
    BY <1>1, <1>5, TurnGrows DEF TurnInv, Unbegun
  <2>2. QED  BY <1>2, <2>1
<1>7. UnderWay(turn, cur.decision = "allow", FALSE)'
  BY <1>1, <1>2, <1>6 DEF UnderWay, Kinds
<1>8. QED  BY <1>1, <1>5, <1>7, TurnGrows DEF TurnInv, EndStates

\* What an observation ends: a turn that is blocked, or applied.
LEMMA ObservedTurn ==
  ASSUME TypeOK, IsSeq(log), TurnInv, turn' = turn,
         NEW before, NEW s, NEW after, IsSeq(before), Quiet(after), NEW asked \in {0, 1},
         log' = log \o ((before \o <<Observed(s)>>) \o after),
         \A k \in Kinds, t \in Nat :
           N(before, k, t) =
             IF k \in {"approval.requested", "approval.resolved"} /\ t = turn THEN asked ELSE 0,
         UnderWay(turn, FALSE, FALSE) \/ UnderWay(turn, TRUE, TRUE),
         pc' \in {"loop"} \cup EndStates
  PROVE  TurnInv'
<1> DEFINE e == Observed(s)
           count == [k \in Kinds |->
                       IF k = "observation.rendered" THEN 1
                       ELSE IF k \in {"approval.requested", "approval.resolved"} THEN asked
                       ELSE 0]
<1>1. \A k \in Kinds : count[k] =
        IF k = "observation.rendered" THEN 1
        ELSE IF k \in {"approval.requested", "approval.resolved"} THEN asked ELSE 0
  OBVIOUS
<1>2. \A k \in Kinds, t \in Nat :
        N(<<e>>, k, t) = IF k = "observation.rendered" /\ t = turn THEN 1 ELSE 0
  BY CountsOne, KindsOf, TurnOf
<1> HIDE DEF count, e
<1>3. Adds(count)
  <2>1. IsSeq(<<e>>) /\ IsSeq(after) /\ IsSeq(before \o <<e>>) /\ IsSeq((before \o <<e>>) \o after)
    BY Single, Joined DEF Quiet
  <2>2. \A k \in Kinds, t \in Nat :
          N((before \o <<e>>) \o after, k, t) = (N(before, k, t) + N(<<e>>, k, t)) + 0
    BY <2>1, CountsAdd DEF Quiet
  <2>3. \A k \in Kinds, t \in Nat :
          N((before \o <<e>>) \o after, k, t) = IF t = turn THEN count[k] ELSE 0
    BY <1>1, <1>2, <2>2
  <2>4. QED  BY <2>1, <2>3 DEF Adds, e
<1>4. \A k \in Kinds : /\ N(log, k, turn) \in Nat
                       /\ N(log', k, turn) = N(log, k, turn) + count[k]
  BY <1>3, TurnGrows
<1>5. Whole(turn)'
  BY <1>1, <1>4 DEF UnderWay, Whole, Kinds
<1>6. QED  BY <1>3, <1>5, TurnOver

\* The ways an iteration ends behind its events.
Ends(events) ==
  \/ InfrastructureFailure(events)
  \/ \E t : CheckLimits(t, events)
  \/ log' = log \o events /\ \E reason : Resume(reason)

\* They add quiet events, and the loop goes on or is left.
LEMMA EndsQuietly ==
  ASSUME IsSeq(log), NEW events, IsSeq(events), Ends(events)
  PROVE  /\ \E last : Quiet(last) /\ log' = log \o (events \o last)
         /\ pc' \in {"loop", "final"}
<1>1. CASE log' = log \o events /\ \E reason : Resume(reason)
  <2>1. Quiet(<<>>) /\ events \o <<>> = events
    BY Associates, Single, CountsOne DEF Quiet
  <2>2. QED  BY <1>1, <2>1 DEF Resume
<1>2. CASE InfrastructureFailure(events) \/ \E t : CheckLimits(t, events)
  <2>1. pc' \in {"loop", "final"}
    BY <1>2, CheckedLog DEF InfrastructureFailure
  <2>2. QED  BY <1>2, <2>1, QuietEnds
<1>3. QED  BY <1>1, <1>2 DEF Ends

\* A denial ends its turn.
LEMMA DeniedTurn ==
  ASSUME TypeOK, IsSeq(log), TurnInv, DenyAction
  PROVE  TurnInv'
<1> DEFINE c == cur.decision = "require_approval"
           before == When(c, Asked) \o When(c, Denied)
           events == before \o <<Observed("blocked")>>
           asked == IF c THEN 1 ELSE 0
<1>1. /\ pc = "gated" /\ cur.decision # "allow" /\ turn' = turn
      /\ Ends(events)
  BY DEF DenyAction, Ends
<1>2. IsSeq(When(c, Asked)) /\ IsSeq(When(c, Denied)) /\ IsSeq(<<Observed("blocked")>>)
  BY Single DEF When
<1>3. IsSeq(before) /\ IsSeq(events)
  BY <1>2, Joined
<1>4. PICK after : Quiet(after) /\ log' = log \o (events \o after)
  BY <1>1, <1>3, EndsQuietly
<1>5. pc' \in {"loop", "final"}
  BY <1>1, <1>3, EndsQuietly
<1>6. \A k \in Kinds, t \in Nat :
        N(before, k, t) =
          IF k \in {"approval.requested", "approval.resolved"} /\ t = turn THEN asked ELSE 0
  <2>1. \A k \in Kinds, t \in Nat : N(before, k, t) = N(When(c, Asked), k, t) + N(When(c, Denied), k, t)
    BY <1>2, CountsAdd
  <2> HIDE DEF c, before
  <2>2. \A k \in Kinds, t \in Nat :
          N(When(c, Asked), k, t) = IF c /\ Is(k, Asked) /\ Asked.turn = t THEN 1 ELSE 0
    BY CountsOne
  <2>3. \A k \in Kinds, t \in Nat :
          N(When(c, Denied), k, t) = IF c /\ Is(k, Denied) /\ Denied.turn = t THEN 1 ELSE 0
    BY CountsOne
  <2>4. \A k \in Kinds : /\ Is(k, Asked) <=> k = "approval.requested"
                         /\ Is(k, Denied) <=> k = "approval.resolved"
    BY KindsOf
  <2>5. QED  BY <2>1, <2>2, <2>3, <2>4, TurnOf
<1>7. UnderWay(turn, FALSE, FALSE) /\ asked \in {0, 1}
  BY <1>1 DEF TurnInv
<1> HIDE DEF before, asked
<1>8. QED  BY <1>1, <1>3, <1>4, <1>5, <1>6, <1>7, ObservedTurn DEF EndStates

\* Quiet events are put together.
LEMMA QuietJoined ==
  ASSUME NEW r, NEW s, Quiet(r), Quiet(s)
  PROVE  Quiet(r \o s)
<1>1. IsSeq(r) /\ IsSeq(s) /\ IsSeq(r \o s)
  BY Joined DEF Quiet
<1>2. QED  BY <1>1, CountsAdd DEF Quiet

\* An action that is applied gets its transition, or fails the run.
LEMMA AppliedTurn ==
  ASSUME TypeOK, IsSeq(log), TurnInv, ApplyAction
  PROVE  TurnInv'
<1>1. PICK r \in {Apply(world, cur.action, turn, seed)} :
        \/ InfrastructureFailure(<<>>)
        \/ /\ pc' = "rendering"
           /\ log' = log \o When(r.perturbed, Perturbed) \o <<Transition(r)>>
  BY DEF ApplyAction
<1>2. pc = "gated" /\ cur.decision = "allow" /\ turn' = turn
  BY DEF ApplyAction
<1>3. CASE InfrastructureFailure(<<>>)
  BY <1>2, <1>3, FailureOver
<1>4. CASE pc' = "rendering" /\ log' = log \o When(r.perturbed, Perturbed) \o <<Transition(r)>>
  <2> DEFINE before == When(r.perturbed, Perturbed)
             last == <<Transition(r)>>
             events == before \o last
             count == [k \in Kinds |-> IF k = "state.transition" THEN 1 ELSE 0]
  <2>1. Quiet(before) /\ IsSeq(before) /\ IsSeq(last)
    BY KindsOf, QuietOne, Single DEF Quiet
  <2>2. log' = log \o events /\ IsSeq(events)
    <3>1. Regroups(log, before, last)
      BY <2>1, AllRegroup
    <3>2. log \o before \o last = log \o (before \o last)
      BY <3>1 DEF Regroups
    <3>3. QED  BY <1>4, <2>1, <3>2, Joined
  <2>3. \A k \in Kinds, t \in Nat : N(events, k, t) = 0 + N(last, k, t)
    BY <2>1, CountsAdd DEF Quiet
  <2>4. \A k \in Kinds, t \in Nat :
          N(last, k, t) = IF k = "state.transition" /\ t = turn THEN 1 ELSE 0
    BY CountsOne, KindsOf, TurnOf
  <2>5. \A k \in Kinds : count[k] = IF k = "state.transition" THEN 1 ELSE 0
    OBVIOUS
  <2> HIDE DEF before, last, events, count
  <2>6. \A k \in Kinds, t \in Nat : N(events, k, t) = IF t = turn THEN count[k] ELSE 0
    BY <2>3, <2>4, <2>5
  <2>7. Adds(count)
    BY <2>2, <2>6 DEF Adds
  <2>8. \A k \in Kinds : N(log', k, turn) = N(log, k, turn) + count[k]
    BY <1>2, <2>7, TurnGrows
  <2>9. UnderWay(turn, TRUE, TRUE)'
    BY <1>2, <2>5, <2>8 DEF TurnInv, UnderWay, Kinds
  <2>10. QED  BY <1>2, <1>4, <2>7, <2>9, TurnGrows DEF TurnInv, EndStates
<1>5. QED  BY <1>1, <1>3, <1>4

\* An action that was applied is observed, and its turn is over.
LEMMA RenderedTurn ==
  ASSUME TypeOK, IsSeq(log), TurnInv, NEW fellBack \in BOOLEAN, Rendered(fellBack)
  PROVE  TurnInv'
<1> DEFINE s == IF cur.ok THEN "ok" ELSE "error"
           due == turn % SnapshotInterval = 0
           before == When(fellBack, Fallback)
           middle == <<Observed(s)>>
           shot == When(due, Snapshot)
           events == (before \o middle) \o shot
<1>1. pc = "rendering" /\ turn' = turn /\ Ends(events)
  BY DEF Rendered, Ends
<1> HIDE DEF s, due
<1>2. Quiet(before) /\ Quiet(shot) /\ IsSeq(before) /\ IsSeq(middle) /\ IsSeq(shot)
  BY KindsOf, QuietOne, Single DEF Quiet
<1>3. IsSeq(before \o middle) /\ IsSeq(events)
  <2>1. IsSeq(before \o middle)
    BY <1>2, Joined
  <2>2. QED  BY <1>2, <2>1, Joined
<1>4. PICK last : Quiet(last) /\ log' = log \o (events \o last)
  BY <1>1, <1>3, EndsQuietly
<1>5. pc' \in {"loop", "final"}
  BY <1>1, <1>3, EndsQuietly
<1>6. log' = log \o ((before \o middle) \o (shot \o last)) /\ Quiet(shot \o last)
  <2>1. Quiet(shot \o last) /\ IsSeq(last)
    BY <1>2, <1>4, QuietJoined DEF Quiet
  <2> DEFINE front == before \o middle
  <2>2. IsSeq(front) /\ IsSeq(shot) /\ IsSeq(last)
    BY <1>2, <1>3, <2>1
  <2> HIDE DEF before, middle, shot
  <2>3. log' = log \o ((front \o shot) \o last)
    BY <1>4
  <2> HIDE DEF front
  <2>4. Regroups(front, shot, last)
    BY <2>2, AllRegroup
  <2>5. log' = log \o (front \o (shot \o last))
    BY <2>3, <2>4 DEF Regroups
  <2>6. QED  BY <2>1, <2>5 DEF front
<1>7. \A k \in Kinds, t \in Nat :
        N(before, k, t) =
          IF k \in {"approval.requested", "approval.resolved"} /\ t = turn THEN 0 ELSE 0
  BY <1>2 DEF Quiet
<1>8. UnderWay(turn, TRUE, TRUE)
  BY <1>1 DEF TurnInv
<1> DEFINE after == shot \o last
<1>9. Quiet(after) /\ log' = log \o ((before \o <<Observed(s)>>) \o after)
  BY <1>6
<1> HIDE DEF before, after
<1>10. QED  BY <1>1, <1>2, <1>5, <1>7, <1>8, <1>9, ObservedTurn DEF EndStates

\* One event of no kind adds nothing.
LEMMA OneQuiet ==
  ASSUME IsSeq(log), NEW e, log' = Append(log, e), \A k \in Kinds : ~Is(k, e)
  PROVE  Adds(None)
  BY OneMore, QuietOne, QuietAdds

\* Every step keeps the turns in order.
LEMMA NextTurns ==
  ASSUME TypeOK, IsSeq(log), RowInv, TurnInv, Next
  PROVE  TurnInv'
<1> USE DEF EndStates, TurnStates
<1>1. CASE CreateRun \/ StartRun
  <2>1. PICK e : log' = Append(log, e) /\ \A k \in Kinds : ~Is(k, e)
    BY <1>1, KindsOf DEF CreateRun, StartRun
  <2>2. Adds(None)
    BY <2>1, OneQuiet
  <2>3. /\ pc \in {"new", "created"} /\ pc' \in {"created", "starting"} /\ turn' = turn
    BY <1>1 DEF CreateRun, StartRun
  <2>4. QED  BY <2>2, <2>3, NothingAdded DEF TurnInv
<1>2. CASE StartAdapter
  <2>1. CASE InfrastructureFailure(<<>>)
    BY <1>2, <2>1, FailureOver DEF StartAdapter
  <2>2. CASE pc' = "loop" /\ UNCHANGED log
    <3>1. pc = "starting" /\ turn' = turn /\ Adds(None)
      BY <1>2, <2>2, QuietAdds DEF StartAdapter
    <3>2. QED  BY <2>2, <3>1, NothingAdded DEF TurnInv
  <2>3. QED  BY <1>2, <2>1, <2>2 DEF StartAdapter
<1>3. CASE HonorCancel
  <2>1. CASE InfrastructureFailure(<<>>)
    BY <1>3, <2>1, FailureOver DEF HonorCancel
  <2>2. CASE pc' = "final" /\ UNCHANGED log
    <3>1. pc = "loop" /\ turn' = turn /\ Adds(None)
      BY <1>3, <2>2, QuietAdds DEF HonorCancel
    <3>2. QED  BY <2>2, <3>1, NothingAdded DEF TurnInv
  <2>3. QED  BY <1>3, <2>1, <2>2 DEF HonorCancel
<1>4. CASE BeginTurn
  <2>1. pc = "loop" /\ pc' = "awaiting" /\ turn' = turn + 1 /\ log' = log /\ turn \in Nat
    BY <1>4 DEF BeginTurn, TypeOK
  <2>2. \A t : (Unbegun(t) => Unbegun(t)') /\ (Whole(t) => Whole(t)')
    BY <2>1 DEF Unbegun, Whole
  <2>3. \A t \in Nat : t > turn' => Unbegun(t)'
    BY <2>1, <2>2 DEF TurnInv
  <2>4. Unbegun(turn)'
    BY <2>1 DEF TurnInv, Unbegun
  <2>5. \A t \in 1..turn' : t # turn' => Whole(t)'
    <3>1. \A t \in 1..(turn + 1) : t # turn + 1 => t \in 1..turn /\ (t = turn => turn # 0)
      BY <2>1
    <3>2. QED  BY <2>1, <2>2, <3>1 DEF TurnInv
  <2>6. QED  BY <2>1, <2>3, <2>4, <2>5 DEF TurnInv
<1>5. CASE AgentFails \/ RenderFails
  BY <1>5, FailureOver DEF AgentFails, RenderFails
<1>6. CASE \E tokens \in TokenReadings, cost \in CostReadings :
             \/ AgentMalformed(tokens, cost)
             \/ \E a \in Actions : AgentProposes(a, tokens, cost)
  BY <1>6, MalformedTurn, ProposedTurn
<1>7. CASE DenyAction
  BY <1>7, DeniedTurn
<1>8. CASE ApplyAction
  BY <1>8, AppliedTurn
<1>9. CASE \E fellBack \in BOOLEAN : Rendered(fellBack)
  BY <1>9, RenderedTurn
<1>10. CASE Freeze \/ Score
  <2>1. PICK e : log' = Append(log, e) /\ \A k \in Kinds : ~Is(k, e)
    BY <1>10, KindsOf DEF Freeze, Score
  <2>2. Adds(None)
    BY <2>1, OneQuiet
  <2>3. /\ pc \in EndStates /\ pc' \in EndStates /\ turn' = turn /\ status' = status
    BY <1>10 DEF Freeze, Score
  <2>4. QED  BY <2>2, <2>3, NothingAdded DEF TurnInv
<1>11. CASE SaveScorecard \/ Persist
  <2>1. pc \in EndStates /\ pc' \in EndStates /\ turn' = turn /\ status' = status /\ log' = log
    BY <1>11 DEF SaveScorecard, Persist
  <2>2. Adds(None)
    BY <2>1, QuietAdds
  <2>3. QED  BY <2>1, <2>2, NothingAdded DEF TurnInv
<1>12. CASE RequestCancel \/ Escape \/ Ended
  <2>1. /\ pc' \in {pc, "aborted"} /\ turn' = turn /\ status' = status /\ log' = log /\ cur' = cur
    BY <1>12 DEF RequestCancel, Escape, Ended, vars
  <2>2. Adds(None)
    BY <2>1, QuietAdds
  <2>3. QED  BY <2>1, <2>2, NothingAdded DEF TurnInv
<1>13. QED
  BY <1>1, <1>2, <1>3, <1>4, <1>5, <1>6, <1>7, <1>8, <1>9, <1>10, <1>11, <1>12 DEF Next, Progress

\* Turns are in order at every point of every run.
LEMMA TurnInvariant == Spec => [](LogInvs /\ TurnInv)
<1>1. Init => TurnInv
  <2>1. SUFFICES ASSUME Init
                 PROVE  TurnInv
    OBVIOUS
  <2>2. log = <<>> /\ turn = 0 /\ pc = "new"
    BY <2>1 DEF Init
  <2>3. \A t : Unbegun(t)
    BY <2>2, CountsOne DEF Unbegun
  <2>4. QED  BY <2>2, <2>3 DEF TurnInv, EndStates
<1>2. LogInvs /\ TurnInv /\ [Next]_vars => TurnInv'
  <2>1. SUFFICES ASSUME LogInvs, TurnInv, [Next]_vars
                 PROVE  TurnInv'
    OBVIOUS
  <2>2. TypeOK /\ RowInv /\ IsSeq(log)
    BY <2>1 DEF LogInvs, LogInv
  <2>3. CASE Next
    BY <2>1, <2>2, <2>3, NextTurns
  <2>4. CASE UNCHANGED vars
    BY <2>1, <2>4 DEF vars, TurnInv, Unbegun, Whole, UnderWay
  <2>5. QED  BY <2>1, <2>3, <2>4
<1>3. QED  BY <1>1, <1>2, LogInvariant, PTL DEF Spec

\* Every turn that is over, but the one a run failed in, has its grammar, wherever
\* the run is cut short.
THEOREM TurnsAreComplete == Spec => []TurnsAreWhole
<1>1. LogInvs /\ TurnInv => TurnsAreWhole
  <2>1. SUFFICES ASSUME LogInvs, TurnInv
                 PROVE  TurnsAreWhole
    OBVIOUS
  <2>2. TypeOK /\ IsSeq(log)
    BY <2>1 DEF LogInvs, LogInv
  <2>3. ASSUME NEW t \in 1..turn, Whole(t)
        PROVE  TurnIsWhole(t)
    <3>1. \A k \in Kinds \ {"allowed", "malformed"} : At(log, k, t) = EventsAt(k, t)
      BY DEF Kinds, At, Is, EventsAt, EventsOf
    <3>2. /\ At(log, "allowed", t) =
               {i \in EventsAt("policy.decision", t) : log[i].decision = "allow"}
          /\ At(log, "malformed", t) =
               {i \in EventsAt("run.error", t) : log[i].kind = "protocol"}
      BY DEF At, Is, EventsAt, EventsOf
    <3>3. \A k \in Kinds : N(log, k, t) = 0 <=> At(log, k, t) = {}
      BY <2>2, CountsFinite
    <3>4. /\ N(log, "allowed", t) = 0 <=>
               ~\E i \in EventsAt("policy.decision", t) : log[i].decision = "allow"
          /\ N(log, "malformed", t) = 0 <=>
               ~\E i \in EventsAt("run.error", t) : log[i].kind = "protocol"
      BY <3>2, <3>3 DEF Kinds
    <3>5. \A k \in Kinds \ {"allowed", "malformed"} : N(log, k, t) = Cardinality(EventsAt(k, t))
      BY <3>1 DEF N
    <3>6. QED
      BY <2>3, <3>4, <3>5 DEF Whole, TurnIsWhole, Kinds
  <2>4. ASSUME NEW t \in 1..turn, ~Whole(t)
        PROVE  t = turn /\ (status = "failed" \/ pc \in TurnStates \cup {"aborted"})
    BY <2>1, <2>2, <2>4 DEF TurnInv, TypeOK, TurnStates, EndStates
  <2>5. QED  BY <2>3, <2>4 DEF TurnsAreWhole
<1>2. QED  BY <1>1, TurnInvariant, PTL

-------------------------------------------------------------------------------
(***************************************************************************)
(* What a step writes, for those who read the log for more than counts.    *)
(* Replay acts on the events of some types and on no other.                *)
(***************************************************************************)
Replayed ==
  {"run.started", "agent.action", "policy.decision", "state.transition", "run.terminal"}

\* The kinds of run.error the run writes.
ErrorKinds == {"protocol", "infrastructure"}

\* An event replay does not act on.
Inert(e) == e.type \notin Replayed /\ (e.type = "run.error" => e.kind \in ErrorKinds)

\* A sequence of such events.
Still(events) == IsSeq(events) /\ \A e \in Range(events) : Inert(e)

\* The events replay does not act on.
LEMMA StillEvents ==
  /\ Inert(Created) /\ Inert(Asked) /\ Inert(Denied) /\ Inert(Perturbed) /\ Inert(Fallback)
  /\ Inert(Snapshot) /\ Inert(ScoreCompleted)
  /\ \A c \in ErrorKinds : Inert(Error(c))
  /\ \A r : Inert(LimitHit(r))
  /\ \A s : Inert(Observed(s))
  BY DEF Inert, ErrorKinds, Replayed, Created, Asked, Denied, Perturbed, Fallback, Snapshot, ScoreCompleted,
         Error, LimitHit, Observed

\* Such an event alone, present or not.
LEMMA StillWhen ==
  ASSUME NEW e, Inert(e)
  PROVE  Still(<<>>) /\ Still(<<e>>) /\ \A b : Still(When(b, e))
  BY Single DEF Still, When

\* Still sequences are put together to a still one.
LEMMA StillJoined ==
  ASSUME NEW s, NEW t, Still(s), Still(t)
  PROVE  Still(s \o t)
  BY Joined, JoinedRange DEF Still

\* What a failure and a limit check add is still.
LEMMA StillEnds ==
  ASSUME IsSeq(log), NEW events, Still(events),
         \/ InfrastructureFailure(events)
         \/ \E t : CheckLimits(t, events)
         \/ log' = log \o events
  PROVE  \E more : Still(more) /\ log' = log \o more
<1>1. CASE log' = log \o events
  BY <1>1
<1>2. CASE InfrastructureFailure(events) \/ \E t : CheckLimits(t, events)
  <2>1. PICK last : Still(last) /\ log' = log \o events \o last
    <3>1. CASE InfrastructureFailure(events)
      BY <3>1, StillEvents, StillWhen DEF InfrastructureFailure, ErrorKinds
    <3>2. CASE \E t : CheckLimits(t, events)
      <4>1. log' = log \o events \o When(terminal' # NoReason, LimitHit(terminal'))
        BY <3>2, CheckedLog
      <4>2. Still(When(terminal' # NoReason, LimitHit(terminal')))
        BY StillEvents, StillWhen
      <4>3. QED  BY <4>1, <4>2
    <3>3. QED  BY <1>2, <3>1, <3>2
  <2>2. IsSeq(events) /\ IsSeq(last) /\ Still(events \o last)
    BY <2>1, StillJoined DEF Still
  <2>3. log \o events \o last = log \o (events \o last)
    BY <2>2, Associates
  <2>4. QED  BY <2>1, <2>2, <2>3
<1>3. QED  BY <1>1, <1>2

\* The engine's step, when its handler returns.
Applies ==
  /\ ApplyAction
  /\ \E first, r : /\ Still(first) /\ r = Apply(world, cur.action, turn, seed) /\ ~r.raised
                   /\ log' = (log \o first) \o <<Transition(r)>>

\* A step that appends nothing replay acts on.
GrowsStill == \E events : Still(events) /\ log' = log \o events

\* Every step but four writes nothing that replay acts on.
LEMMA StepsAreStill ==
  ASSUME TypeOK, IsSeq(log), Next
  PROVE  GrowsStill \/ StartRun \/ Freeze \/ Proposes \/ Applies
<1>1. ASSUME NEW events, Still(events),
             \/ InfrastructureFailure(events)
             \/ \E t : CheckLimits(t, events)
             \/ log' = log \o events
      PROVE  GrowsStill
  BY <1>1, StillEnds DEF GrowsStill
<1>2. ASSUME UNCHANGED log
      PROVE  GrowsStill
  <2>1. log' = log \o <<>> /\ Still(<<>>)
    BY <1>2, Associates, Single DEF Still
  <2>2. QED  BY <2>1 DEF GrowsStill
<1>3. CASE CreateRun \/ Score
  <2>1. PICK e : log' = Append(log, e) /\ Inert(e)
    BY <1>3, StillEvents DEF CreateRun, Score
  <2>2. log' = log \o <<e>> /\ Still(<<e>>)
    BY <2>1, OneMore, StillWhen
  <2>3. QED  BY <2>2 DEF GrowsStill
<1>4. CASE BeginTurn \/ SaveScorecard \/ Persist \/ RequestCancel \/ Escape \/ Ended
  BY <1>2, <1>4 DEF BeginTurn, SaveScorecard, Persist, RequestCancel, Escape, Ended, vars
<1>5. CASE StartAdapter \/ HonorCancel \/ AgentFails \/ RenderFails
  <2>1. Still(<<>>)
    BY Single DEF Still
  <2>2. QED
    BY <1>1, <1>2, <1>5, <2>1 DEF StartAdapter, HonorCancel, AgentFails, RenderFails
<1>6. ASSUME NEW tokens \in TokenReadings, NEW cost \in CostReadings,
             AgentMalformed(tokens, cost)
      PROVE  GrowsStill
  BY <1>1, <1>6, StillEvents, StillWhen DEF AgentMalformed, ErrorKinds
<1>7. CASE DenyAction
  <2> DEFINE asks == cur.decision = "require_approval"
             events == When(asks, Asked) \o When(asks, Denied) \o <<Observed("blocked")>>
  <2>1. Still(events)
    <3>1. /\ Still(When(asks, Asked)) /\ Still(When(asks, Denied))
          /\ Still(<<Observed("blocked")>>)
      BY StillEvents, StillWhen
    <3>2. QED  BY <3>1, StillJoined
  <2>2. \/ InfrastructureFailure(events)
        \/ log' = log \o events
        \/ CheckLimits(tracker, events)
    BY <1>7 DEF DenyAction
  <2> HIDE DEF events
  <2>3. QED  BY <1>1, <2>1, <2>2
<1>8. CASE ApplyAction
  <2> DEFINE r == Apply(world, cur.action, turn, seed)
             first == When(r.perturbed, Perturbed)
  <2>1. \/ InfrastructureFailure(<<>>)
        \/ ~r.raised /\ log' = (log \o first) \o <<Transition(r)>>
    BY <1>8 DEF ApplyAction
  <2>2. Still(<<>>) /\ Still(first)
    BY StillEvents, StillWhen
  <2> HIDE DEF first
  <2>3. QED  BY <1>1, <1>8, <2>1, <2>2 DEF Applies
<1>9. ASSUME NEW fellBack \in BOOLEAN, Rendered(fellBack)
      PROVE  GrowsStill
  <2> DEFINE events == When(fellBack, Fallback)
                       \o <<Observed(IF cur.ok THEN "ok" ELSE "error")>>
                       \o When(turn % SnapshotInterval = 0, Snapshot)
  <2>1. Still(events)
    <3>1. /\ Still(When(fellBack, Fallback))
          /\ Still(<<Observed(IF cur.ok THEN "ok" ELSE "error")>>)
          /\ Still(When(turn % SnapshotInterval = 0, Snapshot))
      BY StillEvents, StillWhen
    <3>2. QED  BY <3>1, StillJoined
  <2>2. \/ InfrastructureFailure(events)
        \/ log' = log \o events
        \/ CheckLimits(tracker, events)
    BY <1>9 DEF Rendered
  <2> HIDE DEF events
  <2>3. QED  BY <1>1, <2>1, <2>2
<1>10. QED
  BY <1>3, <1>4, <1>5, <1>6, <1>7, <1>8, <1>9 DEF Next, Progress, Proposes

-------------------------------------------------------------------------------
(***************************************************************************)
(* The order of actions and transitions: turns only go up, and what the    *)
(* engine answers is the action proposed last.                             *)
(***************************************************************************)
Transitions(s) == {i \in DOMAIN s : s[i].type = "state.transition"}

\* j is the last action before i.
Answers(s, i, j) ==
  j < i /\ s[j].turn = s[i].turn /\ \A h \in Proposals(s) : h < i => h <= j

\* In the log s of n turns, proposals are one to a turn and in the order of the
\* turns, and a transition follows the proposal of its turn, with no other in
\* between.
Ordered(s, n) ==
  /\ \A i \in Proposals(s) : s[i].turn \in 1..n /\ s[i].action \in Actions
  /\ \A i, j \in Proposals(s) : i < j => s[i].turn < s[j].turn
  /\ \A i \in Transitions(s) : \E j \in Proposals(s) : Answers(s, i, j)
  /\ \A i \in DOMAIN s : s[i].type = "run.error" => s[i].kind \in ErrorKinds

\* The order of the log, and whether the present turn has its proposal yet.
OrderInv ==
  /\ Ordered(log, turn)
  /\ pc = "awaiting" => turn # 0 /\ \A i \in Proposals(log) : log[i].turn # turn
  /\ pc = "gated" => \E i \in Proposals(log) : log[i].turn = turn

\* One event more: what becomes of proposals and transitions.
LEMMA OneOrdered ==
  ASSUME NEW s, IsSeq(s), NEW n \in Nat, Ordered(s, n), NEW e, NEW m \in Nat, n <= m,
         e.type = "agent.action" =>
           /\ e.turn \in 1..m /\ e.action \in Actions
           /\ \A i \in Proposals(s) : s[i].turn < e.turn,
         e.type = "state.transition" =>
           /\ e.turn = n
           /\ \E i \in Proposals(s) : s[i].turn = n,
         e.type = "run.error" => e.kind \in ErrorKinds
  PROVE  Ordered(s \o <<e>>, m)
<1> DEFINE t == s \o <<e>>
           k == Len(s) + 1
<1>1. /\ DOMAIN t = DOMAIN s \cup {k} /\ DOMAIN s = 1..Len(s) /\ Len(s) \in Nat
      /\ \A i \in DOMAIN s : t[i] = s[i] /\ i \in Nat /\ i < k
      /\ t[k] = e /\ k \in Nat
  BY Joined, Single
<1> HIDE DEF t, k
<1>2. /\ Proposals(t) = IF e.type = "agent.action" THEN Proposals(s) \cup {k} ELSE Proposals(s)
      /\ Proposals(s) \subseteq DOMAIN s
  BY <1>1 DEF Proposals
<1>3. /\ Transitions(t) = IF e.type = "state.transition" THEN Transitions(s) \cup {k} ELSE Transitions(s)
      /\ Transitions(s) \subseteq DOMAIN s
  BY <1>1 DEF Transitions
<1>4. \A i \in Proposals(s) : /\ t[i] = s[i] /\ i \in Nat /\ i < k
                              /\ s[i].turn \in 1..n /\ s[i].action \in Actions
  BY <1>1, <1>2 DEF Ordered
<1>5. ASSUME NEW i \in Proposals(t)
      PROVE  t[i].turn \in 1..m /\ t[i].action \in Actions
  BY <1>1, <1>2, <1>4
<1>6. ASSUME NEW i \in Proposals(t), NEW j \in Proposals(t), i < j
      PROVE  t[i].turn < t[j].turn
  <2>1. i \in Proposals(s)
    BY <1>1, <1>2, <1>4, <1>6
  <2>2. CASE j \in Proposals(s)
    BY <1>4, <1>6, <2>1, <2>2 DEF Ordered
  <2>3. CASE j \notin Proposals(s)
    BY <1>1, <1>2, <1>4, <2>1, <2>3
  <2>4. QED  BY <2>2, <2>3
<1>7. ASSUME NEW i \in Transitions(t)
      PROVE  \E j \in Proposals(t) : Answers(t, i, j)
  <2>1. CASE i \in Transitions(s)
    <3>1. PICK j \in Proposals(s) : Answers(s, i, j)
      BY <2>1 DEF Ordered
    <3>2. t[i] = s[i] /\ t[j] = s[j] /\ i < k /\ i \in Nat
      BY <1>1, <1>3, <1>4, <2>1
    <3>3. ASSUME NEW h \in Proposals(t), h < i
          PROVE  h <= j
      BY <1>1, <1>2, <3>1, <3>2, <3>3 DEF Answers
    <3>4. QED  BY <1>2, <3>1, <3>2, <3>3 DEF Answers
  <2>2. CASE i \notin Transitions(s)
    <3>1. i = k /\ e.type = "state.transition" /\ Proposals(t) = Proposals(s)
      BY <1>2, <1>3, <2>2
    <3>2. PICK j \in Proposals(s) : s[j].turn = n
      BY <3>1
    <3>3. ASSUME NEW h \in Proposals(s)
          PROVE  h <= j
      <4>1. j < h => n < s[h].turn
        BY <3>2 DEF Ordered
      <4>2. QED  BY <1>4, <4>1
    <3>4. QED  BY <1>1, <1>4, <3>1, <3>2, <3>3 DEF Answers
  <2>3. QED  BY <2>1, <2>2
<1>8. \A i \in DOMAIN t : t[i].type = "run.error" => t[i].kind \in ErrorKinds
  BY <1>1 DEF Ordered
<1>9. QED  BY <1>5, <1>6, <1>7, <1>8 DEF Ordered, t

\* Events of other kinds leave actions and transitions as they are.
LEMMA StillOrdered ==
  ASSUME NEW s, IsSeq(s), NEW n \in Nat, Ordered(s, n), NEW events, Still(events)
  PROVE  /\ Ordered(s \o events, n) /\ Proposals(s \o events) = Proposals(s)
         /\ \A i \in Proposals(s) : (s \o events)[i] = s[i]
<1> DEFINE u == s \o events
<1>1. /\ DOMAIN s \subseteq DOMAIN u /\ DOMAIN s = 1..Len(s) /\ Len(s) \in Nat
      /\ \A i \in DOMAIN s : u[i] = s[i]
  BY Joined DEF Still
<1>2. \A i \in DOMAIN u : i \in DOMAIN s \/ Inert(u[i])
  <2>1. SUFFICES ASSUME NEW i \in DOMAIN u
                 PROVE  i \in DOMAIN s \/ Inert(u[i])
    OBVIOUS
  <2>2. CASE i <= Len(s)
    BY <2>2, Joined DEF Still
  <2>3. CASE ~(i <= Len(s))
    <3>1. PICK k \in 1..Len(events) : i = Len(s) + k
      <4>1. i - Len(s) \in 1..Len(events) /\ i = Len(s) + (i - Len(s))
        BY <2>3, Joined DEF Still
      <4>2. QED  BY <4>1
    <3>2. u[i] = events[k] /\ k \in DOMAIN events
      BY <3>1, Joined DEF Still
    <3>3. QED  BY <3>2 DEF Range, Still
  <2>4. QED  BY <2>2, <2>3
<1> HIDE DEF u
<1>3. Proposals(u) = Proposals(s) /\ Transitions(u) = Transitions(s)
  BY <1>1, <1>2 DEF Proposals, Transitions, Inert, Replayed
<1>4. \A i \in Proposals(s) \cup Transitions(s) : u[i] = s[i]
  BY <1>1 DEF Proposals, Transitions
<1>5. Ordered(u, n)
  <2>1. \A i \in DOMAIN u : u[i].type = "run.error" => u[i].kind \in ErrorKinds
    BY <1>1, <1>2 DEF Ordered, Inert
  <2>2. QED  BY <1>3, <1>4, <2>1 DEF Ordered, Answers
<1>6. QED  BY <1>3, <1>4, <1>5 DEF u

\* A turn begins, gets its action, or goes on to its end.
LEMMA TurnMoves ==
  ASSUME Next
  PROVE  \/ BeginTurn
         \/ Proposes
         \/ turn' = turn /\ (pc' \in {"awaiting", "gated"} => pc' = pc)
<1>1. CASE \/ CreateRun \/ StartRun \/ StartAdapter \/ HonorCancel \/ AgentFails
           \/ RenderFails \/ Freeze \/ Score \/ SaveScorecard \/ Persist
  BY <1>1 DEF CreateRun, StartRun, StartAdapter, HonorCancel, AgentFails, RenderFails, Freeze,
     Score, SaveScorecard, Persist, InfrastructureFailure
<1>2. ASSUME NEW tokens \in TokenReadings, NEW cost \in CostReadings,
             AgentMalformed(tokens, cost)
      PROVE  turn' = turn /\ (pc' \in {"awaiting", "gated"} => pc' = pc)
  BY <1>2 DEF AgentMalformed, CheckLimits, Resume
<1>3. CASE DenyAction \/ ApplyAction
  BY <1>3 DEF DenyAction, ApplyAction, CheckLimits, InfrastructureFailure, Resume
<1>4. ASSUME NEW fellBack \in BOOLEAN, Rendered(fellBack)
      PROVE  turn' = turn /\ (pc' \in {"awaiting", "gated"} => pc' = pc)
  BY <1>4 DEF Rendered, CheckLimits, InfrastructureFailure, Resume
<1>5. CASE RequestCancel \/ Escape \/ Ended
  BY <1>5 DEF RequestCancel, Escape, Ended, vars
<1>6. QED
  BY <1>1, <1>2, <1>3, <1>4, <1>5 DEF Next, Progress, Proposes

\* Every step keeps actions and transitions in order.
LEMMA NextOrdered ==
  ASSUME TypeOK, IsSeq(log), OrderInv, Next
  PROVE  OrderInv'
<1>1. turn \in Nat /\ Ordered(log, turn)
  BY DEF TypeOK, OrderInv
<1>2. CASE Proposes
  <2>1. PICK tokens \in TokenReadings, cost \in CostReadings, a \in Actions :
          AgentProposes(a, tokens, cost)
    BY <1>2 DEF Proposes
  <2> DEFINE e == Proposed(a)
             f == Decided(Evaluate(a), ClassifyAction(a))
             s == log \o <<e>>
             k == Len(log) + 1
  <2>2. /\ pc = "awaiting" /\ pc' = "gated" /\ turn' = turn /\ log' = log \o <<e, f>>
    BY <2>1 DEF AgentProposes
  <2>3. /\ e.type = "agent.action" /\ e.turn = turn /\ e.action = a
        /\ f.type = "policy.decision"
    BY DEF Proposed, Decided
  <2> HIDE DEF e, f
  <2>4. turn # 0 /\ \A i \in Proposals(log) : log[i].turn < turn
    <3>1. turn # 0 /\ \A i \in Proposals(log) : log[i].turn # turn /\ log[i].turn \in 1..turn
      BY <1>1, <2>2 DEF OrderInv, Ordered
    <3>2. QED  BY <1>1, <3>1
  <2>5. Ordered(s, turn)
    BY <1>1, <2>3, <2>4, OneOrdered
  <2>6. IsSeq(s) /\ k \in DOMAIN s /\ s[k] = e
    BY Joined, Single
  <2>7. log' = s \o <<f>>
    <3>1. <<e>> \o <<f>> = <<e, f>> /\ IsSeq(<<e>>) /\ IsSeq(<<f>>)
      BY PairJoins, Single
    <3>2. (log \o <<e>>) \o <<f>> = log \o (<<e>> \o <<f>>)
      BY <3>1, Associates
    <3>3. QED  BY <2>2, <3>1, <3>2
  <2> HIDE DEF s, k
  <2>8. Ordered(s \o <<f>>, turn)
    BY <1>1, <2>3, <2>5, <2>6, OneOrdered
  <2>9. k \in Proposals(log') /\ log'[k].turn = turn
    BY <2>3, <2>6, <2>7, Joined, Single DEF Proposals
  <2>10. QED  BY <2>2, <2>7, <2>8, <2>9 DEF OrderInv
<1>3. CASE Applies
  <2>1. PICK first, r : /\ Still(first)
                        /\ log' = (log \o first) \o <<Transition(r)>>
    BY <1>3 DEF Applies
  <2>2. pc = "gated" /\ pc' \in {"rendering", "final"} /\ turn' = turn
    BY <1>3 DEF Applies, ApplyAction, InfrastructureFailure
  <2> DEFINE s == log \o first
             e == Transition(r)
  <2>3. /\ Ordered(s, turn) /\ Proposals(s) = Proposals(log)
        /\ \A i \in Proposals(log) : s[i] = log[i]
    BY <1>1, <2>1, StillOrdered
  <2>4. IsSeq(s)
    BY <2>1, Joined DEF Still
  <2>5. e.type = "state.transition" /\ e.turn = turn
    BY DEF Transition
  <2>6. \E i \in Proposals(s) : s[i].turn = turn
    BY <2>2, <2>3 DEF OrderInv
  <2> HIDE DEF s, e
  <2>7. Ordered(s \o <<e>>, turn)
    BY <1>1, <2>3, <2>4, <2>5, <2>6, OneOrdered
  <2>8. log' = s \o <<e>>
    BY <2>1 DEF s, e
  <2>9. QED  BY <2>2, <2>7, <2>8 DEF OrderInv
<1>4. CASE StartRun \/ Freeze
  <2>1. PICK e : log' = Append(log, e) /\ e.type \notin {"agent.action", "state.transition", "run.error"}
    BY <1>4 DEF StartRun, Freeze, Started, Terminal
  <2>2. pc' \notin {"awaiting", "gated"} /\ turn' = turn
    BY <1>4 DEF StartRun, Freeze
  <2>3. log' = log \o <<e>>
    BY <2>1, OneMore
  <2>4. Ordered(log \o <<e>>, turn)
    BY <1>1, <2>1, OneOrdered
  <2>5. QED  BY <2>2, <2>3, <2>4 DEF OrderInv
<1>5. CASE GrowsStill /\ ~Proposes
  <2>1. PICK events : Still(events) /\ log' = log \o events
    BY <1>5 DEF GrowsStill
  <2>2. /\ Ordered(log', turn) /\ Proposals(log') = Proposals(log)
        /\ \A i \in Proposals(log) : log'[i] = log[i]
    BY <1>1, <2>1, StillOrdered
  <2>3. CASE BeginTurn
    <3>1. pc' = "awaiting" /\ turn' = turn + 1
      BY <2>3 DEF BeginTurn
    <3>2. \A i \in Proposals(log') : log'[i].turn \in 1..turn
      BY <2>2 DEF Ordered
    <3>3. \A i \in Proposals(log') : log'[i].turn \in 1..turn' /\ log'[i].turn # turn'
      BY <1>1, <3>1, <3>2
    <3>4. Ordered(log', turn')
      BY <2>2, <3>3 DEF Ordered
    <3>5. turn' # 0
      BY <1>1, <3>1
    <3>6. QED  BY <3>1, <3>3, <3>4, <3>5 DEF OrderInv
  <2>4. CASE turn' = turn /\ (pc' \in {"awaiting", "gated"} => pc' = pc)
    BY <2>2, <2>4 DEF OrderInv
  <2>5. QED  BY <1>5, <2>3, <2>4, TurnMoves
<1>6. QED  BY <1>2, <1>3, <1>4, <1>5, StepsAreStill

\* Actions and transitions are in order at every point of every run.
LEMMA OrderInvariant == Spec => [](LogInvs /\ OrderInv)
<1>1. Init => OrderInv
  <2>1. SUFFICES ASSUME Init
                 PROVE  OrderInv
    OBVIOUS
  <2>2. log = <<>> /\ pc = "new"
    BY <2>1 DEF Init
  <2>3. Proposals(log) = {} /\ Transitions(log) = {}
    BY <2>2 DEF Proposals, Transitions
  <2>4. QED  BY <2>2, <2>3 DEF OrderInv, Ordered
<1>2. LogInvs /\ OrderInv /\ [Next]_vars => OrderInv'
  <2>1. SUFFICES ASSUME LogInvs, OrderInv, [Next]_vars
                 PROVE  OrderInv'
    OBVIOUS
  <2>2. TypeOK /\ IsSeq(log)
    BY <2>1 DEF LogInvs, LogInv
  <2>3. CASE Next
    BY <2>1, <2>2, <2>3, NextOrdered
  <2>4. CASE UNCHANGED vars
    BY <2>1, <2>4 DEF vars, OrderInv
  <2>5. QED  BY <2>1, <2>3, <2>4
<1>3. QED  BY <1>1, <1>2, LogInvariant, PTL DEF Spec

-------------------------------------------------------------------------------
(***************************************************************************)
(* Replay as a fold over the log.                                          *)
(***************************************************************************)
ReplayOf(s, sd) == FoldLeft(LAMBDA acc, e : ReplayStep(acc, e, sd), ReplayStart, s)

\* The fold of FoldProofs, with the replay of one event as its step and the
\* seed as what the step depends on.
AtStart(sd) == ReplayStart

Rerun == INSTANCE FoldProofs WITH Base <- AtStart, Step <- ReplayStep

\* The replay of the model is that fold.
LEMMA ReplayIsFold ==
  ASSUME NEW s, NEW sd, NEW n, DOMAIN s = 1..n
  PROVE  ReplayOf(s, sd) = Rerun!FoldOf(s, sd, n)
BY DEF ReplayOf, AtStart, FoldLeft, MapThenFoldSet, Max, Rerun!Max, Rerun!FoldOf, Rerun!IsFold

\* Nothing to replay.
LEMMA ReplayEmpty ==
  ASSUME NEW sd
  PROVE  ReplayOf(<<>>, sd) = ReplayStart
<1>1. DOMAIN <<>> = 1..0
  OBVIOUS
<1>2. ReplayOf(<<>>, sd) = Rerun!FoldOf(<<>>, sd, 0)
  BY <1>1, ReplayIsFold
<1>3. PICK it : Rerun!IsRun(it, <<>>, sd, 0) /\ Rerun!FoldOf(<<>>, sd, 0) = it[0]
  BY Rerun!FoldRuns
<1>4. QED  BY <1>2, <1>3 DEF Rerun!IsRun, AtStart

\* One event more.
LEMMA ReplayOne ==
  ASSUME NEW s, IsSeq(s), NEW e, NEW sd
  PROVE  ReplayOf(s \o <<e>>, sd) = ReplayStep(ReplayOf(s, sd), e, sd)
<1> DEFINE t == s \o <<e>>
           n == Len(s)
<1>1. /\ n \in Nat /\ DOMAIN s = 1..n /\ DOMAIN t = 1..n+1
      /\ \A i \in 1..n : t[i] = s[i]
      /\ t[n + 1] = e
  BY Joined, Single
<1> HIDE DEF t, n
<1>2. ReplayOf(s, sd) = Rerun!FoldOf(s, sd, n) /\ ReplayOf(t, sd) = Rerun!FoldOf(t, sd, n + 1)
  BY <1>1, ReplayIsFold
<1>3. \A k \in 1..n : \A acc : ReplayStep(acc, t[k], sd) = ReplayStep(acc, s[k], sd)
  BY <1>1
<1>4. Rerun!FoldOf(t, sd, n + 1) = ReplayStep(Rerun!FoldOf(s, sd, n), t[n + 1], sd)
  BY <1>1, <1>3, Rerun!FoldAppend
<1>5. QED  BY <1>1, <1>2, <1>4 DEF t

\* Events that replay does not act on.
LEMMA ReplayStill ==
  ASSUME NEW s, IsSeq(s), NEW events, Still(events), NEW sd
  PROVE  ReplayOf(s \o events, sd) = ReplayOf(s, sd)
<1> DEFINE t == s \o events
           n == Len(s)
           m == Len(t)
<1>1. /\ n \in Nat /\ DOMAIN s = 1..n /\ m \in Nat /\ n <= m /\ DOMAIN t = 1..m
      /\ \A i \in 1..n : t[i] = s[i]
  BY Joined DEF Still
<1>2. \A k \in n+1..m : Inert(t[k])
  <2>1. SUFFICES ASSUME NEW k \in n+1..m
                 PROVE  Inert(t[k])
    OBVIOUS
  <2>2. PICK i \in 1..Len(events) : k = n + i
    <3>1. k - n \in 1..Len(events) /\ k = n + (k - n)
      BY Joined DEF Still
    <3>2. QED  BY <3>1
  <2>3. t[k] = events[i] /\ i \in DOMAIN events
    BY <2>2, Joined DEF Still
  <2>4. QED  BY <2>3 DEF Range, Still
<1> HIDE DEF t, n, m
<1>3. \A e, acc : Inert(e) => ReplayStep(acc, e, sd) = acc
  BY DEF Inert, Replayed, ReplayStep
<1>4. ReplayOf(s, sd) = Rerun!FoldOf(s, sd, n) /\ ReplayOf(t, sd) = Rerun!FoldOf(t, sd, m)
  BY <1>1, ReplayIsFold
<1>5. \A k \in 1..n : \A acc : ReplayStep(acc, t[k], sd) = ReplayStep(acc, s[k], sd)
  BY <1>1
<1>6. \A k \in n+1..m : \A acc : ReplayStep(acc, t[k], sd) = acc
  BY <1>2, <1>3
<1>7. Rerun!FoldOf(t, sd, m) = Rerun!FoldOf(s, sd, n)
  <2> DEFINE T == {k \in Nat : n + k <= m => Rerun!FoldOf(t, sd, n + k) = Rerun!FoldOf(s, sd, n)}
  <2>1. 0 \in T
    BY <1>1, <1>5, Rerun!FoldSame
  <2>2. ASSUME NEW k \in Nat, k \in T
        PROVE  k + 1 \in T
    <3>1. SUFFICES ASSUME n + (k + 1) <= m
                   PROVE  Rerun!FoldOf(t, sd, n + (k + 1)) = Rerun!FoldOf(s, sd, n)
      OBVIOUS
    <3> DEFINE h == n + k
    <3>2. /\ h \in Nat /\ n + (k + 1) = h + 1 /\ h + 1 \in n+1..m
          /\ Rerun!FoldOf(t, sd, h) = Rerun!FoldOf(s, sd, n)
      BY <1>1, <2>2, <3>1
    <3> HIDE DEF h
    <3>3. Rerun!FoldOf(t, sd, h + 1) = ReplayStep(Rerun!FoldOf(t, sd, h), t[h + 1], sd)
      BY <3>2, Rerun!FoldAppend
    <3>4. QED  BY <1>6, <3>2, <3>3
  <2>3. Nat \subseteq T
    <3> HIDE DEF T
    <3> QED  BY <2>1, <2>2, Rerun!NatSetInduction
  <2>4. PICK d \in Nat : n + d = m
    <3>1. m - n \in Nat /\ n + (m - n) = m
      BY <1>1
    <3>2. QED  BY <3>1
  <2>5. d \in T
    <3> HIDE DEF T
    <3> QED  BY <2>3
  <2>6. n + d <= m
    BY <1>1, <2>4
  <2>7. QED  BY <2>4, <2>5, <2>6
<1>8. QED  BY <1>4, <1>7 DEF t

\* What replay of a log reports.
LEMMA ReplayReports ==
  ASSUME NEW s, NEW sd, NEW acc, acc = ReplayOf(s, sd)
  PROVE  ReplayMatches(s, sd) = (acc.match /\ (acc.final = Absent \/ acc.final = StateHash(acc.world)))
BY DEF ReplayMatches, ReplayOf

-------------------------------------------------------------------------------
(***************************************************************************)
(* Handlers that cannot raise.                                             *)
(***************************************************************************)
KnownKinds ==
  {"all_of", "any_of", "not", "env_var_set", "env_var_equals", "file_exists", "file_absent",
   "file_contains", "file_regex", "max_changed_files", "test_suite_status", "attempted"}

\* The conditions nested in a condition.
Children(c) ==
  CASE c.kind \in {"all_of", "any_of"} -> Range(c.of)
    [] c.kind = "not" -> {c.of}
    [] OTHER -> {}

\* A list, of any length.
Listed(s) == \E n \in Nat : DOMAIN s = 1..n

\* A manifest holds lists of conditions, nested to some depth.
Nested(depth) ==
  /\ \A c \in Manifest.conditions : c.kind \in {"all_of", "any_of"} => Listed(c.of)
  /\ \E rank \in [Manifest.conditions -> 0..depth] :
       \A c \in Manifest.conditions : \A d \in Children(c) :
         d \in Manifest.conditions /\ rank[d] < rank[c]

\* The conditions that decide about suites, and those nested in them, are of
\* known kinds.
SuitesAreTyped ==
  /\ \E depth \in Nat : Nested(depth)
  /\ Listed(Manifest.suites) /\ Range(Manifest.suites) \subseteq Suites
  /\ \E typed \in SUBSET Manifest.conditions :
       /\ \A c \in typed : c.kind \in KnownKinds /\ Children(c) \subseteq typed
       /\ \A s \in Suites : Listed(Manifest.passWhen[s]) /\ Range(Manifest.passWhen[s]) \subseteq typed

\* The verdict on condition c in world w, given the verdicts f on those nested
\* in it.
Verdict(f, c, w) ==
  CASE c.kind = "all_of" -> FirstOther(c.of, f, "yes")
    [] c.kind = "any_of" -> FirstOther(c.of, f, "no")
    [] c.kind = "not" ->
         CASE f[c.of] = "yes" -> "no"
           [] f[c.of] = "no" -> "yes"
           [] OTHER -> "raise"
    [] OTHER -> AtomVerdict(c, w)

\* The children whose verdict differs from v, and the first of some children.
Differing(children, f, v) == {i \in DOMAIN children : f[children[i]] # v}
FirstIn(S) == CHOOSE i \in S : \A j \in S : i <= j

\* What FirstOther answers is v or the verdict of a child.
LEMMA FirstOtherIs ==
  ASSUME NEW children, Listed(children), NEW f, NEW v, NEW S, S = Differing(children, f, v)
  PROVE  /\ S # {} => FirstIn(S) \in S /\ FirstIn(S) \in DOMAIN children
         /\ FirstOther(children, f, v) = IF S = {} THEN v ELSE f[children[FirstIn(S)]]
<1>1. PICK n \in Nat : DOMAIN children = 1..n
  BY DEF Listed
<1>2. S \in SUBSET (1..n)
  BY <1>1 DEF Differing
<1>3. S # {} => \E i \in S : \A j \in S : i <= j
  BY <1>2, Rerun!FirstIndex
<1>4. S # {} => FirstIn(S) \in S
  BY <1>3 DEF FirstIn
<1>5. QED  BY <1>1, <1>2, <1>4 DEF FirstOther, Differing, FirstIn

\* A verdict depends on those of the conditions nested in it.
LEMMA VerdictDepends ==
  ASSUME NEW f, NEW g, NEW c, NEW w,
         c.kind \in {"all_of", "any_of"} => Listed(c.of),
         \A d \in Children(c) : f[d] = g[d]
  PROVE  Verdict(f, c, w) = Verdict(g, c, w)
<1>1. CASE c.kind \in {"all_of", "any_of"}
  <2> DEFINE of == c.of
  <2>1. \A i \in DOMAIN of : f[of[i]] = g[of[i]]
    BY <1>1 DEF Children, Range
  <2>2. Listed(of)
    BY <1>1
  <2>3. ASSUME NEW v
        PROVE  FirstOther(of, f, v) = FirstOther(of, g, v)
    <3> DEFINE S == Differing(of, f, v)
    <3>1. S = Differing(of, g, v)
      BY <2>1 DEF Differing
    <3> HIDE DEF S, of
    <3>2. S = Differing(of, f, v)
      BY DEF S
    <3>3. /\ S # {} => FirstIn(S) \in DOMAIN of
          /\ FirstOther(of, f, v) = IF S = {} THEN v ELSE f[of[FirstIn(S)]]
      BY <2>2, <3>2, FirstOtherIs
    <3>4. FirstOther(of, g, v) = IF S = {} THEN v ELSE g[of[FirstIn(S)]]
      BY <2>2, <3>1, FirstOtherIs
    <3>5. QED  BY <2>1, <3>3, <3>4
  <2>4. QED  BY <1>1, <2>3 DEF Verdict
<1>2. CASE c.kind \notin {"all_of", "any_of"}
  BY <1>2 DEF Verdict, Children
<1>3. QED  BY <1>1, <1>2

\* Conditions nested to a finite depth have verdicts: those of rank k come from
\* those below it.
LEMMA VerdictsExist ==
  ASSUME NEW w, NEW depth \in Nat, Nested(depth)
  PROVE  \E f : f = [c \in Manifest.conditions |-> Verdict(f, c, w)]
<1>1. PICK rank \in [Manifest.conditions -> 0..depth] :
        \A c \in Manifest.conditions : \A d \in Children(c) :
          d \in Manifest.conditions /\ rank[d] < rank[c]
  BY DEF Nested
<1> DEFINE D(k) == {c \in Manifest.conditions : rank[c] < k}
           T == {k \in Nat : \E f : f = [c \in D(k) |-> Verdict(f, c, w)]}
<1>2. 0 \in T
  <2>1. D(0) = {}
    OBVIOUS
  <2> DEFINE f == [c \in D(0) |-> 0]
  <2>2. f = [c \in D(0) |-> Verdict(f, c, w)]
    BY <2>1
  <2>3. QED  BY <2>2
<1>3. ASSUME NEW k \in Nat, k \in T
      PROVE  k + 1 \in T
  <2>1. PICK g : g = [c \in D(k) |-> Verdict(g, c, w)]
    BY <1>3
  <2> DEFINE f == [c \in D(k + 1) |-> Verdict(g, c, w)]
  <2>2. ASSUME NEW c \in D(k + 1)
        PROVE  Verdict(f, c, w) = Verdict(g, c, w)
    <3>1. ASSUME NEW d \in Children(c)
          PROVE  f[d] = g[d]
      <4>1. d \in D(k) /\ d \in D(k + 1)
        BY <1>1
      <4>2. f[d] = Verdict(g, d, w) /\ g[d] = Verdict(g, d, w)
        BY <2>1, <4>1
      <4>3. QED  BY <4>2
    <3> HIDE DEF f
    <3>2. c.kind \in {"all_of", "any_of"} => Listed(c.of)
      BY DEF Nested
    <3>3. QED  BY <3>1, <3>2, VerdictDepends
  <2>3. f = [c \in D(k + 1) |-> Verdict(f, c, w)]
    BY <2>2
  <2>4. \E h : h = [c \in D(k + 1) |-> Verdict(h, c, w)]
    <3> HIDE DEF f, D
    <3> QED  BY <2>3
  <2>5. k + 1 \in Nat
    OBVIOUS
  <2> HIDE DEF D, f
  <2>6. QED  BY <2>4, <2>5
<1>4. Nat \subseteq T
  <2> HIDE DEF T
  <2> QED  BY <1>2, <1>3, Rerun!NatSetInduction
<1>5. depth + 1 \in T
  <2> HIDE DEF T
  <2> QED  BY <1>4
<1>6. D(depth + 1) = Manifest.conditions
  OBVIOUS
<1>7. QED  BY <1>5, <1>6

\* So the verdicts EvaluateCondition chooses satisfy their equations.
LEMMA VerdictsAre ==
  ASSUME NEW w, NEW depth \in Nat, Nested(depth)
  PROVE  \A c \in Manifest.conditions :
            EvaluateCondition(w)[c] = Verdict(EvaluateCondition(w), c, w)
<1> DEFINE f == EvaluateCondition(w)
<1>1. f = CHOOSE g : g = [c \in Manifest.conditions |-> Verdict(g, c, w)]
  BY DEF EvaluateCondition, Verdict
<1>2. f = [c \in Manifest.conditions |-> Verdict(f, c, w)]
  <2> HIDE DEF f
  <2> QED  BY <1>1, VerdictsExist
<1>3. QED  BY <1>2

\* What a typed condition answers.
YesOrNo == {"yes", "no"}

\* The first verdict that differs, among verdicts that are yes or no.
LEMMA FirstOtherYesOrNo ==
  ASSUME NEW children, Listed(children), NEW f, NEW v \in YesOrNo,
         \A c \in Range(children) : f[c] \in YesOrNo
  PROVE  FirstOther(children, f, v) \in YesOrNo
<1> DEFINE S == Differing(children, f, v)
<1>1. /\ S # {} => FirstIn(S) \in DOMAIN children
      /\ FirstOther(children, f, v) = IF S = {} THEN v ELSE f[children[FirstIn(S)]]
  BY FirstOtherIs
<1> HIDE DEF S
<1>2. S # {} => f[children[FirstIn(S)]] \in YesOrNo
  BY <1>1 DEF Range
<1>3. QED  BY <1>1, <1>2

\* A condition of a known kind over conditions that are yes or no is yes or no.
LEMMA VerdictYesOrNo ==
  ASSUME NEW f, NEW c, NEW w, c.kind \in KnownKinds,
         c.kind \in {"all_of", "any_of"} => Listed(c.of),
         \A d \in Children(c) : f[d] \in YesOrNo
  PROVE  Verdict(f, c, w) \in YesOrNo
<1>1. CASE c.kind \in {"all_of", "any_of"}
  <2> DEFINE of == c.of
  <2>1. Listed(of) /\ \A d \in Range(of) : f[d] \in YesOrNo
    BY <1>1 DEF Children
  <2> HIDE DEF of
  <2>2. FirstOther(of, f, "yes") \in YesOrNo /\ FirstOther(of, f, "no") \in YesOrNo
    BY <2>1, FirstOtherYesOrNo DEF YesOrNo
  <2>3. QED  BY <1>1, <2>2 DEF Verdict, of
<1>2. CASE c.kind = "not"
  BY <1>2 DEF Verdict, Children, YesOrNo
<1>3. CASE c.kind \notin {"all_of", "any_of", "not"}
  <2>1. \A b : YesNo(b) \in YesOrNo
    BY DEF YesNo, YesOrNo
  <2>2. AtomVerdict(c, w) \in YesOrNo
    BY <1>3, <2>1 DEF AtomVerdict, KnownKinds
  <2>3. QED  BY <1>3, <2>2 DEF Verdict
<1>4. QED  BY <1>1, <1>2, <1>3

\* A suite whose conditions are typed passes or fails.
LEMMA SuitesPassOrFail ==
  ASSUME SuitesAreTyped, NEW w, NEW s \in Suites
  PROVE  FirstOther(Manifest.passWhen[s], EvaluateCondition(w), "yes") \in YesOrNo
<1>1. PICK depth \in Nat : Nested(depth)
  BY DEF SuitesAreTyped
<1>2. PICK rank \in [Manifest.conditions -> 0..depth] :
        \A c \in Manifest.conditions : \A d \in Children(c) :
          d \in Manifest.conditions /\ rank[d] < rank[c]
  BY <1>1 DEF Nested
<1>3. PICK typed \in SUBSET Manifest.conditions :
        /\ \A c \in typed : c.kind \in KnownKinds /\ Children(c) \subseteq typed
        /\ \A x \in Suites : Listed(Manifest.passWhen[x]) /\ Range(Manifest.passWhen[x]) \subseteq typed
  BY DEF SuitesAreTyped
<1> DEFINE f == EvaluateCondition(w)
           T == {k \in Nat : \A c \in typed : rank[c] < k => f[c] \in YesOrNo}
<1>4. \A c \in typed : f[c] = Verdict(f, c, w)
  BY <1>1, VerdictsAre
<1> HIDE DEF f
<1>5. 0 \in T
  OBVIOUS
<1>6. ASSUME NEW k \in Nat, k \in T
      PROVE  k + 1 \in T
  <2>1. SUFFICES ASSUME NEW c \in typed, rank[c] < k + 1
                 PROVE  f[c] \in YesOrNo
    OBVIOUS
  <2>2. \A d \in Children(c) : f[d] \in YesOrNo
    BY <1>2, <1>3, <1>6, <2>1
  <2>3. c.kind \in KnownKinds /\ (c.kind \in {"all_of", "any_of"} => Listed(c.of))
    BY <1>1, <1>3 DEF Nested
  <2>4. QED  BY <1>4, <2>2, <2>3, VerdictYesOrNo
<1>7. Nat \subseteq T
  <2> HIDE DEF T
  <2> QED  BY <1>5, <1>6, Rerun!NatSetInduction
<1>8. \A c \in typed : f[c] \in YesOrNo
  <2>1. depth + 1 \in T
    <3> HIDE DEF T
    <3> QED  BY <1>7
  <2>2. QED  BY <2>1
<1> DEFINE children == Manifest.passWhen[s]
<1>9. Listed(children) /\ \A c \in Range(children) : f[c] \in YesOrNo
  BY <1>3, <1>8
<1> HIDE DEF children
<1>10. FirstOther(children, f, "yes") \in YesOrNo
  BY <1>9, FirstOtherYesOrNo DEF YesOrNo
<1>11. QED  BY <1>10 DEF f, children

-------------------------------------------------------------------------------
\* One suite after the other, as test.run runs them.
NotYetRun(x) == [tests |-> x.world.tests, raised |-> FALSE]

\* What test.run has done so far, no suite having raised.
NotRaised(acc) == acc.raised = FALSE /\ DOMAIN acc = {"tests", "raised"}

\* Its fold, with the run of one suite as its step.
SuitesRun == INSTANCE FoldProofs WITH Base <- NotYetRun, Step <- RunSuite

\* Typed suites do not raise.
LEMMA SuitesDoNotRaise ==
  ASSUME SuitesAreTyped, NEW suites, NEW n \in Nat, DOMAIN suites = 1..n,
         Range(suites) \subseteq Suites, NEW x
  PROVE  SuitesRun!FoldOf(suites, x, n).raised = FALSE
<1>1. PICK f : SuitesRun!IsRun(f, suites, x, n) /\ SuitesRun!FoldOf(suites, x, n) = f[n]
  BY SuitesRun!FoldRuns
<1> DEFINE T == {k \in Nat : k <= n => NotRaised(f[k])}
<1>2. 0 \in T
  BY <1>1 DEF SuitesRun!IsRun, NotYetRun, NotRaised
<1>3. ASSUME NEW k \in Nat, k \in T
      PROVE  k + 1 \in T
  <2>1. SUFFICES ASSUME k + 1 <= n
                 PROVE  NotRaised(f[k + 1])
    OBVIOUS
  <2>2. NotRaised(f[k]) /\ k + 1 \in 1..n /\ (k + 1) - 1 = k
    BY <1>3, <2>1
  <2>3. f[k + 1] = RunSuite(f[k], suites[k + 1], x)
    BY <1>1, <2>2 DEF SuitesRun!IsRun
  <2> DEFINE s == suites[k + 1]
             now == [x.world EXCEPT !.tests = f[k].tests]
             v == FirstOther(Manifest.passWhen[s], EvaluateCondition(now), "yes")
  <2>4. v # "raise"
    <3>1. s \in Suites
      BY <2>2 DEF Range
    <3> HIDE DEF s, now
    <3>2. v \in YesOrNo
      BY <3>1, SuitesPassOrFail
    <3>3. QED  BY <3>2 DEF YesOrNo
  <2> HIDE DEF v
  <2>5. RunSuite(f[k], suites[k + 1], x) =
          [f[k] EXCEPT !.tests[s] =
              [status |-> IF v = "yes" THEN "pass" ELSE "fail", lastRun |-> x.turn]]
    BY <2>2, <2>4 DEF RunSuite, v, NotRaised
  <2>6. QED  BY <2>2, <2>3, <2>5 DEF NotRaised
<1>4. Nat \subseteq T
  <2> HIDE DEF T
  <2> QED  BY <1>2, <1>3, SuitesRun!NatSetInduction
<1>5. n \in T
  <2> HIDE DEF T
  <2> QED  BY <1>4
<1>6. QED  BY <1>1, <1>5 DEF NotRaised

\* The suites of the model run as that fold.
LEMMA SuitesRunIsFold ==
  ASSUME NEW suites, NEW n, DOMAIN suites = 1..n, NEW met
  PROVE  RunSuites(suites, met) = SuitesRun!FoldOf(suites, met, n)
BY DEF RunSuites, FoldLeft, MapThenFoldSet, Max, SuitesRun!Max, SuitesRun!FoldOf, SuitesRun!IsFold,
       NotYetRun

\* Hence test.run does not raise, nor does any other action.
LEMMA TypedActionsDoNotRaise ==
  ASSUME SuitesAreTyped, NEW w, NEW a, NEW t, NEW sd
  PROVE  ~Apply(w, a, t, sd).raised
<1> DEFINE Fields(r) == DOMAIN r = {"ok", "hint", "raised", "perturbed", "world"}
           Returns(r) == r.raised = FALSE /\ Fields(r)
<1>1. \A v, ok : Returns(Result(ok, v))
  BY DEF Result
<1>2. Returns(FsPatch(w, a)) /\ Returns(FsDelete(w, a)) /\ Returns(EnvSet(w, a))
  BY <1>1 DEF FsPatch, Write, FsDelete, EnvSet
<1>3. Returns(TestRun(w, a, t))
  <2> DEFINE suites == IF a.suite = Absent THEN Manifest.suites ELSE <<a.suite>>
             met == [world |-> w, turn |-> t]
             end == RunSuites(suites, met)
  <2>1. CASE a.suite # Absent /\ a.suite \notin Suites
    BY <1>1, <2>1 DEF TestRun
  <2>2. CASE a.suite = Absent \/ a.suite \in Suites
    <3>1. \E n \in Nat : DOMAIN suites = 1..n /\ Range(suites) \subseteq Suites
      <4>1. CASE a.suite = Absent
        BY <4>1 DEF SuitesAreTyped, Listed
      <4>2. CASE a.suite # Absent
        <5>1. DOMAIN <<a.suite>> = 1..1 /\ Range(<<a.suite>>) = {a.suite}
          BY DEF Range
        <5>2. QED  BY <2>2, <4>2, <5>1
      <4>3. QED  BY <4>1, <4>2
    <3> HIDE DEF suites, met
    <3>2. PICK n \in Nat : DOMAIN suites = 1..n /\ Range(suites) \subseteq Suites
      BY <3>1
    <3>3. end = SuitesRun!FoldOf(suites, met, n)
      BY <3>2, SuitesRunIsFold
    <3>4. end.raised = FALSE
      BY <3>2, <3>3, SuitesDoNotRaise
    <3> HIDE DEF end
    <3>5. TestRun(w, a, t) = [Result(TRUE, [w EXCEPT !.tests = end.tests]) EXCEPT !.raised = end.raised]
      BY <2>2 DEF TestRun, end, suites, met
    <3>6. QED  BY <1>1, <3>4, <3>5
  <2>3. QED  BY <2>1, <2>2
<1>4. /\ Returns([Result(TRUE, w) EXCEPT !.hint = "submit"])
      /\ Returns([Result(TRUE, w) EXCEPT !.hint = "give_up"])
      /\ Returns([Result(FALSE, w) EXCEPT !.perturbed = TRUE])
  BY <1>1
<1>5. Returns(Handle(w, a, t))
  <2> HIDE DEF Returns
  <2> QED  BY <1>1, <1>2, <1>3, <1>4 DEF Handle
<1>6. QED  BY <1>4, <1>5 DEF Apply

-------------------------------------------------------------------------------
(***************************************************************************)
(* What replay has when it has read the log so far.                        *)
(***************************************************************************)
\* What replay makes of the log as it stands.
Now == ReplayOf(log, seed)

\* No hash has differed so far.
Matching(acc) ==
  /\ acc = [world |-> acc.world, pending |-> acc.pending, turn |-> acc.turn,
            match |-> acc.match, final |-> acc.final]
  /\ acc.match = TRUE

\* An allowed decision of a turn with no state.transition: the handler of its
\* action raised.
Unanswered ==
  \E i \in EventsOf("policy.decision") :
    log[i].decision = "allow" /\ EventsAt("state.transition", log[i].turn) = {}

\* A run that failed on such a decision.
Interrupted == status = "failed" /\ Unanswered

\* Replay has the world of the run; while an action is decided on, it has that
\* action, or the flags of its denial, already.
InStep(acc) ==
  /\ acc.final \in {Absent, StateHash(acc.world)}
  /\ pc \in Beginning => acc.final = Absent
  /\ pc \notin {"gated", "aborted"} => acc.world = world
  /\ pc = "gated" =>
       IF cur.decision = "allow"
       THEN acc.world = world /\ acc.pending = cur.action /\ acc.turn = turn
       ELSE acc.world = RecordAttemptFlags(world, cur.class)

\* Replay is in step with the run, unless a handler raised and took its run
\* with it, which typed suites rule out.
ReplayInv ==
  /\ Matching(Now)
  /\ InStep(Now) \/ (Interrupted /\ ~SuitesAreTyped)

\* What replay does with each event it acts on: it compares the initial state,
LEMMA ReplayStarts ==
  ASSUME NEW acc, Matching(acc), NEW e, NEW sd,
         e.type = "run.started", e.hash = StateHash(acc.world),
         NEW next, next = ReplayStep(acc, e, sd)
  PROVE  /\ Matching(next)
         /\ next.world = acc.world /\ next.final = acc.final
  BY DEF ReplayStep, Matching

\* keeps the action,
LEMMA ReplayProposes ==
  ASSUME NEW acc, Matching(acc), NEW e, NEW sd,
         e.type = "agent.action",
         NEW next, next = ReplayStep(acc, e, sd)
  PROVE  /\ Matching(next)
         /\ next.world = acc.world /\ next.final = acc.final
         /\ next.pending = e.action /\ next.turn = e.turn
  BY DEF ReplayStep, Matching

\* marks the state with a denied one,
LEMMA ReplayDecides ==
  ASSUME NEW acc, Matching(acc), NEW e, NEW sd,
         e.type = "policy.decision", acc.pending # Absent,
         NEW next, next = ReplayStep(acc, e, sd)
  PROVE  /\ Matching(next) /\ next.final = acc.final
         /\ e.decision = "allow" => next = acc
         /\ e.decision # "allow" => next.world = RecordAttemptFlags(acc.world, e.class)
  BY DEF ReplayStep, ReplayDenied, Matching

\* reapplies an allowed one,
LEMMA ReplayApplies ==
  ASSUME NEW acc, Matching(acc), NEW e, NEW sd,
         acc.pending # Absent, e.type = "state.transition",
         NEW w, w = Apply(acc.world, acc.pending, acc.turn, sd).world, e.hash = StateHash(w),
         NEW next, next = ReplayStep(acc, e, sd)
  PROVE  /\ Matching(next)
         /\ next.world = w /\ next.final = acc.final
  BY DEF ReplayStep, Matching

\* and keeps the final hash.
LEMMA ReplayEnds ==
  ASSUME NEW acc, Matching(acc), NEW e, NEW sd,
         e.type = "run.terminal",
         NEW next, next = ReplayStep(acc, e, sd)
  PROVE  /\ Matching(next)
         /\ next.world = acc.world /\ next.final = e.hash
  BY DEF ReplayStep, Matching

\* No step changes the seed.
LEMMA SeedStays ==
  ASSUME Next
  PROVE  seed' = seed
  BY DEF Next, Progress, CreateRun, StartRun, StartAdapter, HonorCancel, BeginTurn, AgentFails,
     AgentMalformed, AgentProposes, DenyAction, ApplyAction, RenderFails, Rendered, Freeze, Score,
     SaveScorecard, Persist, RequestCancel, Escape, Ended, vars

\* A handler that raises takes the state with it, and the run.
Raises ==
  /\ pc = "gated" /\ cur.decision = "allow" /\ Apply(world, cur.action, turn, seed).raised
  /\ pc' = "final" /\ status' = "failed"

\* How the state and the place move when nothing is written that replay acts on.
LEMMA StillMoves ==
  ASSUME Next, ~Proposes, ~Applies, ~StartRun, ~Freeze
  PROVE  \/ /\ world' = world /\ pc # "gated" /\ pc' # "gated"
            /\ pc' \in Beginning => pc \in Beginning
            /\ pc \in Beginning \/ status' = status
            /\ pc # "aborted"
         \/ pc' = pc /\ UNCHANGED <<world, cur, turn, status>>
         \/ pc' = "aborted" /\ status' = status
         \/ /\ pc = "gated" /\ cur.decision # "allow" /\ pc' \in {"loop", "final"}
            /\ world' = RecordAttemptFlags(world, cur.class)
         \/ Raises
<1> USE DEF Beginning, TurnStates
<1>1. CASE \/ CreateRun \/ StartAdapter \/ HonorCancel \/ BeginTurn \/ AgentFails
           \/ RenderFails \/ Score \/ SaveScorecard \/ Persist
  BY <1>1 DEF CreateRun, StartAdapter, HonorCancel, BeginTurn, AgentFails, RenderFails,
     Score, SaveScorecard, Persist, InfrastructureFailure
<1>2. ASSUME NEW tokens \in TokenReadings, NEW cost \in CostReadings,
             AgentMalformed(tokens, cost)
      PROVE  world' = world /\ pc = "awaiting" /\ pc' \in {"loop", "final"}
  BY <1>2 DEF AgentMalformed, CheckLimits, Resume
<1>3. CASE DenyAction
  <2>1. pc' \in {"loop", "final"}
    BY <1>3 DEF DenyAction, CheckLimits, InfrastructureFailure, Resume
  <2>2. QED  BY <1>3, <2>1 DEF DenyAction
<1>4. CASE ApplyAction
  <2> DEFINE r == Apply(world, cur.action, turn, seed)
             first == When(r.perturbed, Perturbed)
  <2>1. Still(first)
    BY StillEvents, StillWhen
  <2>2. pc = "gated" /\ cur.decision = "allow"
    BY <1>4 DEF ApplyAction
  <2>3. \/ r.raised /\ InfrastructureFailure(<<>>)
        \/ ~r.raised /\ log' = log \o first \o <<Transition(r)>>
    BY <1>4 DEF ApplyAction
  <2>4. CASE r.raised /\ InfrastructureFailure(<<>>)
    BY <2>2, <2>4 DEF InfrastructureFailure, Raises
  <2>5. CASE ~r.raised /\ log' = log \o first \o <<Transition(r)>>
    <3> HIDE DEF r, first
    <3>1. Applies
      BY <1>4, <2>1, <2>5 DEF Applies, r
    <3>2. QED  BY <3>1
  <2>6. QED  BY <2>3, <2>4, <2>5
<1>5. ASSUME NEW fellBack \in BOOLEAN, Rendered(fellBack)
      PROVE  world' = world /\ pc = "rendering" /\ pc' \in {"loop", "final"}
  BY <1>5 DEF Rendered, CheckLimits, InfrastructureFailure, Resume
<1>6. CASE RequestCancel \/ Escape \/ Ended
  BY <1>6 DEF RequestCancel, Escape, Ended, vars
<1>7. QED
  BY <1>1, <1>2, <1>3, <1>4, <1>5, <1>6 DEF Next, Progress, Proposes

\* An allowed action without a transition stays one when no transition is written.
LEMMA UnansweredStays ==
  ASSUME IsSeq(log), Unanswered, NEW events, IsSeq(events), log' = log \o events,
         \A e \in Range(events) : e.type # "state.transition"
  PROVE  Unanswered'
<1>1. PICK i \in EventsOf("policy.decision") :
        log[i].decision = "allow" /\ EventsAt("state.transition", log[i].turn) = {}
  BY DEF Unanswered
<1>2. /\ DOMAIN log \subseteq DOMAIN log' /\ \A j \in DOMAIN log : log'[j] = log[j]
      /\ DOMAIN log = 1..Len(log) /\ Len(log) \in Nat
  BY Joined
<1>3. i \in EventsOf("policy.decision")' /\ log'[i] = log[i]
  BY <1>2 DEF EventsOf
<1>4. ASSUME NEW j \in DOMAIN log', j \notin DOMAIN log
      PROVE  log'[j].type # "state.transition"
  <2>1. log'[j] \in Range(events)
    <3>1. PICK k \in 1..Len(events) : j = Len(log) + k
      <4>1. j - Len(log) \in 1..Len(events) /\ j = Len(log) + (j - Len(log))
        BY <1>4, Joined
      <4>2. QED  BY <4>1
    <3>2. log'[j] = events[k] /\ k \in DOMAIN events
      BY <3>1, Joined
    <3>3. QED  BY <3>2 DEF Range
  <2>2. QED  BY <2>1
<1>5. EventsAt("state.transition", log[i].turn)' = {}
  BY <1>1, <1>2, <1>3, <1>4 DEF EventsAt, EventsOf
<1>6. QED  BY <1>1, <1>3, <1>5 DEF Unanswered

\* An action that the engine is about to apply is unanswered.
LEMMA GatedIsUnanswered ==
  ASSUME IsSeq(log), TurnInv, pc = "gated", cur.decision = "allow"
  PROVE  Unanswered
<1>1. N(log, "allowed", turn) = 1 /\ N(log, "state.transition", turn) = 0
  BY DEF TurnInv, UnderWay
<1>2. At(log, "allowed", turn) # {} /\ At(log, "state.transition", turn) = {}
  BY <1>1, CountsFinite
<1>3. PICK i \in DOMAIN log : Is("allowed", log[i]) /\ log[i].turn = turn
  BY <1>2 DEF At
<1>4. EventsAt("state.transition", turn) = {}
  BY <1>2 DEF At, Is, EventsAt, EventsOf
<1>5. QED  BY <1>3, <1>4 DEF Unanswered, Is, EventsOf

\* Every step keeps replay in step.
LEMMA NextReplay ==
  ASSUME TypeOK, RowInv, IsSeq(log), TurnInv, ReplayInv, Next
  PROVE  ReplayInv'
<1>0. PICK acc, next : acc = Now /\ next = Now'
  OBVIOUS
<1>1. Matching(acc) /\ acc = ReplayOf(log, seed) /\ next = ReplayOf(log', seed)
  BY <1>0, SeedStays DEF ReplayInv, Now
<1>2. pc \in Beginning => InStep(acc) /\ status = "completed"
  BY <1>0 DEF RowInv, Beginning, TurnStates, ReplayInv, Interrupted
<1>3. InStep(acc) \/ (Interrupted /\ ~SuitesAreTyped)
  BY <1>0 DEF ReplayInv
<1>4. ReplayInv' <=> /\ Matching(next)
                     /\ InStep(next)' \/ (Interrupted' /\ ~SuitesAreTyped)
  BY <1>0 DEF ReplayInv, InStep
<1>5. CASE StartRun
  <2>1. /\ pc = "created" /\ pc' = "starting" /\ log' = log \o <<Started>> /\ world' = world
    BY <1>5, OneMore DEF StartRun
  <2>2. next = ReplayStep(acc, Started, seed)
    BY <1>1, <2>1, ReplayOne
  <2>3. InStep(acc) /\ acc.world = world /\ acc.final = Absent
    BY <1>2, <2>1 DEF Beginning, InStep
  <2>4. Started.type = "run.started" /\ Started.hash = StateHash(acc.world)
    BY <2>3 DEF Started
  <2>5. Matching(next) /\ next.world = acc.world /\ next.final = acc.final
    BY <1>1, <2>2, <2>4, ReplayStarts
  <2>6. InStep(next)'
    BY <2>1, <2>3, <2>5 DEF InStep
  <2>7. QED  BY <1>4, <2>5, <2>6
<1>6. CASE Freeze
  <2>1. /\ pc = "final" /\ pc' \in {"scoring", "persisting"} /\ log' = log \o <<Terminal>>
        /\ UNCHANGED <<world, status>>
    BY <1>6, OneMore DEF Freeze
  <2>2. next = ReplayStep(acc, Terminal, seed)
    BY <1>1, <2>1, ReplayOne
  <2>3. Terminal.type = "run.terminal" /\ Terminal.hash = StateHash(world)
    BY DEF Terminal
  <2>4. Matching(next) /\ next.world = acc.world /\ next.final = StateHash(world)
    BY <1>1, <2>2, <2>3, ReplayEnds
  <2>5. CASE InStep(acc)
    <3>1. acc.world = world
      BY <2>1, <2>5 DEF InStep
    <3>2. InStep(next)'
      BY <2>1, <2>4, <3>1 DEF InStep, Beginning, TurnStates
    <3>3. QED  BY <1>4, <2>4, <3>2
  <2>6. CASE Interrupted /\ ~SuitesAreTyped
    <3>1. IsSeq(<<Terminal>>) /\ \A e \in Range(<<Terminal>>) : e.type # "state.transition"
      BY <2>3, Single
    <3>2. Interrupted'
      BY <2>1, <2>6, <3>1, UnansweredStays DEF Interrupted
    <3>3. QED  BY <1>4, <2>4, <2>6, <3>2
  <2>7. QED  BY <1>3, <2>5, <2>6
<1>7. CASE Proposes
  <2>1. PICK tokens \in TokenReadings, cost \in CostReadings, a \in Actions :
          AgentProposes(a, tokens, cost)
    BY <1>7 DEF Proposes
  <2> DEFINE e == Proposed(a)
             d == Evaluate(a)
             c == ClassifyAction(a)
             f == Decided(d, c)
             mid == ReplayStep(acc, e, seed)
  <2>2. /\ pc = "awaiting" /\ pc' = "gated" /\ turn' = turn /\ world' = world
        /\ log' = log \o <<e, f>>
        /\ cur'.action = a /\ cur'.class = c /\ cur'.decision = d
    BY <2>1 DEF AgentProposes, IdleTurn
  <2>3. /\ e.type = "agent.action" /\ e.turn = turn /\ e.action = a
        /\ f.type = "policy.decision" /\ f.decision = d /\ f.class = c
    BY DEF Proposed, Decided
  <2>4. a # Absent
    BY AbsentAssumption
  <2> HIDE DEF e, f, d, c
  <2>5. log' = (log \o <<e>>) \o <<f>> /\ IsSeq(log \o <<e>>)
    <3>1. <<e>> \o <<f>> = <<e, f>> /\ IsSeq(<<e>>) /\ IsSeq(<<f>>)
      BY PairJoins, Single
    <3>2. (log \o <<e>>) \o <<f>> = log \o (<<e>> \o <<f>>)
      BY <3>1, Associates
    <3>3. IsSeq(log \o <<e>>)
      BY <3>1, Joined
    <3>4. QED  BY <2>2, <3>1, <3>2, <3>3
  <2>6. mid = ReplayOf(log \o <<e>>, seed)
    BY <1>1, ReplayOne
  <2>7. next = ReplayStep(mid, f, seed)
    BY <1>1, <2>5, <2>6, ReplayOne
  <2>8. acc.world = world /\ acc.final = Absent
    BY <1>2, <2>2 DEF Beginning, TurnStates, InStep
  <2>9. /\ Matching(mid) /\ mid.world = world /\ mid.final = Absent
        /\ mid.pending = a /\ mid.turn = turn
    BY <1>1, <2>3, <2>8, ReplayProposes
  <2> HIDE DEF mid
  <2>10. /\ Matching(next) /\ next.final = Absent
         /\ d = "allow" => next = mid
         /\ d # "allow" => next.world = RecordAttemptFlags(world, c)
    BY <2>3, <2>4, <2>7, <2>9, ReplayDecides
  <2>11. InStep(next)'
    BY <2>2, <2>9, <2>10 DEF InStep
  <2>12. QED  BY <1>4, <2>10, <2>11
<1>8. CASE Applies
  <2>1. PICK first, r : /\ Still(first) /\ r = Apply(world, cur.action, turn, seed) /\ ~r.raised
                        /\ log' = (log \o first) \o <<Transition(r)>>
    BY <1>8 DEF Applies
  <2> DEFINE e == Transition(r)
  <2>2. pc = "gated" /\ cur.decision = "allow" /\ world' = r.world
    BY <1>8, <2>1 DEF Applies, ApplyAction
  <2>3. pc' = "rendering"
    BY <1>8, <2>1 DEF Applies, ApplyAction
  <2>4. e.type = "state.transition" /\ e.hash = StateHash(r.world)
    BY DEF Transition
  <2>5. /\ acc.world = world /\ acc.pending = cur.action /\ acc.turn = turn /\ acc.final = Absent
    BY <1>2, <2>2 DEF Beginning, TurnStates, InStep
  <2>6. cur.action # Absent
    BY <2>2, AbsentAssumption DEF TypeOK
  <2> HIDE DEF e
  <2>7. acc = ReplayOf(log \o first, seed) /\ IsSeq(log \o first)
    BY <1>1, <2>1, ReplayStill, Joined DEF Still
  <2>8. next = ReplayStep(acc, e, seed)
    BY <1>1, <2>1, <2>7, ReplayOne DEF e
  <2>9. Matching(next) /\ next.world = r.world /\ next.final = Absent
    BY <1>1, <2>1, <2>4, <2>5, <2>6, <2>8, ReplayApplies
  <2>10. InStep(next)'
    BY <2>2, <2>3, <2>9 DEF InStep
  <2>11. QED  BY <1>4, <2>9, <2>10
<1>9. CASE GrowsStill /\ ~StartRun /\ ~Freeze /\ ~Proposes /\ ~Applies
  <2>1. PICK events : Still(events) /\ log' = log \o events
    BY <1>9 DEF GrowsStill
  <2>2. next = acc
    BY <1>1, <2>1, ReplayStill
  <2>3. IsSeq(events) /\ \A e \in Range(events) : e.type # "state.transition"
    BY <2>1 DEF Still, Inert, Replayed
  <2>4. CASE InStep(acc)
    <3>1. CASE /\ world' = world /\ pc # "gated" /\ pc' # "gated"
               /\ pc' \in Beginning => pc \in Beginning
               /\ pc # "aborted"
      BY <1>1, <1>4, <2>2, <2>4, <3>1 DEF InStep
    <3>2. CASE pc' = pc /\ UNCHANGED <<world, cur, turn, status>>
      BY <1>1, <1>4, <2>2, <2>4, <3>2 DEF InStep
    <3>3. CASE pc' = "aborted"
      BY <1>1, <1>4, <2>2, <2>4, <3>3 DEF InStep, Beginning, TurnStates
    <3>4. CASE /\ pc = "gated" /\ cur.decision # "allow" /\ pc' \in {"loop", "final"}
               /\ world' = RecordAttemptFlags(world, cur.class)
      BY <1>1, <1>4, <2>2, <2>4, <3>4 DEF InStep, Beginning, TurnStates
    <3>5. CASE Raises
      <4>1. ~SuitesAreTyped
        BY <3>5, TypedActionsDoNotRaise DEF Raises
      <4>2. Unanswered
        BY <3>5, GatedIsUnanswered DEF Raises
      <4>3. Interrupted'
        BY <2>1, <2>3, <3>5, <4>2, UnansweredStays DEF Raises, Interrupted
      <4>4. QED  BY <1>1, <1>4, <2>2, <4>1, <4>3
    <3>6. QED  BY <1>9, <3>1, <3>2, <3>3, <3>4, <3>5, StillMoves
  <2>5. CASE ~InStep(acc)
    <3>1. Interrupted /\ ~SuitesAreTyped /\ pc \notin Beginning
      BY <1>2, <1>3, <2>5
    <3>2. status' = status
      BY <1>9, <3>1, StillMoves DEF Beginning, TurnStates, Raises
    <3>3. Interrupted'
      BY <2>1, <2>3, <3>1, <3>2, UnansweredStays DEF Interrupted
    <3>4. QED  BY <1>1, <1>4, <2>2, <3>1, <3>3
  <2>6. QED  BY <2>4, <2>5
<1>10. QED  BY <1>5, <1>6, <1>7, <1>8, <1>9, StepsAreStill

\* Replay is in step with every run, wherever it stands.
LEMMA ReplayInvariant == Spec => []ReplayInv
<1>1. Init => ReplayInv
  <2>1. SUFFICES ASSUME Init
                 PROVE  ReplayInv
    OBVIOUS
  <2>2. log = <<>> /\ pc = "new" /\ world = BuildInitialState
    BY <2>1 DEF Init
  <2>3. Now = ReplayStart
    BY <2>2, ReplayEmpty DEF Now
  <2>4. QED  BY <2>2, <2>3 DEF ReplayInv, InStep, Matching, ReplayStart
<1>2. LogInvs /\ TurnInv /\ ReplayInv /\ [Next]_vars => ReplayInv'
  <2>1. SUFFICES ASSUME LogInvs, TurnInv, ReplayInv, [Next]_vars
                 PROVE  ReplayInv'
    OBVIOUS
  <2>2. TypeOK /\ RowInv /\ IsSeq(log)
    BY <2>1 DEF LogInvs, LogInv
  <2>3. CASE Next
    BY <2>1, <2>2, <2>3, NextReplay
  <2>4. CASE UNCHANGED vars
    BY <2>1, <2>4 DEF vars, ReplayInv, InStep, Now, Interrupted, Unanswered, EventsOf, EventsAt
  <2>5. QED  BY <2>1, <2>3, <2>4
<1>3. QED  BY <1>1, <1>2, TurnInvariant, PTL DEF Spec

\* Replay reproduces every state hash of every run and its final one; only a run
\* whose handler raised may differ, and shows it by an allowed action that has no
\* transition (replay_run).
THEOREM ReplayAlwaysAgrees == Spec => [](ReplayAgrees \/ (Interrupted /\ ~SuitesAreTyped))
<1>1. ReplayInv => ReplayAgrees \/ (Interrupted /\ ~SuitesAreTyped)
  BY ReplayReports DEF ReplayInv, Matching, InStep, ReplayAgrees, Now
<1>2. QED  BY <1>1, ReplayInvariant, PTL

\* When no condition that decides about a suite is of an unknown kind, which
\* loading a scenario does not find out, no handler raises and replay agrees.
THEOREM ReplayOfTypedSuitesAgrees ==
  ASSUME SuitesAreTyped
  PROVE  Spec => []ReplayAgrees
<1>1. (ReplayAgrees \/ (Interrupted /\ ~SuitesAreTyped)) => ReplayAgrees
  OBVIOUS
<1>2. QED  BY <1>1, ReplayAlwaysAgrees, PTL

===============================================================================
