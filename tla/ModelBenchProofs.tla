--------------------------- MODULE ModelBenchProofs ---------------------------
(***************************************************************************)
(* Theorems about ModelBench, for any number of turns, of calls in an      *)
(* answer, of ids and keys, of calls of the gateway and any time to live:  *)
(* the conversation is well formed and truthful, no key is used that has   *)
(* not got past verify_key, and a cached catalog is young.                 *)
(***************************************************************************)
EXTENDS ModelBenchProperties, SequenceTheorems, TLAPS

-------------------------------------------------------------------------------
(***************************************************************************)
(* The inductive invariants.                                               *)
(***************************************************************************)
Observations == [turn : Nat, truthful : {TRUE}]
Answers == [role : {"assistant"}, calls : Seq(Ids), turn : Nat \ {0}]
Replies == [role : {"tool"}, id : Ids, obs : Observations]
Messages == Answers \cup Replies

Types ==
  /\ turn \in Nat \ {0}
  /\ messages \in Seq(Messages)
  /\ pending \in Ids \cup {NoId}
  /\ unexecuted \in Seq(Ids)
  /\ observation \in Observations

AllReplied == \A i \in 1..Len(messages) : messages[i].role = "assistant" => Replied(i)

\* The last answer still waits for the replies to its calls; all others have
\* theirs, and the observation to come, or there, is of the answer's turn.
OneOpen ==
  LET n == Len(messages)
  IN  /\ n > 0
      /\ messages[n] \in Answers
      /\ Len(messages[n].calls) = Len(unexecuted) + 1
      /\ messages[n].calls[1] = pending
      /\ \A k \in 1..Len(unexecuted) : messages[n].calls[k + 1] = unexecuted[k]
      /\ \A i \in 1..(n - 1) : messages[i].role = "assistant" => Replied(i)
      /\ phase \in {"action", "renderer"} => messages[n].turn = turn
      /\ phase = "adapter" => messages[n].turn = observation.turn

TalkInv ==
  /\ Types
  /\ pending = NoId => unexecuted = <<>> /\ AllReplied
  /\ pending # NoId => OneOpen
  /\ phase = "endpoint" => pending = NoId

\* The key in force, if any, got past verify_key or was there from the start, and
\* has not been removed since.
KeyInv == env \in vetted \cup {NoKey}

CallSteps ==
  {"idle", "ended", "verifying", "marking", "clearing", "fetching", "sent"}
CallType == [step : CallSteps, key : Keys \cup {NoKey}, since : Int, models : Int]

\* What is cached was sent no earlier than it was asked for, and counts from then.
CatalogInv ==
  /\ clock \in Nat
  /\ cache \in [since : Int, models : Int]
  /\ cache.since <= cache.models
  /\ call \in [Calls -> CallType]
  /\ \A c \in Calls :
       /\ call[c].step = "fetching" => call[c].since <= clock
       /\ call[c].step = "sent" => call[c].since <= call[c].models

-------------------------------------------------------------------------------
(***************************************************************************)
(* The conversation.                                                       *)
(***************************************************************************)
LEMMA TalkInit == BenchInit => TalkInv
  BY DEF BenchInit, Init, TalkInv, Types, Observations, NoObservation, AllReplied

\* A turn that is not the adapter's leaves the conversation as it is.
LEMMA Undisturbed ==
  ASSUME TalkInv, UNCHANGED conversation,
         phase' = "endpoint" => phase = "endpoint",
         turn' \in Nat \ {0}, observation' \in Observations,
         phase' \in {"action", "renderer"} => phase \in {"action", "renderer"} /\ turn' = turn,
         phase' = "adapter" => \/ phase \in {"action", "renderer"} /\ observation'.turn = turn
                               \/ phase = "adapter" /\ observation'.turn = observation.turn
  PROVE  TalkInv'
<1>1. UNCHANGED <<messages, pending, unexecuted>>
  BY DEF conversation
<1>2. Types' /\ (phase' = "endpoint" => pending' = NoId)
  BY <1>1 DEF TalkInv, Types
<1>3. pending = NoId => unexecuted' = <<>> /\ AllReplied'
  BY <1>1 DEF TalkInv, AllReplied, Replied
<1>4. pending # NoId => OneOpen'
  BY <1>1 DEF TalkInv, OneOpen, Replied
<1>5. QED  BY <1>1, <1>2, <1>3, <1>4 DEF TalkInv

\* Observe ends a turn: the next one, or none, begins.
LEMMA ObserveKeeps ==
  ASSUME TalkInv, phase \in {"action", "renderer"}, Observe(TRUE)
  PROVE  TalkInv'
<1>1. observation' = [turn |-> turn, truthful |-> TRUE]
  BY DEF Observe, Observation
<1>2. observation' \in Observations /\ observation'.turn = turn
  BY <1>1 DEF Observations, TalkInv, Types
<1>3. UNCHANGED conversation /\ turn' \in Nat \ {0} /\ phase' \in {"over", "adapter"}
  BY DEF Observe, TalkInv, Types
<1>4. QED  BY <1>2, <1>3, Undisturbed

\* The replies of a turn, in the order of the calls.
LEMMA RepliesAdded ==
  ASSUME Types, pending \in Ids,
         messages' = messages \o <<ToolMessage(pending, observation)>>
                     \o [i \in DOMAIN unexecuted |-> ToolMessage(unexecuted[i], NoObservation)]
  PROVE  LET n == Len(messages)
             m == Len(unexecuted)
         IN  /\ messages' \in Seq(Messages)
             /\ Len(messages') = n + 1 + m
             /\ \A i \in 1..n : messages'[i] = messages[i]
             /\ messages'[n + 1] = ToolMessage(pending, observation)
             /\ \A k \in 1..m : messages'[n + 1 + k] = ToolMessage(unexecuted[k], NoObservation)
<1> DEFINE n == Len(messages)
           m == Len(unexecuted)
           first == ToolMessage(pending, observation)
           rest == [i \in 1..m |-> ToolMessage(unexecuted[i], NoObservation)]
           s == Append(messages, first)
<1>1. n \in Nat /\ m \in Nat /\ DOMAIN unexecuted = 1..m
  BY DEF Types
<1>2. first \in Messages
  BY DEF Types, ToolMessage, Messages, Replies
<1>3. rest \in Seq(Messages) /\ Len(rest) = m
  <2>1. NoObservation \in Observations
    BY DEF NoObservation, Observations
  <2>2. \A i \in 1..m : ToolMessage(unexecuted[i], NoObservation) \in Messages
    BY <1>1, <2>1 DEF Types, ToolMessage, Messages, Replies
  <2>3. QED  BY <1>1, <2>2
<1>4. \A k \in 1..m : rest[k] = ToolMessage(unexecuted[k], NoObservation)
  OBVIOUS
<1>5. messages' = messages \o <<first>> \o rest
  BY <1>1
<1> HIDE DEF first, rest
<1>6. /\ s \in Seq(Messages) /\ Len(s) = n + 1
      /\ \A i \in 1..n : s[i] = messages[i]
      /\ s[n + 1] = first
      /\ s = messages \o <<first>>
  BY <1>2, AppendProperties, AppendIsConcat DEF Types
<1> HIDE DEF s
<1>7. /\ messages' \in Seq(Messages)
      /\ Len(messages') = Len(s) + Len(rest)
      /\ \A i \in 1..(Len(s) + Len(rest)) :
           messages'[i] = IF i <= Len(s) THEN s[i] ELSE rest[i - Len(s)]
  <2>1. messages' = s \o rest
    BY <1>5, <1>6
  <2>2. s \in Seq(Messages) /\ rest \in Seq(Messages)
    BY <1>3, <1>6
  <2>3. /\ s \o rest \in Seq(Messages)
        /\ Len(s \o rest) = Len(s) + Len(rest)
        /\ \A i \in 1..(Len(s) + Len(rest)) :
             (s \o rest)[i] = IF i <= Len(s) THEN s[i] ELSE rest[i - Len(s)]
    BY <2>2, ConcatProperties
  <2>4. QED  BY <2>1, <2>3
<1> HIDE DEF n, m
<1>8. /\ Len(messages') = n + 1 + m
      /\ \A i \in 1..(n + 1 + m) : messages'[i] = IF i <= n + 1 THEN s[i] ELSE rest[i - (n + 1)]
  BY <1>3, <1>6, <1>7
<1>9. \A i \in 1..n : messages'[i] = messages[i]
  BY <1>1, <1>6, <1>8
<1>10. messages'[n + 1] = first
  <2>1. n + 1 \in 1..(n + 1 + m) /\ n + 1 <= n + 1
    BY <1>1
  <2>2. messages'[n + 1] = s[n + 1]
    BY <1>8, <2>1
  <2>3. QED  BY <1>6, <2>2
<1>11. ASSUME NEW k \in 1..m
       PROVE  messages'[n + 1 + k] = rest[k]
  <2>1. n + 1 + k \in 1..(n + 1 + m) /\ ~(n + 1 + k <= n + 1) /\ (n + 1 + k) - (n + 1) = k
    BY <1>1
  <2>2. QED  BY <1>8, <2>1
<1>12. QED  BY <1>4, <1>7, <1>8, <1>9, <1>10, <1>11 DEF n, m, first

\* With its replies the answer that was open is as it should be, and so are
\* those before it.
LEMMA AnswersReplied ==
  ASSUME TalkInv, phase = "adapter", AnswerCalls
  PROVE  /\ messages' \in Seq(Messages)
         /\ pending' = NoId
         /\ unexecuted' = <<>>
         /\ AllReplied'
<1>1. CASE pending = NoId
  <2>1. UNCHANGED conversation
    BY <1>1 DEF AnswerCalls
  <2>2. QED  BY <1>1, <2>1 DEF conversation, TalkInv, Types, AllReplied, Replied
<1>2. CASE pending # NoId
  <2>1. OneOpen /\ Types /\ pending \in Ids
    BY <1>2 DEF TalkInv, Types
  <2>2. PICK n \in Nat \ {0}, m \in Nat : n = Len(messages) /\ m = Len(unexecuted)
    BY <2>1 DEF OneOpen, Types
  <2>3. /\ messages[n] \in Answers
        /\ Len(messages[n].calls) = m + 1
        /\ messages[n].calls[1] = pending
        /\ \A k \in 1..m : messages[n].calls[k + 1] = unexecuted[k]
        /\ messages[n].turn = observation.turn
    BY <2>1, <2>2 DEF OneOpen
  <2>4. observation # NoObservation
    BY <2>3 DEF Answers, NoObservation
  <2>5. /\ messages' = messages \o <<ToolMessage(pending, observation)>>
                       \o [i \in DOMAIN unexecuted |-> ToolMessage(unexecuted[i], NoObservation)]
        /\ pending' = NoId /\ unexecuted' = <<>>
    BY <1>2, <2>4 DEF AnswerCalls
  <2>6. /\ messages' \in Seq(Messages)
        /\ Len(messages') = n + 1 + m
        /\ \A i \in 1..n : messages'[i] = messages[i]
        /\ messages'[n + 1] = ToolMessage(pending, observation)
        /\ \A k \in 1..m : messages'[n + 1 + k] = ToolMessage(unexecuted[k], NoObservation)
    BY <2>1, <2>2, <2>5, RepliesAdded
  <2>7. \A i \in 1..n : messages[i] \in Messages
    BY <2>1, <2>2 DEF Types
  \* The answer that was open.
  <2>8. Replied(n)'
    <3>1. messages'[n] = messages[n] /\ n \in 1..n
      BY <2>2, <2>6
    <3>2. n + (m + 1) <= Len(messages') /\ ~(n + (m + 1) < Len(messages'))
      BY <2>2, <2>6
    <3>3. ASSUME NEW k \in 1..(m + 1)
          PROVE  /\ messages'[n + k].role = "tool"
                 /\ messages'[n + k].id = messages[n].calls[k]
                 /\ messages'[n + k].obs.turn = IF k = 1 THEN messages[n].turn ELSE 0
      <4>1. CASE k = 1
        BY <2>3, <2>6, <4>1 DEF ToolMessage
      <4>2. CASE k # 1
        <5>1. k - 1 \in 1..m /\ (k - 1) + 1 = k /\ n + 1 + (k - 1) = n + k
          BY <2>2, <4>2
        <5>2. messages'[n + k] = ToolMessage(unexecuted[k - 1], NoObservation)
          BY <2>6, <5>1
        <5>3. messages[n].calls[k] = unexecuted[k - 1]
          BY <2>3, <5>1
        <5>4. QED  BY <4>2, <5>2, <5>3 DEF ToolMessage, NoObservation
      <4>3. QED  BY <4>1, <4>2
    <3>4. QED  BY <2>3, <3>1, <3>2, <3>3 DEF Replied
  \* The answers before it: their replies end before the open one.
  <2>9. ASSUME NEW i \in 1..(n - 1), messages[i].role = "assistant"
        PROVE  Replied(i)'
    <3> DEFINE c == Len(messages[i].calls)
    <3>1. Replied(i)
      BY <2>1, <2>2, <2>9 DEF OneOpen
    <3>2. c \in Nat
      BY <2>2, <2>7, <2>9 DEF Messages, Answers, Replies
    <3>3. /\ i + c <= n
          /\ \A k \in 1..c :
               /\ messages[i + k].role = "tool"
               /\ messages[i + k].id = messages[i].calls[k]
               /\ messages[i + k].obs.turn = IF k = 1 THEN messages[i].turn ELSE 0
          /\ i + c < n => messages[i + c + 1].role = "assistant"
      BY <2>2, <3>1 DEF Replied
    <3> HIDE DEF c
    <3>4. i + c < n
      <4>1. CASE c = 0
        BY <2>2, <4>1
      <4>2. CASE c # 0
        <5>1. messages[i + c].role = "tool"
          BY <3>2, <3>3, <4>2
        <5>2. i + c # n
          BY <2>3, <5>1 DEF Answers
        <5>3. QED  BY <2>2, <3>2, <3>3, <5>2
      <4>3. QED  BY <4>1, <4>2
    <3>5. i + c + 1 \in 1..n /\ i \in 1..n /\ \A k \in 1..c : i + k \in 1..n
      BY <2>2, <3>2, <3>4
    <3>6. /\ messages'[i] = messages[i]
          /\ messages'[i + c + 1] = messages[i + c + 1]
          /\ \A k \in 1..c : messages'[i + k] = messages[i + k]
      BY <2>6, <3>5
    <3>7. i + c <= Len(messages')
      BY <2>2, <2>6, <3>2, <3>4
    <3>8. Len(messages'[i].calls) = c
      BY <3>6 DEF c
    <3>9. \A k \in 1..c : /\ messages'[i + k].role = "tool"
                          /\ messages'[i + k].id = messages'[i].calls[k]
                          /\ messages'[i + k].obs.turn = IF k = 1 THEN messages'[i].turn ELSE 0
      BY <3>3, <3>6
    <3>10. messages'[i + c + 1].role = "assistant"
      BY <3>3, <3>4, <3>6
    <3>11. QED  BY <3>7, <3>8, <3>9, <3>10 DEF Replied
  <2>10. ASSUME NEW i \in 1..Len(messages'), messages'[i].role = "assistant"
         PROVE  Replied(i)'
    <3>1. CASE i \in 1..(n - 1)
      <4>1. i \in 1..n
        BY <2>2, <3>1
      <4>2. messages[i].role = "assistant"
        BY <2>6, <2>10, <4>1
      <4>3. QED  BY <2>9, <3>1, <4>2
    <3>2. CASE i = n
      BY <2>8, <3>2
    <3>3. i # n + 1
      BY <2>6, <2>10 DEF ToolMessage
    <3>4. CASE i > n + 1
      <4>1. i - (n + 1) \in 1..m /\ n + 1 + (i - (n + 1)) = i
        BY <2>2, <2>6, <3>4
      <4>2. PICK k \in 1..m : n + 1 + k = i
        BY <4>1
      <4>3. messages'[n + 1 + k] = ToolMessage(unexecuted[k], NoObservation)
        BY <2>6
      <4>4. messages'[n + 1 + k].role = "tool"
        BY <4>3 DEF ToolMessage
      <4>5. messages'[i].role = "tool"
        BY <4>2, <4>4
      <4>6. QED  BY <2>10, <4>5
    <3>5. i \in 1..(n + 1 + m)
      BY <2>6
    <3>6. QED  BY <2>2, <3>1, <3>2, <3>3, <3>4, <3>5
  <2>11. QED  BY <2>5, <2>6, <2>10 DEF AllReplied
<1>3. QED  BY <1>1, <1>2

\* An answer of the endpoint opens its calls, if it has any.
LEMMA AnswerOpens ==
  ASSUME TalkInv, phase = "endpoint", phase' = "action", turn' = turn, observation' = observation,
         NEW calls \in Seq(Ids), Answer(calls),
         \/ calls = <<>> /\ pending' = pending /\ unexecuted' = unexecuted
         \/ calls # <<>> /\ pending' = Head(calls) /\ unexecuted' = Tail(calls)
  PROVE  TalkInv'
<1> DEFINE a == [role |-> "assistant", calls |-> calls, turn |-> turn]
<1>1. Types /\ AllReplied /\ pending = NoId /\ unexecuted = <<>>
  BY DEF TalkInv
<1>2. a \in Answers /\ a \in Messages
  BY <1>1 DEF Types, Answers, Messages
<1>3. messages' = Append(messages, a)
  BY DEF Answer
<1>4. PICK n \in Nat : n = Len(messages)
  BY <1>1 DEF Types
<1>5. a.role = "assistant" /\ a.calls = calls /\ a.turn = turn
  OBVIOUS
<1> HIDE DEF a
<1>6. /\ messages' \in Seq(Messages)
      /\ Len(messages') = n + 1
      /\ \A i \in 1..n : messages'[i] = messages[i]
      /\ messages'[n + 1] = a
  BY <1>1, <1>2, <1>3, <1>4, AppendProperties DEF Types
<1>7. \A i \in 1..n : messages[i] \in Messages
  BY <1>1, <1>4 DEF Types
<1>8. ASSUME NEW i \in 1..n, messages'[i].role = "assistant"
      PROVE  Replied(i)'
  <2> DEFINE c == Len(messages[i].calls)
  <2>1. messages'[i] = messages[i]
    BY <1>6
  <2>2. Replied(i)
    BY <1>1, <1>4, <1>8, <2>1 DEF AllReplied
  <2>3. c \in Nat
    BY <1>7, <1>8, <2>1 DEF Messages, Answers, Replies
  <2>4. /\ i + c <= n
        /\ \A k \in 1..c :
             /\ messages[i + k].role = "tool"
             /\ messages[i + k].id = messages[i].calls[k]
             /\ messages[i + k].obs.turn = IF k = 1 THEN messages[i].turn ELSE 0
        /\ i + c < n => messages[i + c + 1].role = "assistant"
    BY <1>4, <2>2 DEF Replied
  <2> HIDE DEF c
  <2>5. \A k \in 1..c : i + k \in 1..n /\ messages'[i + k] = messages[i + k]
    BY <1>4, <1>6, <2>3, <2>4
  <2>6. i + c <= Len(messages')
    BY <1>4, <1>6, <2>3, <2>4
  <2>7. messages'[i + c + 1].role = "assistant"
    <3>1. CASE i + c < n
      <4>1. i + c + 1 \in 1..n
        BY <1>4, <2>3, <3>1
      <4>2. QED  BY <1>6, <2>4, <3>1, <4>1
    <3>2. CASE i + c = n
      BY <1>5, <1>6, <3>2
    <3>3. QED  BY <1>4, <2>3, <2>4, <3>1, <3>2
  <2>8. ASSUME NEW k \in 1..c
        PROVE  /\ messages'[i + k].role = "tool"
               /\ messages'[i + k].id = messages'[i].calls[k]
               /\ messages'[i + k].obs.turn = IF k = 1 THEN messages'[i].turn ELSE 0
    <3>1. messages'[i + k] = messages[i + k]
      BY <2>5
    <3>2. QED  BY <2>1, <2>4, <3>1
  <2>9. c = Len(messages'[i].calls)
    BY <2>1 DEF c
  <2>10. QED  BY <2>6, <2>7, <2>8, <2>9 DEF Replied
<1>9. CASE calls = <<>>
  <2>1. pending' = NoId /\ unexecuted' = <<>>
    BY <1>1, <1>9
  <2>2. Replied(n + 1)'
    <3>1. Len(messages'[n + 1].calls) = 0
      BY <1>5, <1>6, <1>9
    <3>2. QED  BY <1>4, <1>6, <3>1 DEF Replied
  <2>3. AllReplied'
    BY <1>4, <1>6, <1>8, <2>2 DEF AllReplied
  <2>4. Types'
    BY <1>1, <1>6, <2>1 DEF Types
  <2>5. QED  BY <2>1, <2>3, <2>4 DEF TalkInv
<1>10. CASE calls # <<>>
  <2>1. /\ pending' = calls[1] /\ calls[1] \in Ids
        /\ unexecuted' \in Seq(Ids) /\ Len(unexecuted') = Len(calls) - 1
        /\ \A k \in 1..Len(unexecuted') : unexecuted'[k] = calls[k + 1]
        /\ Len(calls) \in Nat \ {0}
    BY <1>10
  <2>2. pending' # NoId
    BY <2>1, ToolLoopAssumption
  <2>3. Types'
    BY <1>1, <1>6, <2>1 DEF Types
  <2>4. OneOpen'
    <3>1. Len(messages') = n + 1 /\ n + 1 > 0 /\ (n + 1) - 1 = n
      BY <1>4, <1>6
    <3>2. Len(calls) = Len(unexecuted') + 1
      BY <2>1
    <3>3. QED  BY <1>2, <1>5, <1>6, <1>8, <2>1, <3>1, <3>2 DEF OneOpen
  <2>5. QED  BY <2>2, <2>3, <2>4 DEF TalkInv
<1>11. QED  BY <1>9, <1>10

\* Every step keeps the conversation well formed.
LEMMA TalkStep ==
  ASSUME TalkInv, BenchNext
  PROVE  TalkInv'
<1>1. ASSUME phase = "adapter", AnswerCalls, phase' \in {"endpoint", "over"},
             UNCHANGED <<turn, observation>>
      PROVE  TalkInv'
  <2>1. /\ messages' \in Seq(Messages) /\ pending' = NoId /\ unexecuted' = <<>>
        /\ AllReplied'
    BY <1>1, AnswersReplied
  <2>2. Types'
    BY <1>1, <2>1 DEF TalkInv, Types
  <2>3. QED  BY <2>1, <2>2 DEF TalkInv
<1>2. CASE Resolve
  BY <1>1, <1>2 DEF Resolve, Request, RequestFails, NextAction, KeyMissing
<1>3. CASE Converse
  <2>1. CASE FallBackToAuto
    BY <2>1, Undisturbed DEF FallBackToAuto, TalkInv, Types
  <2>2. CASE ProposeCalls
    <3>0. PICK n \in 1..MaxCalls : \E calls \in [1..n -> Ids] :
            Answer(calls) /\ pending' = Head(calls) /\ unexecuted' = Tail(calls)
      BY <2>2 DEF ProposeCalls
    <3>1. PICK calls \in [1..n -> Ids] :
            Answer(calls) /\ pending' = Head(calls) /\ unexecuted' = Tail(calls)
      BY <3>0
    <3>2. n \in Nat /\ n > 0
      BY <3>1, ToolLoopAssumption
    <3>3. calls \in Seq(Ids) /\ calls # <<>>
      BY <3>2
    <3>4. phase = "endpoint" /\ phase' = "action" /\ turn' = turn /\ observation' = observation
      BY <2>2 DEF ProposeCalls, Accepts
    <3>5. QED  BY <3>1, <3>3, <3>4, AnswerOpens
  <2>3. CASE ProposeText
    <3>1. <<>> \in Seq(Ids)
      OBVIOUS
    <3>2. QED  BY <2>3, <3>1, AnswerOpens DEF ProposeText, Accepts
  <2>4. QED  BY <1>3, <2>1, <2>2, <2>3 DEF Converse, Respond
<1>4. CASE Act
  <2>1. CASE Refuse
    BY <2>1, ObserveKeeps DEF Refuse
  <2>2. CASE Apply
    BY <2>2, Undisturbed DEF Apply, TalkInv, Types
  <2>3. QED  BY <1>4, <2>1, <2>2 DEF Act, Run
<1>5. CASE Word
  <2>1. CASE AskModel
    <3>1. PICK truthful \in BOOLEAN :
            IF truthful
            THEN Observe(truthful)
            ELSE UNCHANGED <<phase, turn, conversation, choice, settings, observation>>
      BY <2>1 DEF AskModel
    <3>2. phase = "renderer"
      BY <2>1 DEF AskModel
    <3>3. CASE truthful = TRUE
      BY <3>1, <3>2, <3>3, ObserveKeeps
    <3>4. CASE truthful = FALSE
      BY <3>1, <3>2, <3>4, Undisturbed DEF TalkInv, Types
    <3>5. QED  BY <3>3, <3>4
  <2>2. CASE FallBack
    BY <2>2, ObserveKeeps DEF FallBack
  <2>3. CASE RendererFails
    BY <2>3, Undisturbed DEF RendererFails, TalkInv, Types
  <2>4. QED  BY <1>5, <2>1, <2>2, <2>3 DEF Word, Render
<1>6. CASE EndpointFails
  BY <1>6, Undisturbed DEF EndpointFails, TalkInv, Types
<1>7. CASE UNCHANGED vars
  BY <1>7, Undisturbed DEF vars, TalkInv, Types
<1>8. QED  BY <1>2, <1>3, <1>4, <1>5, <1>6, <1>7 DEF BenchNext

-------------------------------------------------------------------------------
(***************************************************************************)
(* The gateway.                                                            *)
(***************************************************************************)
LEMMA KeyStep ==
  ASSUME KeyInv, BenchNext
  PROVE  KeyInv'
<1>1. CASE UNCHANGED gateway
  BY <1>1 DEF KeyInv, gateway, keys
<1>2. CASE GatewayStep
  <2>1. CASE \E c \in Calls : KeyInstalled(c)
    BY <2>1 DEF KeyInv, KeyInstalled
  <2>2. CASE \E c \in Calls : ClearKey(c)
    BY <2>2 DEF KeyInv, ClearKey
  <2>3. CASE ~\E c \in Calls : KeyInstalled(c) \/ ClearKey(c)
    <3>1. UNCHANGED <<env, vetted>>
      BY <1>2, <2>3 DEF GatewayStep, SetKey, KeyRejected, SetKeyEnds, ClearKeyEnds,
           ListCached, ListFetch, ListSent, ListArrives, ListFails, Tick, keys
    <3>2. QED  BY <3>1 DEF KeyInv
  <2>4. QED  BY <2>1, <2>2, <2>3
<1>3. QED  BY <1>1, <1>2 DEF BenchNext, Resolve, Converse, Act, Word

\* The step of one call of the gateway leaves the others, and the call typed.
LEMMA Moved ==
  ASSUME CatalogInv, NEW c \in Calls, NEW from, NEW to, Move(c, from, to),
         to \in CallType
  PROVE  /\ call' \in [Calls -> CallType]
         /\ call'[c] = to
         /\ call[c].step = from
         /\ \A d \in Calls \ {c} : call'[d] = call[d]
  BY DEF CatalogInv, Move

\* A call's record stays typed when its step and one more field are revised.
LEMMA KeyRevised ==
  ASSUME NEW r \in CallType, NEW s \in CallSteps, NEW k \in Keys
  PROVE  [r EXCEPT !.step = s, !.key = k] \in CallType
  BY DEF CallType

\* The same of the time of the call.
LEMMA SinceRevised ==
  ASSUME NEW r \in CallType, NEW s \in CallSteps, NEW n \in Int
  PROVE  [r EXCEPT !.step = s, !.since = n] \in CallType
  BY DEF CallType

\* The same of the list it is sent.
LEMMA ModelsRevised ==
  ASSUME NEW r \in CallType, NEW s \in CallSteps, NEW n \in Int
  PROVE  [r EXCEPT !.step = s, !.models = n] \in CallType
  BY DEF CallType

\* Every step keeps the catalog no younger than it says.
LEMMA CatalogStep ==
  ASSUME CatalogInv, BenchNext
  PROVE  CatalogInv'
<1>1. Idle \in CallType /\ Ended \in CallType /\ Ended.step = "ended"
  BY DEF Idle, Ended, CallType, CallSteps
<1>2. ASSUME UNCHANGED <<cache, call, clock>>
      PROVE  CatalogInv'
  BY <1>2 DEF CatalogInv
\* A call that moves to a step that is not about the catalog.
<1>3. ASSUME NEW c \in Calls, NEW from, NEW to \in CallType, Move(c, from, to),
             to.step \notin {"fetching", "sent"}, UNCHANGED <<cache, clock>>
      PROVE  CatalogInv'
  BY <1>3, Moved DEF CatalogInv
<1>4. ASSUME NEW c \in Calls, SetKey(c) \/ ClearKey(c)
      PROVE  CatalogInv'
  <2>1. CASE SetKey(c)
    <3>1. PICK key \in Keys : Begin(c, [Idle EXCEPT !.step = "verifying", !.key = key])
      BY <2>1 DEF SetKey
    <3> DEFINE to == [Idle EXCEPT !.step = "verifying", !.key = key]
    <3>2. to \in CallType /\ to.step = "verifying"
      <4>1. "verifying" \in CallSteps
        BY DEF CallSteps
      <4>2. to \in CallType
        BY <1>1, <4>1, KeyRevised, Zenon
      <4>3. to.step = "verifying"
        BY DEF Idle
      <4>4. QED  BY <4>2, <4>3
    <3>3. Move(c, "idle", to) /\ UNCHANGED <<cache, clock>>
      BY <2>1, <3>1 DEF SetKey, Begin
    <3>4. QED  BY <1>3, <3>2, <3>3
  <2>2. CASE ClearKey(c)
    <3> DEFINE to == [Idle EXCEPT !.step = "clearing"]
    <3>1. to \in CallType /\ to.step = "clearing"
      BY DEF Idle, CallType, CallSteps
    <3>2. Move(c, "idle", to) /\ UNCHANGED <<cache, clock>>
      BY <2>2 DEF ClearKey, Begin
    <3>3. QED  BY <1>3, <3>1, <3>2
  <2>3. QED  BY <1>4, <2>1, <2>2
<1>5. ASSUME NEW c \in Calls, KeyInstalled(c)
      PROVE  CatalogInv'
  <2> DEFINE to == [call[c] EXCEPT !.step = "marking"]
  <2>1. to \in CallType /\ to.step = "marking"
    BY DEF CatalogInv, CallType, CallSteps
  <2>2. Move(c, "verifying", to) /\ UNCHANGED <<cache, clock>>
    BY <1>5 DEF KeyInstalled
  <2>3. QED  BY <1>3, <2>1, <2>2
<1>6. ASSUME NEW c \in Calls, KeyRejected(c) \/ SetKeyEnds(c) \/ ClearKeyEnds(c)
      PROVE  CatalogInv'
  <2>2. \E from : Move(c, from, Ended)
    BY <1>6 DEF KeyRejected, SetKeyEnds, ClearKeyEnds
  <2>3. UNCHANGED <<cache, clock>>
    BY <1>6 DEF KeyRejected, SetKeyEnds, ClearKeyEnds
  <2>4. QED  BY <1>1, <1>3, <2>2, <2>3
<1>7. ASSUME NEW c \in Calls, ListCached(c)
      PROVE  CatalogInv'
  <2>1. Move(c, "idle", Ended) /\ UNCHANGED <<cache, clock>>
    BY <1>7 DEF ListCached, Begin
  <2>2. QED  BY <1>1, <1>3, <2>1
<1>8. ASSUME NEW c \in Calls, ListFetch(c)
      PROVE  CatalogInv'
  <2> DEFINE to == [Idle EXCEPT !.step = "fetching", !.since = clock]
  <2>1. to \in CallType /\ to.step = "fetching" /\ to.since = clock
    <3>1. "fetching" \in CallSteps /\ clock \in Int
      BY DEF CallSteps, CatalogInv
    <3>2. to \in CallType
      BY <1>1, <3>1, SinceRevised, Zenon
    <3>3. to.step = "fetching" /\ to.since = clock
      BY DEF Idle
    <3>4. QED  BY <3>2, <3>3
  <2>2. Move(c, "idle", to) /\ UNCHANGED <<cache, clock>>
    BY <1>8 DEF ListFetch, Begin
  <2> HIDE DEF to
  <2>3. QED  BY <2>1, <2>2, Moved DEF CatalogInv
<1>9. ASSUME NEW c \in Calls, ListSent(c)
      PROVE  CatalogInv'
  <2> DEFINE to == [call[c] EXCEPT !.step = "sent", !.models = clock]
  <2>1. to \in CallType /\ to.step = "sent" /\ to.since = call[c].since /\ to.models = clock
    <3>1. "sent" \in CallSteps /\ clock \in Int /\ call[c] \in CallType
      BY DEF CallSteps, CatalogInv
    <3>2. to \in CallType
      BY <3>1, ModelsRevised, Zenon
    <3>3. to.step = "sent" /\ to.since = call[c].since /\ to.models = clock
      BY <3>1 DEF CallType
    <3>4. QED  BY <3>2, <3>3
  <2>2. Move(c, "fetching", to) /\ UNCHANGED <<cache, clock>>
    BY <1>9 DEF ListSent
  <2> HIDE DEF to
  <2>3. to.since <= to.models
    BY <2>1, <2>2 DEF Move, CatalogInv, CallType
  <2>4. QED  BY <2>1, <2>2, <2>3, Moved DEF CatalogInv
<1>10. ASSUME NEW c \in Calls, ListArrives(c)
       PROVE  CatalogInv'
  <2>1. /\ Move(c, "sent", Ended) /\ Ended.step = "ended"
        /\ cache' = [since |-> call[c].since, models |-> call[c].models]
        /\ UNCHANGED clock
    BY <1>1, <1>10 DEF ListArrives
  <2>2. call[c].since <= call[c].models /\ call[c] \in CallType
    BY <2>1 DEF Move, CatalogInv
  <2>3. cache' \in [since : Int, models : Int] /\ cache'.since <= cache'.models
    BY <2>1, <2>2 DEF CallType
  <2>4. QED  BY <1>1, <2>1, <2>3, Moved DEF CatalogInv
<1>11. ASSUME NEW c \in Calls, ListFails(c)
       PROVE  CatalogInv'
  <2>1. Move(c, "fetching", Ended) /\ UNCHANGED <<cache, clock>>
    BY <1>11 DEF ListFails
  <2>2. QED  BY <1>1, <1>3, <2>1
<1>12. CASE Tick
  BY <1>12 DEF Tick, CatalogInv, CallType
<1>13. CASE GatewayStep
  BY <1>4, <1>5, <1>6, <1>7, <1>8, <1>9, <1>10, <1>11, <1>12, <1>13 DEF GatewayStep
<1>14. CASE UNCHANGED gateway
  BY <1>2, <1>14 DEF gateway
<1>15. QED  BY <1>13, <1>14 DEF BenchNext, Resolve, Converse, Act, Word

-------------------------------------------------------------------------------
(***************************************************************************)
(* What holds of every run, gateway and page.                              *)
(***************************************************************************)
LEMMA GatewayStarts == BenchInit => KeyInv /\ CatalogInv
<1>1. SUFFICES ASSUME BenchInit
               PROVE  KeyInv /\ CatalogInv
  OBVIOUS
<1>2. KeyInv
  BY <1>1 DEF BenchInit, Init, GatewayInit, KeyInv
<1>3. CatalogInv
  BY <1>1 DEF BenchInit, GatewayInit, CatalogInv, NoCache, Idle, CallType, CallSteps
<1>4. QED  BY <1>2, <1>3

BenchInv == TalkInv /\ KeyInv /\ CatalogInv

\* The conversation, the keys and the catalog keep their invariants, always.
THEOREM BenchInvariant == BenchSpec => []BenchInv
<1>1. BenchInit => BenchInv
  BY TalkInit, GatewayStarts DEF BenchInv
<1>2. BenchInv /\ [BenchNext]_benchVars => BenchInv'
  <2>1. SUFFICES ASSUME BenchInv, [BenchNext]_benchVars
                 PROVE  BenchInv'
    OBVIOUS
  <2>2. CASE BenchNext
    BY <2>1, <2>2, TalkStep, KeyStep, CatalogStep DEF BenchInv
  <2>3. CASE UNCHANGED benchVars
    <3>1. TalkInv'
      BY <2>1, <2>3, Undisturbed DEF BenchInv, benchVars, vars, TalkInv, Types
    <3>2. KeyInv' /\ CatalogInv'
      BY <2>1, <2>3 DEF BenchInv, benchVars, vars, gateway, keys, KeyInv, CatalogInv
    <3>3. QED  BY <3>1, <3>2 DEF BenchInv
  <2>4. QED  BY <2>1, <2>2, <2>3
<1>3. QED  BY <1>1, <1>2, PTL DEF BenchSpec

\* Every request carries exactly one reply to each call of each answer, in
\* order, the first of them the observation of the answer's turn.
THEOREM CallsAreReplied == BenchSpec => []EveryCallIsReplied
<1>1. BenchInv => EveryCallIsReplied
  BY DEF BenchInv, TalkInv, Types, AllReplied, EveryCallIsReplied
<1>2. QED  BY <1>1, BenchInvariant, PTL

\* The agent never reads a wording that contradicts a protected fact.
THEOREM AgentsReadTheTruth == BenchSpec => []NoContradictionIsRead
<1>1. BenchInv => NoContradictionIsRead
  <2>1. SUFFICES ASSUME BenchInv, NEW i \in DOMAIN messages, messages[i].role = "tool"
                 PROVE  messages[i].obs.truthful
    BY DEF NoContradictionIsRead
  <2>2. messages[i] \in Messages
    BY <2>1 DEF BenchInv, TalkInv, Types
  <2>3. QED  BY <2>1, <2>2 DEF Messages, Answers, Replies, Observations
<1>2. QED  BY <1>1, BenchInvariant, PTL

\* A request is put together with a key that got past verify_key, or was there
\* at the start, and that no removal has followed.
THEOREM RequestsUseVettedKeys == BenchSpec => UsedKeysWereVetted
<1>1. BenchInv /\ [BenchNext]_benchVars =>
        [phase = "adapter" /\ phase' = "endpoint" => header' \in vetted]_benchVars
  <2>1. SUFFICES ASSUME BenchInv, BenchNext, phase = "adapter", phase' = "endpoint"
                 PROVE  header' \in vetted
    OBVIOUS
  <2>2. Request
    BY <2>1 DEF BenchNext, Resolve, RequestFails, KeyMissing, Converse, Respond, FallBackToAuto,
         ProposeCalls, ProposeText, Accepts, Act, Run, Refuse, Apply, Word, Render, AskModel,
         FallBack, RendererFails, EndpointFails, vars
  <2>3. QED  BY <2>1, <2>2 DEF Request, BenchInv, KeyInv
<1>2. QED  BY <1>1, BenchInvariant, PTL DEF BenchSpec, UsedKeysWereVetted

\* Only the cache gives a list at once.
LEMMA OnlyTheCache ==
  ASSUME CatalogInv, BenchNext, NEW c \in Calls, GivenAtOnce(c)
  PROVE  ListCached(c)
<1>1. call[c].step = "idle" /\ call'[c].step = "ended" /\ call' # call
  BY DEF GivenAtOnce
<1>2. GatewayStep
  BY <1>1 DEF BenchNext, Resolve, Converse, Act, Word, gateway
<1>3. PICK d \in Calls :
        \/ SetKey(d) \/ KeyInstalled(d) \/ KeyRejected(d) \/ SetKeyEnds(d)
        \/ ClearKey(d) \/ ClearKeyEnds(d)
        \/ ListCached(d) \/ ListFetch(d) \/ ListSent(d) \/ ListArrives(d) \/ ListFails(d)
  BY <1>1, <1>2 DEF GatewayStep, Tick
<1>4. PICK from, to : Move(d, from, to)
  BY <1>3 DEF SetKey, KeyInstalled, KeyRejected, SetKeyEnds, ClearKey, ClearKeyEnds, ListCached,
       ListFetch, ListSent, ListArrives, ListFails, Begin
<1>5. d = c
  BY <1>1, <1>4 DEF Move, CatalogInv
<1>6. ASSUME NEW f, NEW r, Move(c, f, r)
      PROVE  f = "idle" /\ r.step = "ended"
  BY <1>1, <1>6 DEF Move, CatalogInv
\* The other calls begin otherwise, or do not begin here.
<1>7. ~SetKey(c)
  <2>1. SUFFICES ASSUME NEW key \in Keys,
                        Move(c, "idle", [Idle EXCEPT !.step = "verifying", !.key = key])
                 PROVE  FALSE
    BY DEF SetKey, Begin
  <2> DEFINE r == [Idle EXCEPT !.step = "verifying", !.key = key]
  <2>2. r.step = "verifying"
    BY DEF Idle
  <2>3. r.step = "ended"
    <3> HIDE DEF r
    <3>1. Move(c, "idle", r)
      BY <2>1 DEF r
    <3>2. QED  BY <1>6, <3>1
  <2>4. QED  BY <2>2, <2>3
<1>8. ~ClearKey(c) /\ ~ListFetch(c)
  <2> DEFINE r == [Idle EXCEPT !.step = "clearing"]
             q == [Idle EXCEPT !.step = "fetching", !.since = clock]
  <2>1. r.step = "clearing" /\ q.step = "fetching"
    BY DEF Idle
  <2>2. ClearKey(c) => Move(c, "idle", r)
    BY DEF ClearKey, Begin
  <2>3. ListFetch(c) => Move(c, "idle", q)
    BY DEF ListFetch, Begin
  <2> HIDE DEF r, q
  <2>4. QED  BY <1>6, <2>1, <2>2, <2>3
<1>9. /\ ~KeyInstalled(c) /\ ~KeyRejected(c) /\ ~SetKeyEnds(c) /\ ~ClearKeyEnds(c)
      /\ ~ListSent(c) /\ ~ListArrives(c) /\ ~ListFails(c)
  BY <1>6 DEF KeyInstalled, KeyRejected, SetKeyEnds, ClearKeyEnds, ListSent, ListArrives, ListFails
<1>10. QED  BY <1>3, <1>5, <1>7, <1>8, <1>9

\* What the cache gives at once is younger than the time to live.
THEOREM CacheIsYoung == BenchSpec => CachedListsAreYoung
<1>1. BenchInv /\ [BenchNext]_benchVars =>
        [\A c \in Calls : GivenAtOnce(c) => clock - cache.models < Ttl]_benchVars
  <2>1. SUFFICES ASSUME BenchInv, BenchNext, NEW c \in Calls, GivenAtOnce(c)
                 PROVE  clock - cache.models < Ttl
    OBVIOUS
  <2>2. CatalogInv /\ ListCached(c)
    BY <2>1, OnlyTheCache DEF BenchInv
  <2>3. QED  BY <2>2, GatewayAssumption DEF ListCached, CatalogInv
<1>2. QED  BY <1>1, BenchInvariant, PTL DEF BenchSpec, CachedListsAreYoung

-------------------------------------------------------------------------------
(***************************************************************************)
(* The types, which bound the calls of an answer and the attempts of the   *)
(* renderer as well.                                                       *)
(***************************************************************************)
Obs == [turn : 0..MaxTurns, truthful : BOOLEAN]
CallLists == UNION {[1..n -> Ids] : n \in 0..MaxCalls}
Said == [role : {"assistant"}, calls : CallLists, turn : 1..MaxTurns]
Told == [role : {"tool"}, id : Ids, obs : Obs]

\* The adapter's replies are typed.
LEMMA RepliesTyped ==
  ASSUME ToolLoopTypeOK, Types, AnswerCalls
  PROVE  /\ \A i \in DOMAIN messages' : messages'[i] \in Said \cup Told
         /\ pending' \in Ids \cup {NoId}
         /\ \A i \in DOMAIN unexecuted' : unexecuted'[i] \in Ids
<1>1. /\ \A i \in DOMAIN messages : messages[i] \in Said \cup Told
      /\ pending \in Ids \cup {NoId} /\ observation \in Obs
      /\ \A i \in DOMAIN unexecuted : unexecuted[i] \in Ids
  BY DEF ToolLoopTypeOK, Said, Told, CallLists, Obs
<1>2. CASE UNCHANGED conversation
  BY <1>1, <1>2 DEF conversation
<1>3. CASE ~UNCHANGED conversation
  <2>1. /\ messages' = messages \o <<ToolMessage(pending, observation)>>
                       \o [i \in DOMAIN unexecuted |-> ToolMessage(unexecuted[i], NoObservation)]
        /\ pending # NoId /\ pending' = NoId /\ unexecuted' = <<>>
    BY <1>3 DEF AnswerCalls
  <2> DEFINE n == Len(messages)
             m == Len(unexecuted)
  <2>2. /\ messages' \in Seq(Messages) /\ Len(messages') = n + 1 + m
        /\ \A i \in 1..n : messages'[i] = messages[i]
        /\ messages'[n + 1] = ToolMessage(pending, observation)
        /\ \A k \in 1..m : messages'[n + 1 + k] = ToolMessage(unexecuted[k], NoObservation)
    BY <1>1, <2>1, RepliesAdded
  <2>3. /\ n \in Nat /\ m \in Nat /\ DOMAIN messages = 1..n /\ DOMAIN unexecuted = 1..m
        /\ DOMAIN messages' = 1..(n + 1 + m)
    BY <2>2 DEF Types
  <2>4. ToolMessage(pending, observation) \in Told
    BY <1>1, <2>1 DEF ToolMessage, Told
  <2>5. \A k \in 1..m : ToolMessage(unexecuted[k], NoObservation) \in Told
    <3>1. NoObservation \in Obs
      BY ToolLoopAssumption DEF NoObservation, Obs
    <3>2. QED  BY <1>1, <2>3, <3>1 DEF ToolMessage, Told
  <2> HIDE DEF n, m
  <2>6. ASSUME NEW i \in 1..(n + 1 + m)
        PROVE  messages'[i] \in Said \cup Told
    <3>1. CASE i \in 1..n
      BY <1>1, <2>2, <2>3, <3>1
    <3>2. CASE i = n + 1
      BY <2>2, <2>4, <3>2
    <3>3. CASE i \notin 1..(n + 1)
      <4>1. i - (n + 1) \in 1..m /\ i = n + 1 + (i - (n + 1))
        BY <2>3, <2>6, <3>3
      <4>2. PICK k \in 1..m : i = n + 1 + k
        BY <4>1
      <4>3. QED  BY <2>2, <2>5, <4>2
    <3>4. QED  BY <2>3, <3>1, <3>2, <3>3
  <2>7. QED  BY <2>1, <2>3, <2>6
<1>4. QED  BY <1>2, <1>3

\* An answer of the endpoint is typed.
LEMMA AnswerTyped ==
  ASSUME ToolLoopTypeOK, Types, NEW calls \in CallLists, Answer(calls)
  PROVE  \A i \in DOMAIN messages' : messages'[i] \in Said \cup Told
<1>1. \A i \in DOMAIN messages : messages[i] \in Said \cup Told
  BY DEF ToolLoopTypeOK, Said, Told, CallLists, Obs
<1>2. [role |-> "assistant", calls |-> calls, turn |-> turn] \in Said
  BY DEF ToolLoopTypeOK, Said
<1>3. messages' = Append(messages, [role |-> "assistant", calls |-> calls, turn |-> turn])
  BY DEF Answer
<1> HIDE DEF Said, Told
<1>4. \A i \in DOMAIN messages' : i \in DOMAIN messages \/ i = Len(messages) + 1
  BY <1>3 DEF Types
<1>5. messages'[Len(messages) + 1] = [role |-> "assistant", calls |-> calls, turn |-> turn]
  BY <1>3 DEF Types
<1>6. \A i \in DOMAIN messages : messages'[i] = messages[i]
  BY <1>3 DEF Types
<1>7. QED  BY <1>1, <1>2, <1>4, <1>5, <1>6

\* Every step keeps the types.
LEMMA ToolLoopTyped ==
  ASSUME ToolLoopTypeOK, Types, BenchNext
  PROVE  ToolLoopTypeOK'
<1> DEFINE Typed == /\ \A i \in DOMAIN messages : messages[i] \in Said \cup Told
                    /\ pending \in Ids \cup {NoId}
                    /\ \A i \in DOMAIN unexecuted : unexecuted[i] \in Ids
           Rest == /\ phase \in {"adapter", "endpoint", "action", "renderer", "over"}
                   /\ turn \in 1..MaxTurns
                   /\ choice \in {"required", "auto"}
                   /\ strict \in BOOLEAN /\ fallback \in BOOLEAN
                   /\ observation \in Obs /\ attempt \in 0..2
<1>1. ToolLoopTypeOK <=> Typed /\ Rest
  BY DEF ToolLoopTypeOK, Said, Told, CallLists, Obs
<1>2. ToolLoopTypeOK' <=> Typed' /\ Rest'
  BY DEF ToolLoopTypeOK, Said, Told, CallLists, Obs
<1>3. UNCHANGED conversation => Typed'
  BY <1>1 DEF conversation
<1>4. CASE Resolve
  <2>1. AnswerCalls /\ phase' \in {"endpoint", "over"}
        /\ UNCHANGED <<turn, choice, settings, observation, attempt>>
    BY <1>4 DEF Resolve, Request, RequestFails, NextAction, KeyMissing
  <2>2. Typed'
    BY <2>1, RepliesTyped
  <2>3. Rest'
    BY <1>1, <2>1 DEF settings
  <2>4. QED  BY <1>2, <2>2, <2>3
<1>5. CASE Converse
  <2>1. CASE FallBackToAuto
    BY <1>1, <1>2, <1>3, <2>1 DEF FallBackToAuto, settings
  <2>2. CASE ProposeCalls
    <3>1. PICK n \in 1..MaxCalls : \E calls \in [1..n -> Ids] :
            Answer(calls) /\ pending' = Head(calls) /\ unexecuted' = Tail(calls)
      BY <2>2 DEF ProposeCalls
    <3>2. PICK calls \in [1..n -> Ids] :
            Answer(calls) /\ pending' = Head(calls) /\ unexecuted' = Tail(calls)
      BY <3>1
    <3>3. n \in Nat \ {0} /\ n \in 0..MaxCalls
      BY ToolLoopAssumption
    <3>4. calls \in Seq(Ids) /\ calls # <<>>
      BY <3>3
    <3>5. pending' \in Ids /\ unexecuted' \in Seq(Ids)
      BY <3>2, <3>4
    <3>6. calls \in CallLists
      BY <3>3 DEF CallLists
    <3>7. Typed'
      BY <3>2, <3>5, <3>6, AnswerTyped
    <3>8. Rest'
      BY <1>1, <2>2 DEF ProposeCalls, settings
    <3>9. QED  BY <1>2, <3>7, <3>8
  <2>3. CASE ProposeText
    <3>1. <<>> \in CallLists
      <4>1. <<>> \in [1..0 -> Ids]
        OBVIOUS
      <4>2. QED  BY <4>1, ToolLoopAssumption DEF CallLists
    <3>2. Typed'
      BY <1>1, <2>3, <3>1, AnswerTyped DEF ProposeText
    <3>3. Rest'
      BY <1>1, <2>3 DEF ProposeText, settings
    <3>4. QED  BY <1>2, <3>2, <3>3
  <2>4. QED  BY <1>5, <2>1, <2>2, <2>3 DEF Converse, Respond
<1>6. ASSUME NEW truthful \in BOOLEAN, Observe(truthful)
      PROVE  ToolLoopTypeOK'
  <2>1. Typed'
    BY <1>3, <1>6 DEF Observe
  <2>2. /\ observation' = [turn |-> turn, truthful |-> truthful] /\ attempt' = 0
        /\ UNCHANGED <<choice, strict, fallback>>
        /\ (phase' = "over" /\ turn' = turn)
             \/ (turn < MaxTurns /\ turn' = turn + 1 /\ phase' = "adapter")
    BY <1>6 DEF Observe, Observation, settings
  <2>3. observation' \in Obs /\ turn' \in 1..MaxTurns
    BY <1>1, <2>2, ToolLoopAssumption DEF Obs
  <2>4. QED  BY <1>1, <1>2, <2>1, <2>2, <2>3
<1>7. CASE Act
  <2>1. CASE Refuse
    BY <1>6, <2>1 DEF Refuse
  <2>2. CASE Apply
    BY <1>1, <1>2, <1>3, <2>2 DEF Apply, settings
  <2>3. QED  BY <1>7, <2>1, <2>2 DEF Act, Run
<1>8. CASE Word
  <2>1. CASE AskModel
    <3>1. PICK truthful \in BOOLEAN :
            \/ Observe(truthful)
            \/ /\ attempt' = attempt + 1
               /\ UNCHANGED <<phase, turn, conversation, choice, settings, observation>>
      BY <2>1 DEF AskModel
    <3>2. CASE Observe(truthful)
      BY <1>6, <3>2
    <3>3. CASE /\ attempt' = attempt + 1
               /\ UNCHANGED <<phase, turn, conversation, choice, settings, observation>>
      <4>1. attempt' \in 0..2
        BY <1>1, <2>1, <3>3 DEF AskModel
      <4>2. QED  BY <1>1, <1>2, <1>3, <3>3, <4>1 DEF settings
    <3>4. QED  BY <3>1, <3>2, <3>3
  <2>2. CASE FallBack
    BY <1>6, <2>2 DEF FallBack
  <2>3. CASE RendererFails
    BY <1>1, <1>2, <1>3, <2>3 DEF RendererFails, settings
  <2>4. QED  BY <1>8, <2>1, <2>2, <2>3 DEF Word, Render
<1>9. CASE EndpointFails
  BY <1>1, <1>2, <1>3, <1>9 DEF EndpointFails, settings
<1>10. CASE UNCHANGED vars
  BY <1>1, <1>2, <1>3, <1>10 DEF vars, settings
<1>11. QED  BY <1>4, <1>5, <1>7, <1>8, <1>9, <1>10 DEF BenchNext

\* The types of a model run hold for any number of turns, calls and ids.
THEOREM ToolLoopTypes == BenchSpec => []ToolLoopTypeOK
<1>1. BenchInit => ToolLoopTypeOK
  BY ToolLoopAssumption DEF BenchInit, Init, NoObservation, ToolLoopTypeOK
<1>2. BenchInv /\ ToolLoopTypeOK /\ [BenchNext]_benchVars => ToolLoopTypeOK'
  <2>1. SUFFICES ASSUME BenchInv, ToolLoopTypeOK, [BenchNext]_benchVars
                 PROVE  ToolLoopTypeOK'
    OBVIOUS
  <2>2. CASE BenchNext
    BY <2>1, <2>2, ToolLoopTyped DEF BenchInv, TalkInv
  <2>3. CASE UNCHANGED benchVars
    BY <2>1, <2>3 DEF benchVars, vars, conversation, settings, ToolLoopTypeOK
  <2>4. QED  BY <2>1, <2>2, <2>3
<1>3. QED  BY <1>1, <1>2, BenchInvariant, PTL DEF BenchSpec

===============================================================================
