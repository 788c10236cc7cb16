-------------------------- MODULE ToolLoopProperties --------------------------
(***************************************************************************)
(* What a run driven by a chat model relies on, stated over ToolLoop.      *)
(***************************************************************************)
EXTENDS ToolLoop

(***************************************************************************)
(* The type invariant.                                                     *)
(***************************************************************************)
ToolLoopTypeOK ==
  LET obs == [turn : 0..MaxTurns, truthful : BOOLEAN]
      answer == [role : {"assistant"}, calls : UNION {[1..n -> Ids] : n \in 0..MaxCalls},
                 turn : 1..MaxTurns]
      reply == [role : {"tool"}, id : Ids, obs : obs]
  IN  /\ phase \in {"adapter", "endpoint", "action", "renderer", "over"}
      /\ turn \in 1..MaxTurns
      /\ \A i \in DOMAIN messages : messages[i] \in answer \cup reply
      /\ pending \in Ids \cup {NoId} /\ \A i \in DOMAIN unexecuted : unexecuted[i] \in Ids
      /\ choice \in {"required", "auto"}
      /\ strict \in BOOLEAN /\ fallback \in BOOLEAN
      /\ observation \in obs /\ attempt \in 0..2

(***************************************************************************)
(* adapters/openai_compat.py:69: "Every tool_call in an assistant message  *)
(* must get a matching tool-role response before the next request".        *)
(* Whenever a request is with the endpoint, each answer in the             *)
(* conversation is followed by exactly one reply to each of its calls, in  *)
(* order, whatever ids the endpoint uses again and whatever became of the  *)
(* action: the first carries the observation of that very turn, and only   *)
(* the first carries one.                                                  *)
(***************************************************************************)
Replied(i) ==
  LET n == Len(messages[i].calls)
  IN  /\ i + n <= Len(messages)
      /\ \A k \in 1..n :
           /\ messages[i + k].role = "tool"
           /\ messages[i + k].id = messages[i].calls[k]
           /\ messages[i + k].obs.turn = IF k = 1 THEN messages[i].turn ELSE 0
      /\ i + n < Len(messages) => messages[i + n + 1].role = "assistant"

EveryCallIsReplied ==
  phase = "endpoint" =>
    \A i \in DOMAIN messages : messages[i].role = "assistant" => Replied(i)

(***************************************************************************)
(* FR-012: the agent never reads a wording that contradicts a protected    *)
(* fact, however often the model tries (HybridRenderer.render).            *)
(***************************************************************************)
NoContradictionIsRead ==
  \A i \in DOMAIN messages : messages[i].role = "tool" => messages[i].obs.truthful

(***************************************************************************)
(* The run gets past every request, the one an endpoint refuses to take    *)
(* with tool_choice "required" included, and past every rendering, and     *)
(* ends (_chat_completion and render leave their loops).                   *)
(***************************************************************************)
ModelRunsEnd == <>(phase = "over")

===============================================================================
