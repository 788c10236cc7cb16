-------------------------------- MODULE ToolLoop --------------------------------
(***************************************************************************)
(* A turn of a run driven by a chat model: the tool-calling adapter        *)
(* (adapters/openai_compat.py) keeps the conversation, the orchestrator    *)
(* executes one action of it, and the hybrid renderer                      *)
(* (renderers/hybrid.py) words what the agent reads.  What an action does  *)
(* to the scenario is RunLoop's; here it succeeds, is refused or ends the  *)
(* run.                                                                    *)
(***************************************************************************)
EXTENDS Integers, SequencesExt

CONSTANTS
  Ids,               \* ids of tool calls, which an endpoint may use again
  MaxCalls,          \* bound: tool calls of one answer
  MaxTurns           \* turns the limits of the run allow

NoId == "none"

ASSUME ToolLoopAssumption ==
  /\ MaxCalls \in Nat \ {0} /\ MaxTurns \in Nat \ {0}
  /\ NoId \notin Ids

VARIABLES
  phase,             \* who acts: the adapter, its endpoint, the run, the renderer
  turn,
  messages,          \* the conversation, without its system and user messages
  pending,           \* _pending_tool_call_id
  unexecuted,        \* _unexecuted_tool_call_ids
  choice,            \* _tool_choice
  strict,            \* the endpoint does not support "required"
  fallback,          \* the renderer's deterministic_fallback
  observation,       \* what next_action is called with
  attempt            \* attempts of the model renderer in this turn

conversation == <<messages, pending, unexecuted>>
settings == <<strict, fallback>>
vars == <<phase, turn, conversation, choice, settings, observation, attempt>>

Observation(truthful) == [turn |-> turn, truthful |-> truthful]
NoObservation == [turn |-> 0, truthful |-> TRUE]

Init ==
  /\ phase = "adapter"
  /\ turn = 1
  /\ messages = <<>>
  /\ pending = NoId
  /\ unexecuted = <<>>
  /\ choice = "required"
  /\ strict \in BOOLEAN
  /\ fallback \in BOOLEAN
  /\ observation = NoObservation
  /\ attempt = 0

-------------------------------------------------------------------------------
(***************************************************************************)
(* The adapter and its endpoint.                                           *)
(***************************************************************************)
ToolMessage(id, obs) == [role |-> "tool", id |-> id, obs |-> obs]

\* Mutant: only the call that was executed is answered.
AnswerFirst ==
  IF observation # NoObservation /\ pending # NoId
  THEN /\ messages' = Append(messages, ToolMessage(pending, observation))
       /\ pending' = NoId
       /\ unexecuted' = <<>>
  ELSE UNCHANGED conversation

\* Every call of the last answer gets a response: the observation for the one
\* that was executed, a note that it was not for the others.
AnswerCalls ==
  IF observation # NoObservation /\ pending # NoId
  THEN /\ messages' = messages \o <<ToolMessage(pending, observation)>>
                      \o [i \in DOMAIN unexecuted |-> ToolMessage(unexecuted[i], NoObservation)]
       /\ pending' = NoId
       /\ unexecuted' = <<>>
  ELSE UNCHANGED conversation

NextAction ==
  /\ phase = "adapter"
  /\ AnswerCalls
  /\ phase' = "endpoint"
  /\ UNCHANGED <<turn, choice, settings, observation, attempt>>

\* The key the configuration refers to is not set: the run fails.
KeyMissing ==
  /\ phase = "adapter"
  /\ AnswerCalls
  /\ phase' = "over"
  /\ UNCHANGED <<turn, choice, settings, observation, attempt>>

\* Mutant: the request is sent again as it was.
RetryRequired ==
  /\ phase = "endpoint"
  /\ strict /\ choice = "required"
  /\ UNCHANGED vars

\* The endpoint refuses tool_choice "required": ask again with "auto", for good.
FallBackToAuto ==
  /\ phase = "endpoint"
  /\ strict /\ choice = "required"
  /\ choice' = "auto"
  /\ UNCHANGED <<phase, turn, conversation, settings, observation, attempt>>

Accepts == phase = "endpoint" /\ ~(strict /\ choice = "required")

Answer(calls) ==
  messages' = Append(messages, [role |-> "assistant", calls |-> calls, turn |-> turn])

\* Tool calls: the first is the action, the others wait for their note.
ProposeCalls ==
  /\ Accepts
  /\ \E n \in 1..MaxCalls : \E calls \in [1..n -> Ids] :
       /\ IsInjective(calls)
       /\ Answer(calls)
       /\ pending' = Head(calls)
       /\ unexecuted' = Tail(calls)
  /\ phase' = "action"
  /\ UNCHANGED <<turn, choice, settings, observation, attempt>>

\* A plain answer is taken for a submission.
ProposeText ==
  /\ Accepts
  /\ Answer(<<>>)
  /\ phase' = "action"
  /\ UNCHANGED <<turn, pending, unexecuted, choice, settings, observation, attempt>>

\* The endpoint fails or the call times out, and the run with it.
EndpointFails ==
  /\ phase = "endpoint"
  /\ phase' = "over"
  /\ UNCHANGED <<turn, conversation, choice, settings, observation, attempt>>

-------------------------------------------------------------------------------
(***************************************************************************)
(* The orchestrator and the renderer.                                      *)
(***************************************************************************)
\* The observation is made; the run goes on unless it has ended.
Observe(truthful) ==
  /\ observation' = Observation(truthful)
  /\ attempt' = 0
  /\ \/ phase' = "over" /\ UNCHANGED turn
     \/ turn < MaxTurns /\ turn' = turn + 1 /\ phase' = "adapter"
  /\ UNCHANGED <<conversation, choice, settings>>

\* A malformed call or a blocked action is answered without the renderer.
Refuse ==
  /\ phase = "action"
  /\ Observe(TRUE)

Apply ==
  /\ phase = "action"
  /\ phase' = "renderer"
  /\ UNCHANGED <<turn, conversation, choice, settings, observation, attempt>>

\* Mutant: the second wording is shown, for want of a better one.
ShowSecond ==
  /\ phase = "renderer"
  /\ attempt < 2
  /\ \E truthful \in BOOLEAN :
       IF truthful \/ attempt = 1
       THEN Observe(truthful)
       ELSE /\ attempt' = attempt + 1
            /\ UNCHANGED <<phase, turn, conversation, choice, settings, observation>>

\* Mutant: the model is asked for as long as it contradicts the facts.
AskForEver ==
  /\ phase = "renderer"
  /\ \E truthful \in BOOLEAN :
       IF truthful
       THEN Observe(truthful)
       ELSE /\ attempt' = attempt + 1
            /\ UNCHANGED <<phase, turn, conversation, choice, settings, observation>>

\* The model words the result.  A wording that contradicts a protected fact is
\* not shown: the model gets two attempts.
AskModel ==
  /\ phase = "renderer"
  /\ attempt < 2
  /\ \E truthful \in BOOLEAN :
       IF truthful
       THEN Observe(truthful)
       ELSE /\ attempt' = attempt + 1
            /\ UNCHANGED <<phase, turn, conversation, choice, settings, observation>>

\* Both attempts failed, or the provider did: the deterministic wording where
\* the scenario permits it.
FallBack ==
  /\ phase = "renderer"
  /\ fallback
  /\ Observe(TRUE)

\* Where it does not, the run ends.
RendererFails ==
  /\ phase = "renderer"
  /\ ~fallback
  /\ phase' = "over"
  /\ UNCHANGED <<turn, conversation, choice, settings, observation, attempt>>

Respond == FallBackToAuto \/ ProposeCalls \/ ProposeText
Run == Refuse \/ Apply
Render == AskModel \/ FallBack \/ RendererFails

===============================================================================
