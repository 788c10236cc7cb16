------------------------------- MODULE ModelBench -------------------------------
(***************************************************************************)
(* A run driven by a chat model in the API process, while users set and    *)
(* remove the key it is to send and look at the catalog: ToolLoop and      *)
(* Gateway share the process's environment.                                *)
(***************************************************************************)
EXTENDS ToolLoop, Gateway

VARIABLE header      \* the key in the headers of the request

benchVars == <<vars, gateway, header>>

BenchInit == Init /\ GatewayInit /\ header = NoKey

\* The secret reference is resolved when the request is put together; a request
\* that is sent again keeps its headers.
Request ==
  /\ env # NoKey
  /\ NextAction
  /\ header' = env

RequestFails ==
  /\ env = NoKey
  /\ KeyMissing
  /\ UNCHANGED header

Resolve == (Request \/ RequestFails) /\ UNCHANGED gateway
Converse == Respond /\ UNCHANGED <<gateway, header>>
Act == Run /\ UNCHANGED <<gateway, header>>
Word == Render /\ UNCHANGED <<gateway, header>>

BenchNext ==
  \/ Resolve \/ Converse \/ Act \/ Word
  \/ EndpointFails /\ UNCHANGED <<gateway, header>>
  \/ GatewayStep /\ UNCHANGED <<vars, header>>

\* Every party of the run acts; users and the provider's catalog need not.
BenchSpec ==
  /\ BenchInit /\ [][BenchNext]_benchVars
  /\ WF_benchVars(Resolve) /\ WF_benchVars(Converse) /\ WF_benchVars(Act) /\ WF_benchVars(Word)

===============================================================================
