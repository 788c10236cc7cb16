-------------------------------- MODULE Gateway --------------------------------
(***************************************************************************)
(* The OpenRouter gateway of the API process (application/openrouter.py):  *)
(* the key in the process's environment, which runs read for every         *)
(* request, and the cached catalog of models.  set_key and list_models are *)
(* coroutines that wait for the provider; clear_key runs on a thread.  A   *)
(* list of models is the time at which the provider sent it.               *)
(***************************************************************************)
EXTENDS Integers

CONSTANTS
  MaxRequests,       \* bound: calls of the gateway
  Keys,              \* keys of the expected pattern; others are refused at once
  Ttl,               \* cache_ttl_seconds
  MaxClock           \* bound: time

ASSUME GatewayAssumption == MaxRequests \in Nat /\ Ttl \in Nat \ {0} /\ MaxClock \in Nat

VARIABLES
  env,               \* os.environ["OPENROUTER_API_KEY"]
  session,           \* _session_set
  cache,             \* _models_cache
  call,              \* each call's step, key or start, and the answer it waits for
  clock,
  vetted             \* history: the keys that, since the last removal, got past
                     \* verify_key or, before any, were there at the start

keys == <<env, session, vetted>>
gateway == <<keys, cache, call, clock>>

Calls == 1..MaxRequests      \* in the order they are made

NoKey == "no key"
NoCache == [since |-> -1, models |-> -1]
Idle == [step |-> "idle", key |-> NoKey, since |-> 0, models |-> -1]
Ended == [Idle EXCEPT !.step = "ended"]

GatewayInit ==
  /\ env \in Keys \cup {NoKey}
  /\ session = FALSE
  /\ cache = NoCache
  /\ call = [c \in Calls |-> Idle]
  /\ clock = 0
  /\ vetted = {env} \ {NoKey}

Move(c, from, to) == call[c].step = from /\ call' = [call EXCEPT ![c] = to]

Begin(c, to) == Move(c, "idle", to) /\ \A d \in 1..(c - 1) : call[d].step # "idle"

-------------------------------------------------------------------------------
(***************************************************************************)
(* The key.                                                                *)
(***************************************************************************)
\* Mutant: the key is in force while it is being verified.
SetKeyFirst(c) ==
  /\ \E key \in Keys :
       Begin(c, [Idle EXCEPT !.step = "verifying", !.key = key]) /\ env' = key
  /\ UNCHANGED <<session, vetted, cache, clock>>

SetKey(c) ==
  /\ \E key \in Keys : Begin(c, [Idle EXCEPT !.step = "verifying", !.key = key])
  /\ UNCHANGED <<keys, cache, clock>>

\* The provider takes the key or cannot be reached: either way it is installed.
KeyInstalled(c) ==
  /\ Move(c, "verifying", [call[c] EXCEPT !.step = "marking"])
  /\ env' = call[c].key
  /\ vetted' = vetted \cup {call[c].key}
  /\ UNCHANGED <<session, cache, clock>>

\* A key that is refused is not installed; the one in force stays, be it the same.
KeyRejected(c) ==
  /\ Move(c, "verifying", Ended)
  /\ UNCHANGED <<keys, cache, clock>>

\* A thread may come between the two assignments.
SetKeyEnds(c) ==
  /\ Move(c, "marking", Ended)
  /\ session' = TRUE
  /\ UNCHANGED <<env, vetted, cache, clock>>

ClearKey(c) ==
  /\ Begin(c, [Idle EXCEPT !.step = "clearing"])
  /\ env' = NoKey
  /\ vetted' = {}
  /\ UNCHANGED <<session, cache, clock>>

ClearKeyEnds(c) ==
  /\ Move(c, "clearing", Ended)
  /\ session' = FALSE
  /\ UNCHANGED <<env, vetted, cache, clock>>

-------------------------------------------------------------------------------
(***************************************************************************)
(* The catalog.                                                            *)
(***************************************************************************)
\* A list that is young enough is served at once, unless a refresh is asked for.
ListCached(c) ==
  /\ cache # NoCache /\ clock - cache.since < Ttl
  /\ Begin(c, Ended)
  /\ UNCHANGED <<keys, cache, clock>>

\* Otherwise, or for a refresh, the provider is asked.
ListFetch(c) ==
  /\ Begin(c, [Idle EXCEPT !.step = "fetching", !.since = clock])
  /\ UNCHANGED <<keys, cache, clock>>

\* The provider sends its list.
ListSent(c) ==
  /\ Move(c, "fetching", [call[c] EXCEPT !.step = "sent", !.models = clock])
  /\ UNCHANGED <<keys, cache, clock>>

\* Mutant: the list counts from its arrival.
ListArrivesNow(c) ==
  /\ Move(c, "sent", Ended)
  /\ cache' = [since |-> clock, models |-> call[c].models]
  /\ UNCHANGED <<keys, clock>>

\* It arrives, and counts from the call; whichever arrives last is kept.
ListArrives(c) ==
  /\ Move(c, "sent", Ended)
  /\ cache' = [since |-> call[c].since, models |-> call[c].models]
  /\ UNCHANGED <<keys, clock>>

\* The fetch fails: what there is, if anything, is served and marked as stale.
ListFails(c) ==
  /\ Move(c, "fetching", Ended)
  /\ UNCHANGED <<keys, cache, clock>>

Tick ==
  /\ clock < MaxClock
  /\ clock' = clock + 1
  /\ UNCHANGED <<keys, cache, call>>

GatewayStep ==
  \/ \E c \in Calls :
       \/ SetKey(c) \/ KeyInstalled(c) \/ KeyRejected(c) \/ SetKeyEnds(c)
       \/ ClearKey(c) \/ ClearKeyEnds(c)
       \/ ListCached(c) \/ ListFetch(c) \/ ListSent(c) \/ ListArrives(c) \/ ListFails(c)
  \/ Tick

===============================================================================
