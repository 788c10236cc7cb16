-------------------------- MODULE ModelBenchProperties --------------------------
(***************************************************************************)
(* What the keys and the catalog of the gateway promise to the runs and    *)
(* pages that use them, stated over ModelBench.                            *)
(***************************************************************************)
EXTENDS ModelBench, ToolLoopProperties

(***************************************************************************)
(* The key a request is put together with got past verify_key, which takes *)
(* a key the provider accepts or cannot be asked about, or was in the      *)
(* environment at the start, and no removal came after that: a key that is *)
(* still on trial, was only ever refused, or was removed and not set again *)
(* is never taken, however the calls of set_key and clear_key overlap each *)
(* other and the run.  A refusal takes no key back (set_key raises and     *)
(* leaves the environment alone): one that got through earlier stays in    *)
(* force, and so does one installed by a call that a removal overtook.     *)
(***************************************************************************)
UsedKeysWereVetted ==
  [][phase = "adapter" /\ phase' = "endpoint" => header' \in vetted]_benchVars

(***************************************************************************)
(* A catalog that a call of list_models is given at once, from the cache   *)
(* and not marked as stale, was sent by the provider less than the time to *)
(* live ago, whatever fetches overlapped before it, in whatever order they *)
(* arrived, and whichever of two lists overwrote the other.                *)
(***************************************************************************)
GivenAtOnce(c) == call[c].step = "idle" /\ call'[c].step = "ended"

CachedListsAreYoung ==
  [][\A c \in Calls : GivenAtOnce(c) => clock - cache.models < Ttl]_benchVars

===============================================================================
