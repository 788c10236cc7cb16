------------------------------ MODULE MCModelBench ------------------------------
(***************************************************************************)
(* Two ids, so that answers of several turns use the same one, and two     *)
(* keys, so that one replaces the other.  A joint bound keeps the product  *)
(* of run and gateway small, and never stops a run:                        *)
(*   - the more calls of the gateway there are, the fewer turns the run    *)
(*     has: where the next turn may not begin, the run ends with this one; *)
(*   - time, which only the catalog looks at, passes where no key has been *)
(*     set or removed, calls of both kinds meet at time 0; beside a run    *)
(*     with a key there is one call, or one turn, less when it passes.     *)
(***************************************************************************)
EXTENDS ModelBenchProperties, FiniteSetsExt

CONSTANTS call1, call2, key1, key2

TwoIds == {call1, call2}
TwoKeys == {key1, key2}

Begun == Cardinality({c \in Calls : call[c].step # "idle"})
KeysAtRest ==
  /\ ~session /\ vetted = {env} \ {NoKey}
  /\ \A c \in Calls : call[c].step \notin {"verifying", "marking", "clearing"}

Within ==
  /\ turn + Begun <= 4
  /\ clock > 0 => KeysAtRest /\ (env # NoKey => turn + Begun <= 3)

===============================================================================
