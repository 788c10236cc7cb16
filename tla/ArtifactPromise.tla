---------------------------- MODULE ArtifactPromise ----------------------------
(***************************************************************************)
(* What the artifact store promises: contents are held whole or not at     *)
(* all, one more at a time, and none is ever lost or replaced.             *)
(***************************************************************************)
CONSTANT Contents

VARIABLE held

Init == held = {}

Keep(c) ==
  /\ c \in Contents \ held
  /\ held' = held \cup {c}

Spec == Init /\ [][\E c \in Contents : Keep(c)]_held

===============================================================================
