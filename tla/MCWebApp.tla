------------------------------- MODULE MCWebApp -------------------------------
(***************************************************************************)
(* A few pages: one of each kind that behaves differently.                 *)
(***************************************************************************)
EXTENDS WebProperties

CONSTANTS m1, m2, all, solved, run1

At(v, a) == [view |-> v, arg |-> a]
FewRoutes == {At("overview", all), At("models", all), At("runs", all),
              At("runs", solved), At("run", run1)}
TwoModels == {m1, m2}

===============================================================================
