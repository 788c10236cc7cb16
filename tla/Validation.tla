------------------------------ MODULE Validation ------------------------------
(***************************************************************************)
(* What validate_package (scenario/package.py) accepts.  A manifest is     *)
(* what it looks at: the allowed actions, the suites, the predicates and   *)
(* every condition that occurs, closed under nesting; `clean` says that    *)
(* fixture and trajectories are there, patterns compile and nothing looks  *)
(* like a credential.                                                      *)
(***************************************************************************)
EXTENDS Integers, Sequences, SequencesExt

CONSTANT ActionTypes

Conditions(predicates) ==
  {p.condition : p \in {q \in ToSet(predicates) : q.kind = "condition"}}

\* Mutant: what stands under a "not" is not looked at.
ReferencesShallow(m) ==
  LET names[c \in m.conditions] ==
        CASE c.kind \in {"all_of", "any_of"} -> UNION {names[d] : d \in ToSet(c.of)}
          [] c.kind = "test_suite_status" -> {c.suite}
          [] OTHER -> {}
  IN  names

\* condition_references: the suites a condition names at any depth.  A kind it
\* does not know names nothing.
References(m) ==
  LET names[c \in m.conditions] ==
        CASE c.kind \in {"all_of", "any_of"} -> UNION {names[d] : d \in ToSet(c.of)}
          [] c.kind = "not" -> names[c.of]
          [] c.kind = "test_suite_status" -> {c.suite}
          [] OTHER -> {}
  IN  names

SuccessShape(m, p) ==
  CASE p.kind = "test_suite" -> p.suite \in m.suites /\ p.status \in {"pass", "fail"}
    [] p.kind = "file_scope" -> "limit" \in DOMAIN p
    [] OTHER -> p.kind = "condition"

\* No errors; warnings do not keep a package out.
Accepts(m) ==
  /\ m.clean
  /\ m.allowed \subseteq ActionTypes
  /\ \A c \in m.passWhen \cup Conditions(m.success) \cup Conditions(m.failure) :
       References(m)[c] \subseteq m.suites
  /\ m.success # <<>>
  /\ \A p \in ToSet(m.success) : SuccessShape(m, p)
  /\ \A p \in ToSet(m.failure) : p.kind \in {"attempted", "condition"}

===============================================================================
