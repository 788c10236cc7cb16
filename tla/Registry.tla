------------------------------- MODULE Registry -------------------------------
(***************************************************************************)
(* What is registered in a workspace (persistence/db.py,                   *)
(* application/services.py): scenario packages, which their authors keep   *)
(* editing on disk, and immutable agent revisions under names.             *)
(***************************************************************************)
EXTENDS Validation

CONSTANTS
  Packages,          \* contents a package directory may have; one scenario id
  Configs,           \* agent configurations under one name
  Secrets,           \* those with a value under the field api_key or secret
  Rank(_),           \* place of a version in the order of strings
  Nothing

ASSUME RegistryAssumption == \A p \in Packages : Rank(p.version) \in Int

VARIABLES
  disk,              \* the package directory
  scenarios,         \* the scenarios table
  agents             \* the agents table, by created_at

registry == <<disk, scenarios, agents>>

RegistryInit ==
  /\ disk \in Packages
  /\ scenarios = {}
  /\ \E config \in Configs \ Secrets : agents = <<config>>

\* The author changes the package in place.
EditPackage ==
  /\ \E p \in Packages \ {disk} : disk' = p
  /\ UNCHANGED <<scenarios, agents>>

\* scenario add: what validate_package refuses is not registered, and a row of
\* the same version is replaced.
AddScenario ==
  /\ Accepts(disk.manifest)
  /\ scenarios' = {row \in scenarios : row.version # disk.version}
                    \cup {[version |-> disk.version, digest |-> disk]}
  /\ UNCHANGED <<disk, agents>>

\* get_scenario: ORDER BY version DESC LIMIT 1.
NewestRow ==
  CHOOSE row \in scenarios : \A other \in scenarios : Rank(other.version) <= Rank(row.version)

\* Mutant: what is on disk is taken for what was registered.
ResolveUnchecked == IF scenarios = {} THEN Nothing ELSE disk

\* resolve_package by id: a package that differs from its row is refused.
Resolve ==
  IF scenarios = {} THEN Nothing
  ELSE IF NewestRow.digest = disk THEN disk ELSE Nothing

\* Mutant: a revision that is known is stored again, as the newest.
SaveAgentAgain(config) == Append(SelectSeq(agents, LAMBDA c : c # config), config)

\* INSERT OR IGNORE: a revision keeps the time it was first registered.
SaveAgent(config) == IF Contains(agents, config) THEN agents ELSE Append(agents, config)

\* Mutant: the revision is saved before its secret is noticed.
AddAgentFirst ==
  /\ \E config \in Configs : agents' = SaveAgent(config)
  /\ UNCHANGED <<disk, scenarios>>

\* register_agent refuses a configuration with a value under either field; it
\* looks at no other.
AddAgent ==
  /\ \E config \in Configs \ Secrets : agents' = SaveAgent(config)
  /\ UNCHANGED <<disk, scenarios>>

\* get_agent by name: the newest revision.
AgentNamed == IF agents = <<>> THEN Nothing ELSE Last(agents)

===============================================================================
