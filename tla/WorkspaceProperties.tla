-------------------------- MODULE WorkspaceProperties --------------------------
(***************************************************************************)
(* What holds of a workspace.                                              *)
(***************************************************************************)
EXTENDS Workspace

ProcessPhases == Live \cup {"none", "done", "lost"}

\* Types: every run's process, packages and log are of the expected kinds, and a
\* registered agent is never one with a value under its api_key or secret field
\* (the two that register_agent looks at).
WorkspaceTypeOK ==
  /\ target \in [Contents -> {"missing", "partial", "whole"}]
  /\ \A w \in Writers :
       put[w].step \in PutSteps /\ (put[w].step # "none" => put[w].content \in Contents)
  /\ disk \in Packages
  /\ \A row \in scenarios : row.digest \in Packages /\ row.version = row.digest.version
  /\ \A row, other \in scenarios : row.version = other.version => row = other
  /\ ToSet(agents) \subseteq Configs \ Secrets
  /\ phase \in [Runs -> ProcessPhases]
  /\ package \in [Runs -> Packages \cup {Nothing}]
  /\ executed \in [Runs -> Packages \cup {Nothing}]

\* Whatever a readable log names is in the artifact store, whole: a run that is
\* lost between the two, or another run that stores the same content at the same
\* time, leaves no event behind that points to nothing (runner.py:386-402, put).
ReferencedArtifactsAreWhole ==
  \A r \in Runs : \A i \in DOMAIN file[r] :
    file[r][i].parses => \A c \in file[r][i].event.body.artifacts : GetSucceeds(c)

\* The store only ever gains whole contents, one at a time, whoever is lost in
\* the middle of a put: it implements the promise of ArtifactPromise.
ImplementsArtifactPromise == Promise!Spec

Bodies(events) == [i \in DOMAIN events |-> events[i].body]

\* A log nobody damaged verifies if it can be read at all, and holds everything
\* that was appended, over the loss of its writer and a store opened anew.
UndamagedLogsVerify ==
  \A r \in Runs \ damaged : Readable(file[r]) =>
    Verified(file[r]) /\ Bodies(ReadAll(file[r])) = written[r]

\* A log that verifies, damaged or not, is a beginning of what was appended:
\* no event in it was changed, left out or moved (verify_chain).
VerifiedLogsAreTrue ==
  \A r \in Runs : Verified(file[r]) => IsPrefix(Bodies(ReadAll(file[r])), written[r])

IsStarted(r) == \E i \in DOMAIN file[r] : file[r][i].event.body.type = "run.started"

\* A replay that reports a match on the right digest has replayed what the run
\* executed: a package edited while the run waited for its turn is noticed, and
\* so is a log changed since.
ReplayTellsTheTruth ==
  \A r \in Runs :
    Replayable(r) /\ DigestMatches(r) /\ Matches(r) /\ IsStarted(r) =>
      executed[r].files = package[r].files

\* The suites whose status the evaluation of a condition looks up.
LooksUp(m) ==
  LET suites[c \in m.conditions] ==
        CASE c.kind \in {"all_of", "any_of"} -> UNION {suites[d] : d \in ToSet(c.of)}
          [] c.kind = "not" -> suites[c.of]
          [] c.kind = "test_suite_status" -> {c.suite}
          [] OTHER -> {}
  IN  suites

\* A run started by id is judged by suites that exist: no verdict of it rests on
\* a status that no test.run can set, whatever was edited since registration.
RegisteredRunsAreJudgeable ==
  \A r \in byId :
    LET m == package[r].manifest
    IN  \A p \in ToSet(m.success) :
          /\ p.kind = "test_suite" => p.suite \in m.suites
          /\ p.kind = "condition" => LooksUp(m)[p.condition] \subseteq m.suites

\* What an agent's name stands for moves on only to a revision that was not there
\* before: registering an old one again changes nothing for runs by name.
NamesMoveForward ==
  [][AgentNamed' # AgentNamed => AgentNamed' \notin ToSet(agents)]_vars

===============================================================================
