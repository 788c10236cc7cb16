------------------------------- MODULE Workspace -------------------------------
(***************************************************************************)
(* A workspace that several processes share: runs are started from the     *)
(* registry, write artifacts and events, and are replayed later, while     *)
(* authors edit packages and processes are lost.  What happens between the *)
(* events of a run is RunLoop's; the digest of a package or of an artifact *)
(* is its content.                                                         *)
(***************************************************************************)
EXTENDS Registry, EventStore, ArtifactStore

CONSTANTS
  States,            \* snapshots of a state, and
  Patches,           \* diffs, that runs may come to
  Runs,              \* each is a writer of the artifact store
  MaxOps             \* bound: operations of users, reopenings and damages

ASSUME WorkspaceAssumption ==
  Runs = Writers /\ States \cup Patches = Contents /\ MaxOps \in Nat

VARIABLES
  phase,             \* how far each run's process is
  package,           \* the package the run was given: the digest in its manifest
  executed,          \* the package's directory when the initial state was built
  byId,              \* runs whose package came from the registry
  kept,              \* artifact of the final state, until the terminal event
  file,              \* events.jsonl
  memory,            \* what the run's store remembers: next seq and last hash
  written,           \* what was appended so far
  damaged,           \* logs that were changed from outside
  ops

logs == <<file, memory, written>>
progress == <<phase, package, executed, byId, kept>>
vars == <<registry, artifacts, logs, progress, damaged, ops>>

Init ==
  /\ RegistryInit
  /\ ArtifactInit
  /\ phase = [r \in Runs |-> "none"]
  /\ package = [r \in Runs |-> Nothing]
  /\ executed = [r \in Runs |-> Nothing]
  /\ byId = {}
  /\ kept = [r \in Runs |-> {}]
  /\ file = [r \in Runs |-> <<>>]
  /\ memory = [r \in Runs |-> OpenStore(<<>>)]
  /\ written = [r \in Runs |-> <<>>]
  /\ damaged = {}
  /\ ops = 0

Body(type) == [type |-> type, files |-> {}, artifacts |-> {}]
Started(files) == [Body("run.started") EXCEPT !.files = files]
Naming(type, contents) == [Body(type) EXCEPT !.artifacts = contents]
Event(then, body) == [then |-> then, body |-> body]

-------------------------------------------------------------------------------
(***************************************************************************)
(* A run writes its log.                                                   *)
(***************************************************************************)
EmitWith(r, store, body) ==
  LET event == MakeEvent(store.seq, store.prev, body)
  IN  /\ file' = [file EXCEPT ![r] = WriteLine(@, event, TRUE, TRUE)]
      /\ memory' = [memory EXCEPT ![r] = Advance(event)]
      /\ written' = [written EXCEPT ![r] = Append(@, body)]

Emit(r, body) == EmitWith(r, memory[r], body)

Reach(r, p) == phase' = [phase EXCEPT ![r] = p]

Live == {"queued", "created", "snapshot", "freezing", "patching"}

HasPut(r) == put[r].step = "put"

\* Mutant: an artifact is named while it is being put.
DueEarly(r) ==
  CASE phase[r] = "queued" -> {Event("created", Body("run.created"))}
    [] phase[r] = "created" -> {Event("snapshot", Started(disk.files))}
    [] phase[r] = "snapshot" /\ put[r].step # "none" ->
         {Event("freezing", Naming("state.snapshot", {put[r].content}))}
    [] phase[r] = "patching" /\ put[r].step # "none" ->
         {Event("done", Naming("run.terminal", kept[r] \cup {put[r].content}))}
    [] OTHER -> {}

\* The events a run may write next; an artifact is put before it is named.
Due(r) ==
  CASE phase[r] = "queued" -> {Event("created", Body("run.created"))}
    [] phase[r] = "created" -> {Event("snapshot", Started(disk.files))}
    [] phase[r] = "snapshot" /\ HasPut(r) ->
         {Event("freezing", Naming("state.snapshot", {put[r].content}))}
    [] phase[r] = "patching" /\ HasPut(r) ->
         {Event("done", Naming("run.terminal", kept[r] \cup {put[r].content}))}
    [] OTHER -> {}

\* One more event.  The first comes with manifest and row, the second with the
\* initial state, for which the package's directory is read only now.
RunWrites(r) ==
  /\ \E event \in Due(r) : Emit(r, event.body) /\ Reach(r, event.then)
  /\ executed' = IF phase[r] = "created" THEN [executed EXCEPT ![r] = disk] ELSE executed
  /\ put' = [put EXCEPT ![r] = NoPut]
  /\ UNCHANGED <<registry, target, package, byId, kept, damaged, ops>>

\* The snapshot of every tenth turn, the final state and the final patch.
RunPuts(r) ==
  /\ \/ phase[r] \in {"snapshot", "freezing"} /\ \E c \in States : BeginPut(r, c)
     \/ phase[r] = "patching" /\ \E c \in Patches : BeginPut(r, c)
  /\ UNCHANGED <<registry, logs, progress, damaged, ops>>

RunStores(r) ==
  /\ PutStep(r)
  /\ UNCHANGED <<registry, logs, progress, damaged, ops>>

\* A run that ends before its tenth turn.
RunSkipsSnapshot(r) ==
  /\ phase[r] = "snapshot" /\ put[r].step = "none"
  /\ Reach(r, "freezing")
  /\ UNCHANGED <<registry, artifacts, logs, package, executed, byId, kept, damaged, ops>>

\* The final state is stored; the patch is next.
RunFreezes(r) ==
  /\ phase[r] = "freezing" /\ HasPut(r)
  /\ kept' = [kept EXCEPT ![r] = {put[r].content}]
  /\ Reach(r, "patching")
  /\ EndPut(r)
  /\ UNCHANGED <<registry, target, logs, package, executed, byId, damaged, ops>>

\* The process is lost, or an exception that execute() does not catch ends it.
Lose(r) ==
  /\ phase[r] \in Live
  /\ Reach(r, "lost")
  /\ EndPut(r)
  /\ UNCHANGED <<registry, target, logs, package, executed, byId, kept, damaged, ops>>

\* So it is in the middle of a line: a part of it is there, or all of it but
\* the newline.
LoseInLine(r) ==
  /\ \E event \in Due(r), parses \in BOOLEAN :
       LET sealed == MakeEvent(memory[r].seq, memory[r].prev, event.body)
       IN  /\ file' = [file EXCEPT ![r] = WriteLine(@, sealed, parses, FALSE)]
           /\ written' = [written EXCEPT ![r] = Append(@, event.body)]
  /\ executed' = IF phase[r] = "created" THEN [executed EXCEPT ![r] = disk] ELSE executed
  /\ Reach(r, "lost")
  /\ EndPut(r)
  /\ UNCHANGED <<registry, target, memory, package, byId, kept, damaged, ops>>

-------------------------------------------------------------------------------
(***************************************************************************)
(* Users, and the disk.                                                    *)
(***************************************************************************)
Operation == ops < MaxOps /\ ops' = ops + 1

Edit ==
  /\ Operation
  /\ EditPackage
  /\ UNCHANGED <<artifacts, logs, progress, damaged>>

Register ==
  /\ Operation
  /\ AddScenario
  /\ UNCHANGED <<artifacts, logs, progress, damaged>>

RegisterAgent ==
  /\ Operation
  /\ AddAgent
  /\ UNCHANGED <<artifacts, logs, progress, damaged>>

\* resolve_package takes a directory first, whatever is registered; then an id.
\* The run waits for its turn.
Submit(r) ==
  /\ Operation
  /\ phase[r] = "none"
  /\ AgentNamed # Nothing
  /\ \/ /\ package' = [package EXCEPT ![r] = disk]
        /\ UNCHANGED byId
     \/ /\ Resolve # Nothing
        /\ package' = [package EXCEPT ![r] = Resolve]
        /\ byId' = byId \cup {r}
  /\ Reach(r, "queued")
  /\ UNCHANGED <<registry, artifacts, logs, executed, kept, damaged>>

\* A store is opened on the log that was left, where it can be read, and goes on.
Reopen(r) ==
  /\ Operation
  /\ phase[r] = "lost" /\ r \notin damaged
  /\ file[r] # <<>> /\ Readable(file[r])
  /\ EmitWith(r, OpenStore(file[r]), Body("annotation.added"))
  /\ UNCHANGED <<registry, artifacts, progress, damaged>>

\* A line of a log that nobody writes to is changed or lost.
Damage(r) ==
  /\ Operation
  /\ phase[r] \in {"done", "lost"}
  /\ \E i \in DOMAIN file[r] :
       \/ file' = [file EXCEPT ![r] = RemoveAt(@, i)]
       \/ \E p \in Packages :
            /\ Started(p.files) # file[r][i].event.body
            /\ file' = [file EXCEPT ![r][i].event.body = Started(p.files)]
  /\ damaged' = damaged \cup {r}
  /\ UNCHANGED <<registry, artifacts, memory, written, progress>>

RunSteps(r) ==
  RunWrites(r) \/ RunPuts(r) \/ RunStores(r) \/ RunSkipsSnapshot(r) \/ RunFreezes(r)

Next ==
  \/ \E r \in Runs :
       RunSteps(r) \/ Lose(r) \/ LoseInLine(r) \/ Submit(r) \/ Reopen(r) \/ Damage(r)
  \/ Edit \/ Register \/ RegisterAgent

Spec == Init /\ [][Next]_vars

-------------------------------------------------------------------------------
(***************************************************************************)
(* Replay, as a user may ask for it at any moment: replay_run on the       *)
(* package that resolve_package finds for the run's scenario.              *)
(***************************************************************************)
Replayable(r) == Verified(file[r]) /\ Resolve # Nothing

DigestMatches(r) == Resolve = package[r]

\* Mutant: the initial state is built but not compared.
MatchesUnanchored(r) == Len(file[r]) >= 0

\* The recorded initial state is that of the package replayed; the transitions
\* that follow are Replay's.
Matches(r) ==
  \A i \in DOMAIN file[r] :
    file[r][i].event.body.type = "run.started" =>
      file[r][i].event.body.files = Resolve.files

===============================================================================
