# Verification of Agent Debugger

TLA+ models, TLC runs and TLAPS proofs for *Agent Debugger*, a workbench that
runs coding agents against simulated repositories, records what they do in an
event log, scores the log, compares sets of runs and shows them in a browser.
Paths below are relative to `src/agent_debugger/` unless they start with
`web/`, `docs/` or `src/`.

## 1. The system

| Part | State it keeps | Operations | Talks to |
|---|---|---|---|
| Run orchestrator, `orchestration/runner.py` | the run's position, tracker, terminal reason, cancel flag | `execute`, `cancel` | all the parts of a run |
| Policy and limits, `policy/engine.py` | `LimitTracker` | `classify_action`, `evaluate`, `record_*`, `breach` | orchestrator; attempt flags in the state |
| State engine, `scenario/engine.py`, `conditions.py`, `state.py`, `vfs.py` | `AuthoritativeState`: files, environment, test statuses, flags | one handler per action type, `success_satisfied`, `failure_satisfied` | orchestrator, replay |
| Event store, `persistence/events.py`, `protocol/events.py` | `events.jsonl`, each line sealed with the hash of the one before; the next number and last hash in memory | opening, `append`, `read_all`, `verify_chain` | orchestrator writes; scorer, replay, stream read |
| Artifact store, `persistence/artifacts.py` | files named by the digest of their content | `put`, `get_bytes` | several runs, threads and processes write; replay and reports read |
| Packages and registries, `scenario/package.py`, `persistence/db.py`, `application/services.py` | directories that authors edit in place; tables of scenarios and agents | `validate_package`, `resolve_package`, `register_scenario`, `register_agent`, look-up by id or name | runs, replay, the command line |
| Runs table, `persistence/db.py` | one row per run | `create_run`, `set_run_status`, `save_scorecard`, `list_runs` | orchestrator writes; API, suites, gate read |
| Replay, `orchestration/replay.py` | none | `replay_run` | log, engine |
| Scoring, `scoring/facts.py`, `engine.py` | none | `compute_facts`, `score_run` | log |
| Agents, `adapters/` | conversation, pending tool calls | `start`, `next_action`, `cancel`, `usage` | model endpoint, orchestrator |
| Renderers, `renderers/` | none across turns | `render` | model endpoint, orchestrator |
| Suites, `orchestration/suite.py` | a semaphore and the results | `run_suite` | orchestrator, table |
| Comparison, `reports/compare.py`, `cli/main.py` | none | `compare_run_sets`, `evaluate_regression`, `compare --gate` | table |
| API process, `api/app.py` | `active_runs`, semaphore, `benchmarks` | submit, cancel, stream, benchmark | tasks, threads, table, log |
| OpenRouter gateway, `application/openrouter.py` | the key, the cached model list | set, clear, list | environment, OpenRouter |
| Review app, `web/src/app.ts` | hash, current route, selection, stored batch, the page shown | render, poll, navigate, toggle, launch | API |
| Workspace layout, protocol, reports, judge, conformance, real validation, secrets | files | loading, storing, formatting | everyone |

**What is hard.** A run is a coroutine that can be suspended, cancelled or
lost at every await, and it writes to three places: state, log and row. The
API runs many of them on one event loop beside request threads. Exceptions
leave a run by four different ways (failed observation, failed run, an
exception that the API swallows, `CancelledError`). The scorer, replay and the
gate work only from what was recorded, in whatever order it was recorded. The
browser fetches and paints in an order nobody chose. Processes share one
workspace: they store the same contents at once, are lost in the middle of a
line, and read packages that an author is editing. The gateway's handlers keep
the key and the cached list across awaits, while others change both. The agent and the world
model are language models: any action, any wording and any failure is possible
at any turn. `PROJECT.json` lists these hazards with their lines.

**What makes each part correct**

* orchestrator: a run ends, by a true reason; turns are whole; the log is
  append-only and enough to reproduce the state; the row follows the log;
* gate and limits: no action runs that was denied, every denied attempt is
  remembered, no counter passes its limit;
* scoring: counts and order facts are true of the log, findings cite it;
* API: permits and registry are accounted for, queued runs end, streams end;
* suites and gate: the summary adds up with the table, reruns and order do not
  move a verdict, violations are not averaged away;
* adapter and renderer: the conversation is well formed, the agent reads no
  contradiction;
* gateway: no key is used that did not get past verification, or was removed
  since; a list served as fresh is fresh;
* stores: what a log names is in the artifact store, whole; a log nobody
  damaged verifies, a log that verifies is true;
* packages and registries: a run found by id is one that can be judged, a
  replay that matches has replayed what ran, a name only moves on;
* review app: a page belongs to the hash, and catches up.

## 2. Modules

```
Domain ── statuses, reasons, transitions
  ├─ ScenarioEngine ── Policy ── Replay ── RunLoop ── RunProperties ─┬─ RunLoopProofs ─────────────────┐
  │                                         │ (Row)                  └─ ScoreProperties (with Scoring) ─┼─ ScoreProofs
  │                                         │                                                           └─ MCRunLoop
  ├─ RunLifecycle  (abstract: one row)  ◄───┴─── implemented by RunLoop and RunServer
  ├─ RunServer ── ServerProperties ─┬─ ServerProofs
  │                                 └─ MCRunServer
  └─ Regression ── Suite ── SuiteProperties ─┬─ SuiteProofs
                                             └─ MCSuite
Validation ── Registry ─┐
EventStore ─────────────┼─ Workspace ── WorkspaceProperties ─┬─ WorkspaceProofs
ArtifactStore ──────────┘                                    └─ MCWorkspace
  └─ implements ArtifactPromise  (abstract: a set of whole contents)
ToolLoop ── ToolLoopProperties ─┐
ToolLoop, Gateway ── ModelBench ┴─ ModelBenchProperties ─┬─ ModelBenchProofs
                                                         └─ MCModelBench
WebApp ── WebProperties ─┬─ WebProofs
                         └─ MCWebApp
Rounding ── Scoring, Regression, FoldProofs
FoldProofs ── an instance of it in RunLoopProofs, ScoreProofs and SuiteProofs
```

| Module | Models | State and actions in the code's terms |
|---|---|---|
| `Domain` | `domain/model.py` | run statuses, terminal reasons, `VALID_TRANSITIONS` |
| `RunLifecycle` | `persistence/db.py` | the promise of one row: created queued, moves along the table's transitions, scored only while running, final rows never change |
| `ScenarioEngine` | `scenario/` | `Apply` is `StateEngine.apply`: perturbation first, then the handler of the action's type; an exception returns the state as the handler left it |
| `Policy` | `policy/engine.py` | `Evaluate`, `RecordAttemptFlags`, the tracker as a record, `Breach` in the order of the code |
| `Replay` | `orchestration/replay.py` | a fold over the log that repeats denials and actions and compares hashes |
| `RunLoop` | `orchestration/runner.py` | `pc` is where `execute()` stands; one action per stretch between awaits or writes; `RequestCancel` is `cancel()`, `Escape` is an exception or cancellation that leaves `execute()` |
| `Scoring` | `scoring/` | `ComputeFacts` as a fold over the log, the rules with their evidence, scores in hundredths |
| `Rounding` | Python's `round()` | to the nearest, halves to even; a half that floating point does not hold exactly may go the other way in the code, and what the properties say is true of either |
| `RunServer` | `api/app.py` | per run: the task's phase, row and event types; `loop` is who is on the event loop, so that threads act between two awaits and coroutines do not; `Crash` loses everything but rows and logs |
| `Regression`, `Suite` | `reports/compare.py`, `orchestration/suite.py`, `cli/main.py` | the pool of each suite, rows per revision in order of creation, `Gate` as the exit code |
| `ToolLoop` | `adapters/openai_compat.py`, `renderers/hybrid.py` | the conversation and the pending calls, the endpoint's answers, the renderer's attempts |
| `Gateway` | `application/openrouter.py` | one record per call of `set_key`, `clear_key` or `list_models`; a step is what runs between two awaits, the provider's answer is any verdict; a refusal takes no key back; the clock moves on its own; `vetted` is history |
| `ModelBench` | both, with `util/secrets.py` | the model run and the gateway over one environment: the key in force is read when a request is made |
| `EventStore` | `persistence/events.py`, `protocol/events.py` | a line is an event with its number, the hash of its predecessor and its own, or a line that was cut off; opening, appending and `verify_chain` are operators over a file and what the store remembers |
| `ArtifactStore` | `persistence/artifacts.py` | `put` one system call at a time: does it exist, write the temporary file, rename |
| `ArtifactPromise` | what a reader of a digest relies on | contents become whole, one at a time, and stay |
| `Validation` | `scenario/package.py` | `validate_package` over the parts of a manifest it relates: suites, conditions, success, failure, actions |
| `Registry` | `application/services.py`, `persistence/db.py` | the package directory, rows of scenarios and agents, look-up by order of version or of time |
| `Workspace` | the three composed, with `runner.py` and `cli/main.py` where they use them | a run as the events and artifacts it still has to write, a loss of it anywhere, the reopening of its log, edits, registrations, damage, replay |
| `WebApp` | `web/src/app.ts` | renders under way as slots with what each has read; the server as the batches it knows |

Text is abstracted everywhere: a file is a set of tokens, the hash of a state
is the state it is taken of, an event is its type with the part of its payload that is read
again, a wording is truthful or not, a page is its route and its batch. The hash of an
event is a constant function, which the runs take injective; the proofs say
where they need that.
A definition marked *Mutant* is a plausible bug: `PROJECT.json` names, for
every property of a passing run, one that the property detects.

## 3. Runs

| Run | Shows | Bounds |
|---|---|---|
| `RunGate` | replay of every prefix, tracker and log, whole turns, flags, facts, evidence over denied, gated, perturbed and failing actions; the row refines its lifecycle, the log only grows, the run ends | 3 actions, 2 malformed answers, 3 repeats, 3 seeds; cancellation and failure anywhere |
| `RunLimits` | each limit, the clock included, ends the run truthfully; scoring and row against log; what a full score means | 4 actions; readings of tokens and cost below and at the limit; the clock may pass at any check |
| `RunReplayMistyped` | *violation*: an exception in the middle of `test.run` | 2 actions |
| `ServerSafety` | permits, registry, stream, lifecycle of rows, and every queued run ends | 3 runs, 2 permits, 1 watched stream, 1 poll that finds nothing, 1 loss of the process |
| `ServerCanceled` | *violation*: a run cancelled in the queue leaves no record | 2 runs, 1 permit |
| `ServerStream` | *violation*: the stream of a failed run is never done | 1 run |
| `SuiteGate` | summary, first run of a key decides, violations not averaged | a baseline of 2 runs, a candidate of 3 with one key twice, list limit 3 |
| `SuiteInfrastructure` | *violation*: infrastructure failures reported as regression | the same |
| `ModelRun` | calls answered in order, no contradiction read, no key used that is not vetted, no old list served as fresh, the run ends | 3 turns, 2 calls per answer, 2 ids that are used again, 3 calls of the gateway, 2 keys, one of them or none at the start, time to live 2, clock up to 2; `Within` bounds turns and calls together |
| `Workspace` | named artifacts are whole, logs verify exactly when they are true, honest replay, judgeable runs, the store keeps its promise, names move forward | 2 runs, 3 contents of the package directory, 3 agent configurations of which one has a value in its `secret` field, 1 state and 1 patch, 4 operations from outside |
| `WebPages` | pages belong to the hash, polled pages catch up, what is known was started | 5 routes, 2 renders at once, 2 launches, 1 failure, 2 navigations |
| `WebStale` | *violation*: a late error is painted over another page | the same |

**Why the bounds are enough.** The limits of a run are at most 4 because the
interesting mixtures need few turns: a repetition needs two equal actions and
one between, a recovery a failure and a later action, "before the first write"
an event on each side. With 3 runs and 2 permits one run waits while two hold,
and a permit that is lost or doubled shows. Two keys, one of them twice, are
what order among reruns needs; the list limit holds all their rows, so what
the gate says of a set the listing cuts off is outside of these runs. Two
answers with two calls each make an id of an earlier turn reappear. Of three
calls of the gateway two overlap in every way a pair can and the third sees
what came of it: two fetches are under way at once, the older list overwrites
the newer one, and a third call is given the older one while it is young, or
asks anew when it is not; one key is set while another is verified and a third
call removes either. Three calls go with one turn of the run, two with two, one
or none with three (`Within`, a constraint on the run); time passes only where
no key was set or removed, since only the catalog looks at it, and a run that
has a key has one turn or one call less when it passes. The bound keeps calls
from being made, time from passing and turns from following, none of which
anybody is obliged to, so that no run is stopped by it and its end is still
checked. Two overlapping renders are what a stale paint needs. In `Workspace`, two runs are two writers of one
content, "1.9.0" and "1.10.0" are versions that compare differently as text
than as numbers, the third content is one that validation rejects, and four
operations from outside are enough for a registration, an edit, a loss with
reopening and a damaged line in one behaviour. Runs and configurations without
secrets are interchangeable there, and its properties are safety properties, so
symmetry is sound. Every bound is a constant named in its module.

**Deadlock** is checked except where the system may stop: all tasks over
(`RunServer`), all suites done (`Suite`), the run over and the calls used up
(`ModelRun`), every run over and the operations used up (`Workspace`).
`RunLoop` ends in `Ended`, the review app never stops.

**Fairness.** `RunLoop`: weak fairness of the orchestrator's own steps, since
asyncio runs a ready task, `next_action` is under a timeout of the
orchestrator and the HTTP clients behind rendering have timeouts; nobody is
obliged to cancel or to fail. `RunServer`: strong fairness per task, as
threads and other tasks come in between, and a task on the semaphore's queue
is served first come first served; a run in its loop ends because of
`RunEnds`. Watched streams are polled by a timer. `ModelBench`: each party of
the run acts; the endpoint answers and is *not* assumed to fail, so that an
endless retry would be seen; no user of the gateway is obliged to do anything.
`WebApp`: requests are answered or fail, timer and events are served; no user
action is assumed. `Suite` and `Workspace` state no liveness.

## 4. Divergences met

1. `RunReplayMistyped` – `scenario/engine.py:273`: statuses set before an
   exception stay in the recorded final state and cannot be replayed
   (`docs/11-workflows-pipelines.md:229`).
2. `ServerCanceled` – `api/app.py:307`: a cancelled queued run has neither row
   nor event (`docs/13-functional-requirements.md:113`).
3. `ServerStream` – `api/app.py:327`: only a score is terminal for the stream
   (docstring at `api/app.py:312`).
4. `SuiteInfrastructure` – `reports/compare.py:66`: infrastructure failures
   count as unsolved (`docs/11-workflows-pipelines.md:304`).
5. `WebStale` – `web/src/app.ts:270`: the error path of `render` is unguarded
   (`web/src/app.ts:496`).

Others were met while the modules were written. No run is spent on them; the
models follow the code in each case.

*The log.* `json.dumps(ensure_ascii=False)` (`persistence/events.py:50`) leaves
U+0085 and U+2028 in a line, and three readers split the file with
`splitlines()`, which breaks lines there (`api/app.py:164`, `api/app.py:321`,
`cli/main.py:338`). The hash of an event leaves out `event_id` and
`evidence_tags`, and a log whose tail was cut off verifies, although
`protocol/events.py:3-4` has any mutation detectable: `VerifiedLogsAreTrue` is
therefore about beginnings of the log, and about the hashed parts. A line
without its newline is joined by the next append after reopening. Nothing is
synced to disk.

*Packages and replay.* The registry orders versions as text
(`persistence/db.py:167`), so that a package that was registered again as
"1.10.0" can go on failing with "re-register it"
(`application/services.py:41-43`). The fixture is read after the wait in the
queue (`orchestration/runner.py:141`), so that the executed files can differ
from the digest in the manifest; replay and promotion resolve the newest
package, not the one that ran (`cli/main.py:335`). Replay of a log without
`run.started` matches by default. Condition kinds nobody knows pass
`validate_package`, which is the start of divergence 1. `agent add` registers
before conformance has run (`cli/main.py:192`), which `sdk/conformance.py:3-4`
has the other way round.

*Gateway.* The retry with `tool_choice` "auto" sends the headers of the first
attempt, where `application/openrouter.py:5-6` has the key resolved live per
request. A removal while a key is verified is undone when the answer comes,
and the note that the key is of this session can be left wrong.

*Runs.* Interrupted rows are never marked (`api/app.py:57` against NFR-015,
`docs/14-non-functional-requirements.md:33`). A give-up swallowed by a
perturbation is scored as giving up (`scoring/facts.py:90`). An observation
that follows a text answer never reaches the model, as there is no call to
reply to (`adapters/openai_compat.py:131`).

## 5. Proofs

Every theorem is proved for all values of the constants that satisfy the named
assumptions of its module. Each invariant below is inductive: it holds at
first and every action keeps it, one step per action.

**`RunLoopProofs`** (`LimitsAssumption`: limits are integers, zero and negative
ones included; `ActionsAssumption`: shell commands have a class;
`AbsentAssumption`: the absence of an action is not an action; `RunAssumption`:
readings are naturals)

* `TypeCorrect` – `Spec => []TypeOK`, over lemmas on the gate, the engine's
  result, the limit check and the tracker. `world` and `log` need no type for
  it: nothing in the loop branches on their shape except through operators
  whose results are typed.
* `NeverOvershoots` – `Spec => []NoOvershoot`. The bound is not inductive, as
  nothing in it says that limits are looked at before the next turn begins.
  `LimitInv` adds that: while the loop goes on, every counter is below its
  limit, a counted answer brings it to its limit at most, and turns are no more
  than actions and malformed answers together.
* `RowRefinesLifecycle` – `Spec => ImplementsRunLifecycle`. `RowInv` relates
  `pc`, `status` and the row: which status the row has at each point of
  `execute()`, and that status and terminal reason agree, which is what makes
  the last write a legal transition.
* The log – `ScoredAreJudgeable`, `RowsFollowLogs`, `LimitReasonsAreTrue`,
  `LogsOnlyGrow`, `FlagsAreAttempts`. The log is seen through the few events
  that tell how a run went: `LogInv` says which of them there are, in order, at
  each point where `execute()` stands, and that at most one limit event is
  among them. A run that was cut short keeps what there was, so the invariant
  is stated at a point `p` that is `pc`, or for an aborted run some point it may
  have stood at. All other events are shown to tell nothing. `FlagInv` says that
  the flags are the classes of the denials, except while a denial is being
  handled.
* The counters – `TrackersMatchLogs`, `TurnsAreComplete`. `CountInv` equates
  every counter with the cardinality of a set of indices of the log, one for
  actions, one for invalid answers, one per action; the most repeated action is
  the largest of the latter. `TurnInv` says what the turn that `execute()` stands
  in the middle of has so far, and counts of kinds add up when two parts of the
  log are joined.
* Replay – `ReplayAlwaysAgrees`, `ReplayOfTypedSuitesAgrees`. Replay reads the
  whole log, the loop never does, so the invariant must say what replay has
  after the log so far: `ReplayInv` says that no hash has differed, that replay's
  world is the run's, and that between a decision and its handling replay
  already holds the action that is allowed, or the flags of the denial. `OrderInv`
  (a transition follows the proposal of its own turn with no other in between)
  and the fact that all other events do nothing to replay keep it. One step
  breaks it: a handler that raises leaves its changes in the state and writes
  no transition (divergence 1). The first theorem is therefore
  `ReplayAgrees \/ (Interrupted /\ ~SuitesAreTyped)`: a run whose replay differs
  has failed on an allowed action that has no transition, and in its scenario
  the suites are not typed. `SuitesAreTyped` is what loading does not check:
  conditions nest to a finite depth, as lists, and the conditions that decide
  about suites, with those nested in them, are of kinds that
  `evaluate_condition` knows. The scenarios of `RunGate` and `RunLimits` have it,
  the one of `RunReplayMistyped` has not, as TLC shows when it evaluates the
  definition. Under it the second theorem is `Spec => []ReplayAgrees`.
  That verdicts on nested conditions exist, and are yes or no when the kinds are
  known, is proved by induction over the depth.

**`FoldProofs`** – what the other modules know of the folds of the community
modules. `FoldLeft` and `MapThenSumSet` are defined by functions over sets of
indices; the library's induction theorems take a predicate, which the provers
cannot instantiate, so induction over the naturals is derived here with a *set*
in place of the predicate, from the theorem that a set with a well-founded
order has minimal elements. From it follow: such a function exists, a fold over
a longer sequence is one step more, what every step keeps the fold has; sums
over finite sets exist, do not depend on the order in which elements are taken,
bound their terms and are bounded by them; rounding keeps an order of enough
distance and moves a quotient by a half at most. The step is a constant operator of the module, which
each user instantiates: `Rerun` and `SuitesRun` in `RunLoopProofs`, `F` in
`ScoreProofs`, `C` in `SuiteProofs`.

**`ScoreProofs`** (the assumptions of `RunLoopProofs`; `ParAssumption`: par is
positive) – `FactsMatchTrackers`, `OrderedFactsAreTrue`, `FindingsAreBacked`,
`FullScoreIsFlawless`, in three parts.

* What the facts say of *any* log. `IsTally` is the list of facts after each
  event, with `ComputeFacts` as its last entry; by induction over the log, the
  facts after k events are statements about the first k events: counts
  (`TotalsOf`), the largest repetition (`RepeatsOf`), the order of writes, tests
  and guesses (`OrderOf`), recovery (`RecoveryOf`), and events to show for each of
  them (`EvidenceOf`). Recovery is the hard one: the scorer remembers one failed
  action only, and forgets it when the agent moves on; `RecoveryOf` says that
  until then all failures are of that action.
* What they say of the log of a *run*, with `OrderInv`, `CountInv` and `FlagInv`:
  the turns of proposals are counted from one and a transition has a proposal
  before it, which is what the two order facts need; the rest is the agreement
  of log, tracker and flags.
* The rules as tables (`CompletionPoints` and the like), from which no dimension
  has more than full marks, and one that has them is flawless. Full marks
  overall are then full marks in each dimension that counts. Two roundings stand
  in between. The overall score is rounded to hundredths of a percent: weights
  are multiples of five and add up to 125 at most, so what is missing anywhere
  takes off a hundredth or more of the mean (`NotRoundedUp`). Efficiency is
  rounded to hundredths of a point: with a par of a thousand or more, an action
  above par may be rounded away, so the property bounds the excess by a
  thousandth of par, which for any smaller par is none.

**`WorkspaceProofs`** (`WorkspaceAssumption`; `RegistryAssumption`: versions have
a place in an order) – `ArtifactsAreThere`,
`StoreKeepsPromise`, `LogsSurviveLoss`, `WorkspaceTypes`, `NamesAdvance`, and
under `CollisionFree` (no two payloads share a hash under one number and
predecessor) `TamperingShows` and `ReplayIsHonest`. `StoreInv` is about the
content each writer is at; the invariant of the logs says of every line that
it was made by the store, and of an undamaged log that its lines are chained
and that its store remembers its end. Loss in the middle of a line, reopening
and the line that is glued to a cut one are cases of their own. `JudgedBySuites`
(`RegisteredRunsAreJudgeable`): every row was accepted and one of them is newest,
also after the row of a version was replaced, so that what an id resolves to was
accepted; and `condition_references` finds the suites that evaluation looks up.

**`ServerProofs`** (`ServerAssumption`) – `PermitsAreAccounted`, `DoneIsFinal`,
`RowsAreLifecycles`, for any number of runs, permits and losses. Free permits,
woken waiters and holders add up to the capacity, the queue holds each waiting
run once, and row, log and stream are where the phase of the task puts them.

**`ModelBenchProofs`** – `CallsAreReplied`, `AgentsReadTheTruth`,
`RequestsUseVettedKeys`, `CacheIsYoung`, for any length of conversation, any
reuse of ids and any overlap of calls. `TalkInv` says that only the last answer
can be open, that everything before it is replied to, and that the pending
calls are what is missing. `KeyInv`: the key in force is a vetted one, also
when a call that a removal overtook installs it. `CatalogInv`: a list was sent
no earlier than the time it counts from, in every call in flight and so in the
cache, whichever call wrote it; and only the cache gives a list at once.
`ToolLoopTypes` follows from the first.

**`SuiteProofs`** (`SuiteAssumption`: finitely many jobs;
`ThresholdsAssumption`: thresholds are naturals) – `SummariesMatchRows`,
`SafetyIsWeighedPairByPair`, `LaterRunsDoNotCount`, at every moment at which the
gate may read the table. `SuiteInv`: a job has at most one row, which fits its
state; then rows and jobs that returned are put in bijection to compare the
counts. For the gate, the rows of a label are a fold whose result is a part of
the table in the same order; while the listing's limit cuts nothing off,
indexing the reversed list keeps the oldest row of each key. Gains in violations
are summed over the pairs, none negative, so each is at most the sum. The two
success rates are rounded half to even to hundredths of a percent before they
are compared: a drop that reaches the threshold is always reported, and one
that is reported reaches it up to that rounding, which the property states.

**`WebProofs`** (`WebAssumption`) – `WebTypes`, `PagesFollowTheHash`. `WebInv`:
what a render, the page or the session knows was started by the server, the
selection is finite and within its size.

**Only model-checked.** Liveness under fairness (`RunEnds`, `QueuedRunsEnd`,
`ModelRunsEnd`, `PolledPagesCatchUp`) is outside of the prover's reach. Every
invariant and every action property that a passing run checks is also proved;
`ReplayAgrees` alone needs a hypothesis on the scenario. The assumptions on
constants are evaluated by TLC in every run.

## 6. Not modelled

* Texts: observations, diffs, reports, HTML, redaction, shell command
  patterns, conformance by substring; the judge, whose findings change no
  score.
* YAML, templates, guides and parameter schemas: an action is well formed or a
  protocol error, a manifest is the parts that `validate_package` relates.
* Real validation and the conformance suite: straight sequences of I/O.
  Scripted and reference agents: included in "the agent may do anything".
* Workspace layout, configuration, backup and promotion: file operations of one
  command without a second party. Power loss: the code syncs nothing, so
  nothing would be promised.
* Tool calls without an id, or two of one answer with the same: `ProposeCalls`
  gives every call an id of its own. The code takes an id that is missing as
  none pending (`openai_compat.py:139-140`), and such a first call would get no
  reply.
* An edit of a package while it is registered: `AddScenario` reads the manifest,
  validates and takes the digest in one step, which `package.py:163-179` does
  one file after the other.
* Secrets anywhere but under the top-level fields `api_key` and `secret` of an
  agent's configuration, which are the two that `register_agent` looks at.
* Read-only endpoints and the payloads of the dashboard: queries without state.

## 7. Plan

Done, in this order: `Domain`, `ScenarioEngine`, `Policy`, `Replay`,
`RunLifecycle`, `RunLoop` with its proofs; `RunServer`; `Scoring`;
`Regression` and `Suite`; `WebApp`; `ToolLoop`; `EventStore`, `ArtifactStore`
with `ArtifactPromise`, `Validation` and `Registry`, composed in `Workspace`;
`Gateway`, composed with `ToolLoop` in `ModelBench`; proofs about every one of
these components.

Left:

1. `ToolLoop` composed with `RunLoop`, so that the observation lost after a
   text answer and the limits meet.
2. The two hazards without a property: a give-up that a perturbation swallowed,
   and a launch whose answer is lost.
