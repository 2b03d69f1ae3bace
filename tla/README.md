# A formal model of jev-loop

TLA+ modules, TLC configurations and TLAPS proofs for jev-loop: a control loop
that lets a policy act on an external world (`src/jev_loop/core`), and the host
that runs such loops as managed worker processes with a durable journal,
resource claims, cognition jobs and client commands (`src/jev_loop/host`).
Paths below are relative to the repository root unless they name a module;
`PROJECT.json` ties each definition to the lines it stands for.

```
tlc -workers 2 -config MCLoop.cfg MCLoop              tlapm LoopProofs.tla
tlc -workers 2 -config MCJournal.cfg MCJournal        tlapm JournalProofs.tla
tlc -workers 2 -config MCManagedRun.cfg MCManagedRun  tlapm ManagedRunProofs.tla
tlc -workers 2 -config MCStartRun.cfg MCStartRun      tlapm StartRunProofs.tla
tlc -workers 2 -config MCCommands.cfg MCCommands      tlapm CommandsProofs.tla
tlc -workers 2 -config MCContract.cfg MCContract      tlapm ContractProofs.tla
tlc -workers 2 -config MCDelivery.cfg MCDelivery      tlapm DeliveryProofs.tla
```

## 1. Inventory

| Component | State it keeps | Operations | What makes it correct |
|---|---|---|---|
| Loop kernel (`core/loop.py`) | `RuntimeState`: status, step, observation and its staleness, unresolved operations, excluded ("dead") actions, attempts, frame visits, escalations, verifications | `step`, `run`, `resume`, `cancel` | never repeats or overlaps an operation of unknown outcome; claims success only when verified; does not spin |
| Kernel reducer, frame, guards (`core/reduce.py`, `frame.py`, `guards.py`) | pure | `apply`, `build_frame`, `assess_frame`, `assess_attempts`, `assess_effect` | exclusions live as long as their observation; a cycle or a lack of progress ends the run |
| Kernel ports (`ports.py`) | outside | `observe`, `offer`, `validate`, `execute`, `query`; `decide`; `verify` | anything may be answered, or raised |
| Host journal (`host/store.py`) | `events.jsonl`, `status.json`; per recorder its cached state and the file size it knows; an RLock and an flock | `open`, `emit`, `load_events`, `load_status` | gapless, replayable journal; the projection is current and never ahead; no writer blocks for ever |
| Managed reducer (`host/reduce.py`) | `ManagedState`: status, release, lease, jobs, versions | `apply`, `replay` | a finished run is never reactivated, a release is never taken back |
| Worker coordinator (`run_worker`, `host/service.py`) | `requested_result`, `release_confirmed`, `result_queue`, grace, engine thread, signal handlers | boot, load, command round, lease and runtime limits, snapshot, result, stop grace, clean-up | the worker ends, whatever the controller's `run()` does; how it ends is decided once; release is recorded only when it happened |
| Inspection and operator release (`inspect_run`, `confirm_resources_released`, `list_runs`) | none of its own | reconcile the run of a dead worker, clear claims | only runs of dead or late workers are ended; each is eventually shown finished |
| Start, claims, idempotency (`start_run`, `_acquire_resource_claims`, `_wait_for_idempotent_start`) | `idempotency/*.json`, `resources/*.json`, run directory | claim all resources or none, create, spawn, retry | one run per idempotency key; one holder per resource |
| Client commands (`send_command`, `_process_commands`) | `inbox/`, `acks/` | heartbeat, update, respond, stop | acknowledged means executed; a refused update changes nothing |
| Cognition broker (`host/runtime.py`) | pending jobs, results, deadlines | request, respond, expire, cancel | a job is answered, expired or cancelled exactly once; no stale answer is used |
| LoopController (`host/runtime.py`) | a `Loop`, its lock and stop flag | `run`, `update`, `request_stop`, `snapshot` | kernel calls never overlap; stop releases inputs |
| Bundles (`bundles/discovery.py`, `resolve.py`, `manifest.py`, `validate.py`) | files of the project | resolution, manifest contract, static gate | names resolve to one usable bundle or to none; no way of naming a bundle goes around a rule |
| Declared contract (`_enforce_declared_contract`, `_validate_declared_task_patch`, `load_controller`) | the manifest of a run, read three times | check a start, check an update, load the controller | inputs and configuration of a run fit what its bundle declares, at the start and after every update |
| Conformance, scaffold (`bundles/*.py`) | files | development tools | outside this model |
| Schema validator (`schema.py`, `host/schema.py`) | pure | a strict and a permissive profile | the strict one means what JSON Schema says, the permissive one accepts more |
| Policies, verifiers, adapters, CLI, doctor, demo | little | HTTP, predicates, printing | outside this model |
| pi extension (`extensions/pi-jev.ts`) | current context, timer, `pollInFlight`, `delivered`, `suppressedRuns`; entries of the session | heartbeat, poll, deliver, `/jev-self-test`, `/jev-stop-all` | each question is asked, and once in a branch; leases are renewed; what is said to be safely stopped holds nothing |

How they interact. A client process calls the host (`rpc`); `start_run` takes
claims, writes `RUN_CREATED` and spawns the worker. From then on the parties
share files only: worker and clients append to the same journal and replace the
same `status.json`, clients put commands in an inbox, and claims are files that
name a run. Inside the worker the main thread coordinates, an engine thread runs
the controller, and signal handlers run on the main thread between any two
steps. The bundled `LoopController` runs the kernel on the engine thread while
the coordinator calls `update`, `snapshot` and `request_stop` on it. The pi
extension is one client process per session: it polls, renews leases, hands
questions to its agent and runs the host for every request. A bundle is a
directory of the project; starting a run, loading it in the worker and updating it
read its manifest at three different moments.

What is hard to test here, each at its line in `PROJECT.json` under `hazards`: writers
of three processes and two threads interleaving in `emit`; kills between append and
projection and in the middle of a line; a write that the disk refuses; a signal inside
`emit`; a stop racing lease, runtime limit and the engine's own answer; an inspector
that takes a slow worker for a dead one; claims of vanished workers; a world that
returns to an old revision; operations whose outcome stays unknown; answers that arrive
after their deadline; starts under one idempotency key of which one is killed half way;
requests that time out and are executed all the same; a contract that is edited while a
run is started; a poll that is overtaken by a move of its session.

## 2. Modules

| Module | Models | Checked by | Proved in |
|---|---|---|---|
| `OperationLedger` | abstract: what the kernel promises about the operations it issues | `loop_safety` (refinement) | `LoopProofs` |
| `Loop` | kernel with reducer, frame and guards | `loop_*` | `LoopProofs` |
| `EventLog` | abstract: what journal and projection promise their readers, whoever writes or fails | `journal_safety` (refinement) | `JournalProofs` |
| `Journal` | `host/store.py`: locks, appends, projection, kills, failing writes, signals | `journal_*` | `JournalProofs` |
| `RunLifeCycle` | abstract: the life of a run and of its claim, as clients rely on it | `run_safety` (refinement) | `ManagedRunProofs` |
| `ManagedRun` | `run_worker`, inspection, operator release, claims | `run_*` | `ManagedRunProofs` |
| `RunTable` | abstract: which runs have started, and which of them hold their resources | `start_safety` (refinement) | `StartRunProofs` |
| `StartRun` | `start_run`: idempotency mappings, claims of several resources, spawn, undo | `start_safety` | `StartRunProofs` |
| `QuestionBook` | abstract: the life of the questions a run asks its clients | `cognition` (refinement) | `CommandsProofs` |
| `Commands` | client commands, inbox, acknowledgements, broker, the controller's task | `commands`, `cognition` | `CommandsProofs` |
| `Documents` | JSON values and the fields of a manifest, for the modules below | `contract` | – |
| `Contract` | resolution, static gate, declared contract, load and update of a run | `contract` | `ContractProofs` |
| `Schema` | `schema.py` as operators over JSON values | `contract` | – |
| `Manifest` | `parse_manifest` as operators | `contract` | – |
| `SchemaMeaning` | what a schema means, beside what the validator computes | `contract` | – |
| `Delivery` | `extensions/pi-jev.ts` | `delivery` | `DeliveryProofs` |

The `MC` modules only give the constants small values.
Definitions called `Mutant...` are plausible bugs in the definition they precede;
nothing uses them, they are there to be put in its place to see that a property
notices.

### Loop

`step()` is one thread, but between its outside calls the world moves, so it is
cut there: `pc` names the call that comes next, and an action is all the code from
one outside call to the next, with every event emitted and reduced on the way.

| Action | Code |
|---|---|
| `BeginStep` | step limit, wall clock, unresolved operations first |
| `ResolveOperations` | `_resolve_operations`: `query()` each, suspend if any is left |
| `Observe` | `observe()`; a failed one makes the observation stale and suspends |
| `BuildFrame` | `offer()`, `build_frame`, `FRAME_BUILT`, `assess_frame` |
| `PolicyFails`, `DecisionRejected`, `ChooseControl`, `ChooseCandidate` | `decide()` and what is done with any answer |
| `CandidateRejected`, `RepeatBlocked`, `RecordIntent` | `_validate_candidate`, `assess_attempts`, `EXECUTION_INTENT` |
| `Execute` | `execute()` and its receipt; an executor that raises has an unknown outcome |
| `PostObservation` | the observation after a write, `assess_effect`, `_guard_failure` |
| `Verify` | `_verify` with its limit |
| `Raise` | an exception `step()` does not catch leaves it with the state of the last event |
| `Resume`, `Cancel`, `WorldMoves` | the host between steps; the world at any time |

Abstractions: an observation is its revision, a candidate its semantic key, a
frame *is* what its fingerprint hashes, the task is an opaque value, elapsed time
is a choice in `BeginStep`. `Settled` in `MCLoop` is a TLC view that forgets the
locals of `step()` while no step is under way: no action reads them before it
assigns them, and no property mentions them then. Revisions are interchangeable
(the model only compares them), hence `RevisionsAlike`. Two assumptions about the
caller: `step()` is called only while the status is running (`Loop.run` and
`LoopController.run` both test it), and `resume`/`cancel` come between steps, as
`LoopController` does.

### Journal

A thread is a stack of `emit()` calls, because a signal handler emits on the main
thread wherever that is. One `emit` is: RLock, flock, resynchronise when the size
moved, reduce and append, replace `status.json`. The RLock lets its own thread in
again; the flock belongs to an open file, so a nested `emit` of the same thread
waits for it. Every event is its sequence number; `lines` has `Garbage` where two
pieces were joined. `open()` is two actions because the code reads the journal and
then its size without the lock. A killed process loses its locks and, in the
middle of a write, leaves `tail`: a piece of the line, or the whole line without
its newline. A write that the system refuses raises out of `emit` in a process that
lives on (`_process_commands` catches it, `host/service.py:683`), at every place: with
nothing written (`Refuse`), with the line or a piece of it in the file and the recorder
unaware of it (`FailAppending`), or with the recorder ahead of `status.json`
(`FailProjecting`). `abandoned` records which events were left without a projection, by
a kill or by a failure. `Log` maps this to `EventLog`: the log is `lines`, the page
`status.json`, and a writer is between the two from the append of its line to the
projection.

### ManagedRun

One run from the moment its worker exists. `run` is the reduced journal, `shown`
is `status.json`, `seen` the worker recorder's copy. An event is atomic here
(`Journal` opens it up), with one exception that matters to clients,
`KillFinishing`. The coordinator is a cycle of actions named for the pieces of the
loop (`ProcessCommands`, `CheckDeadlines`, `TakeSnapshot`, `TakeResult`,
`CheckGrace`), then `RecordRelease`, `FinishRun`, `CleanUp`, `ReleaseClaims`;
`Signal` interrupts it anywhere. `EngineActs/Returns/Raises` is the controller on
its thread. The main thread calls the controller itself too: when it is loaded, for a
snapshot, an update and a stop request. None of these calls has a timeout, so each may be
the main thread's last step: `Block`, after which only signals and the engine move.
`Inspect(i)` is `inspect_run` step by step, since its reads and its
two emits interleave with the worker's. Clocks are abstract: a limit has elapsed
or not. A lease may be found expired in any round; an unexpired one needs no
action, since a heartbeat has no other effect on the life cycle.

`LifeCycle` is the refinement mapping to `RunLifeCycle`: the reduced journal's status
and release, the claim, and whether the worker is there. All else (copies, engine,
inspectors, the steps of the coordinator) stutters.

A run with `resource_keys` starts with its claim held, one without (`claim = "none"`)
counts as released from `RUN_CREATED` on (`host/reduce.py:49`). `holding` tells an
"input" from a "stray": a stray is what a step takes that was under way when
`request_stop()` had already released the rest. `slow` remembers that the startup grace
of 30 s was over before a living worker had recorded `WORKER_STARTED`.

Constants select what the surroundings may do: `EngineReports` (what
`ControllerResult.resources_released` may say), `MayKill` and `MayKillEmit`.
Assumed: an operator confirms a release (`ConfirmReleased`) only after the worker
is gone and nothing is held, which the request's `confirmed: true` stands for; a
controller that reports `resources_released` tells the truth. A write fails in `Journal`
and `Commands` only: here every event is recorded.

### StartRun

Each call of `start_run()` is a process that passes through `pc`; it creates at most one
run, so the call names it. An action is one file operation (create the mapping, take the
claims under their lock, make the directory, `RUN_CREATED`, write the mapping, spawn,
read the status, poll the worker) and its failure; the `except` clause is three actions
(`AbandonMapping`, `CloseRun`, `GiveClaimsBack`) because a kill may come between them.
`claim[r]` is the claim file of a resource; a claim may be taken over when its run can
be read and is released (`Takeable`), and a refusal removes the stale claims it met on
the way. The worker is reduced to four stages and one way to end, with its claims or
without; `ManagedRun` has it in detail. `Table` maps this to `RunTable`: a run is in the
table from the moment its worker has started (`ran`), and holds its resources until its
release is recorded. Claims that are being written, given back or taken over file by
file stutter. The worker may end at any moment, before its starter has looked at it too: a
run that is over while its own call is under way is `overtaken`, and one whose call then
fails has been undone (`UndoneByItsCall`). `unwritten` are the calls that could not write
all their claims. Both histories are there for the properties, no guard reads them.
`Mortal` are the calls that may be killed. A live worker slower than the startup grace is
in `ManagedRun` only: here `Inspect` ends the runs of workers that are gone.

### Commands

A client checks the status, writes a command, waits for its acknowledgement, gives
up, and may repeat the request as a new command; the coordinator lists the inbox
once per round and executes, acknowledges and unlinks one command after the other.
`Update`, `Complete` (the answer to a question), `Stop` and `Heartbeat` are the
branches of `_process_commands`; `Recording` is what may become of the event when
the disk fails (once, `DiskFails`). A job is `late` between its deadline and the
next `ExpireDue`. A task is the set of the requests whose patch it contains, so
that two updates from one version are told apart. The engine asks questions
(`Request`), takes up updates (`DrainUpdates`) and finishes while the commands
arrive. `Book` maps the jobs to `QuestionBook`: a question is open until it is answered,
expired or cancelled, its deadline past or not, and the book is closed when the worker
has finished the run. The engine asks as long as it runs, after the coordinator has
cancelled what was pending too: such a question is one of the `strays`. Bounds: `MaxSends`
attempts of each client, one disk failure.

### Contract, Documents, Schema, Manifest, SchemaMeaning

JSON values are records tagged with their type, so that `true`, `1` and `1.0` are
three values that Python's `==` does not tell apart. `Contract` is one start on one
project: resolve the reference (a name, a path, a bare name, the built-in bundle; links
and the trust root included), the static gate, the declared contract, then the two
readings of the manifest by the worker and up to `MaxUpdates` updates, with one edit of
the project anywhere in between. A bundle that was found by its path through a link is
recorded with the target of the link, so that in a project left alone the worker reads
the same file (`Readable`); a link that has *taken the place* of the file is another
matter, see section 5.

What parser and validator compute is the parameter of that module: the operators
`IsManifest`, `Meets`, `DefaultsMeet`, `Obeys` and `IsFinite`. The run gives them
`WellFormed` (`parse_manifest`, module `Manifest`), `ValidateValue` and
`ValidateDefaults` (`schema.py` keyword by keyword, module `Schema`), and `Satisfies`
and `AllFinite`. `Satisfies` (module `SchemaMeaning`) states what a schema means the way
its specification does: every keyword at every place is an assertion of its own, whereas
the code walks the value once; the properties compare the two. These operators recurse
over values, hence they are for TLC only.

What `Contract` assumes of the parameters, TLC evaluates in the run, for all the
manifests that its instance admits runs with and all its inputs:

- `SchemaAssumption`: a value that `Meets` a schema which a standard manifest may declare
  `Obeys` it, and such a schema is not null. This is the soundness of the validator.
- `MembersAssumption`: an object obeys a schema without `enum` and `const` exactly when
  the keywords about the whole hold (`OfTheWhole`) and each member obeys the schema of
  its property. This is what JSON Schema says.
- `ObjectsAssumption` and `DisksAssumption` say that `Objects` contains what is merged,
  and what a project may look like.

### Delivery

The extension is one JavaScript thread, so an action runs from one `await` to the next.
`poll()` is `CallPoll`, `HostLists` (or `ListFails`), then `Resume` and `Heartbeat` in
turn for each run, working on the list it got first; its delivery is the last `Resume`.
Everything else may run between two of these: session events, tool calls, the two
commands, runs that ask or end, and the end of the process, which loses the extension's
memory (`PiDies`). A poll's `since` is a history variable: how many moves there had been
when it was called. A branch of a session holds the entries that record deliveries;
`Reconstruct` reads them again. Requests to the host fail (`Fails`), or are executed
without an answer. Of a run the extension sees whether it is over and whether its resources
are released, in either order: "active", "freed" (released and not over), "ended" (over and
not released), "released" (both). A run without `resource_keys` (`Claimless`) is freed when
it starts. A stop is answered with any state the run may have reached by then (`Later`).

## 3. Runs

Passing runs:

| Run | Instance | Shows |
|---|---|---|
| `loop_safety` | 2 revisions, a write and a read, two different offers, 5 steps, 1 resume, 2 escalations, 2 visits, 2 verifications | each key executed at most once per revision; exclusions earned; success verified; the kernel implements `OperationLedger` |
| `loop_live` | 1 write, 2 revisions, step limit and wall clock off, 3 escalations | `run()` always comes back: the guards alone stop it |
| `journal_safety` | coordinator and engine thread of the worker, a client; 5 lines; a kill between two steps; 2 writes that fail after the line is in the file | journal gapless; the writers implement `EventLog`, so `status.json` never goes back and lacks only what a dead or failed writer left; every `emit` returns |
| `journal_crash` | 2 kills and a failing write, two of them possibly inside a line, a signal, a client that opens late | `status.json` is never ahead of the journal, and current but for events whose writer died or failed |
| `run_safety` | 2 inspectors, slow start, all kills, all reports, blocking calls, inputs taken after the release, with and without a claim | claims quarantined; released means released, strays aside; the run implements `RunLifeCycle`: finished once, a release is never taken back, a claim goes back on a recorded release only |
| `run_live` | 1 inspector, slow start, kills, a controller that keeps no contract and may block | the worker ends unless a call of its main thread never returns or its run was ended under it; the run of a dead worker is shown finished; a client ends no live worker's run unless it was slow |
| `start_safety` | 3 calls, 2 under one key, 2 resources, all after the same one, 2 of the calls may be killed, workers end at any moment | started runs keep their claims; failed starts are undone; the calls implement `RunTable`: one started run per key, all its resources or no start; every call returns |
| `commands` | 2 updates of which one is repeated, a stop, kills, one disk failure | a request counts once and overwrites nothing unseen; rejected means without effect; the kernel works on the recorded task |
| `cognition` | 2 answers to one of 2 questions with one `dedupe_key`, a heartbeat, kills | accepted answers stand alone; finished runs have only strays open; the jobs implement `QuestionBook`; orphaned runs stop |
| `contract` | 171 projects and 81 requests that differ from a sound one in one respect each; 14 values; 2 updates; 3 edits | runs fit their contract; the kernel's inputs do; the two profiles agree; name and path agree; what is admitted loads; nothing outside the bundle is imported |
| `delivery` | 2 sessions with a branch each, a detached run without resources, the self-test's run, both perhaps left by an earlier pi, a question of each, 2 polls, 2 session starts or moves, deaths, 1 command, 1 failure | questions asked, and once; leases renewed; "Safely stopped" is said only when all are released |

A run that finds what the code does against what is said of it: `run_stale`. A
worker killed between appending `RUN_FINISHED` and replacing `status.json` is shown
active for ever, and its claims cannot be cleared
(`host/service.py:300`; `docs/pi-integration.md:211` calls the event log the source
of host state).

The inductive invariants of section 4 hold in these instances too, the type
invariants they contain among them: name them under `INVARIANTS` of the
configuration. They are `KernelInv` (`MCLoop`), `JournalInv` (`MCJournal`), `CrashInv`
(`MCJournalCrash`), `RunInv` and `ViewInv` (`MCManagedRun`), `ReconcileInv`
(`MCManagedRunLive`), `StartInv`, `UndoInv` and `FreshRunsAreNotReleased`
(`MCStartRun`), `CommandsInv` (`MCCommands`), `ContractInv` (`MCContract`) and
`DeliveryInv` (`MCDelivery`).

Why the bounds are enough. Loop: returning to a revision needs two of them, one
exclusion blocking another action needs two keys, a repeat that is not yet a cycle needs
an offer that changes on one revision (the write alone, or both), and every limit is
reached with the values 2 and 3 in five steps; one resume gives a second visit of every
frame after a suspension. The proofs do away with these bounds, and with those of every
other module, for the safety properties; of `Contract`, what parser and validator
compute is left to the run. Journal: two threads that share an RLock and one process
that does not are all the kinds of writer there are, and five lines let each write while
another waits; two failing writes let one process fail behind the other. ManagedRun has
no bound of its own: the coordinator cycles through finitely many states; two inspectors
are the case the comment at `host/service.py:302` has in mind, and they are
interchangeable. StartRun: two calls of one key race for the mapping, the third, of
another key, for a claim one of the first two holds; one of the two and the third may be
killed, so that both a retry and a rival meet what a killed call has left; more are more
of the same, and the proofs have any number. Commands: a request that is repeated once
is executed twice if anything lets it; two updates are needed for one to overwrite the
other, and two answers for one to be accepted beside the other. Contract: depths 2, 3
and 7 (`MaxSchemaDepth`, `MaxValueDepth`, `MaxManifestDepth`) and text of 4 characters
(`MaxTextChars`) instead of the code's larger limits keep values small, and each depth
is exceeded by some input; every rule of a manifest is broken by one project. A project
or a request with two flaws is not tried. Delivery: pi starts in the session that owns
the runs (`Home`); a second session start or move follows (`MaxMoves` counts the first),
after a shutdown, a death or in the middle of a poll; one command is given and one
request fails, each at any moment. Two moves are one too few for a poll that is
overtaken by a move away and back; what is claimed of polls in general, for any number
of moves, is in the proof.

Deadlock. `MCLoop*` check it (the world can always move). The journal stops when
its bound is reached or its processes are dead, a run when it is over, starts and
clients when they have their answers, a contract when its start is refused or its
updates are used up, the extension when its session is over and its bounds are,
so their configurations switch the check off; what it would find is covered by
`EmitsReturn`, `RunIsBounded`, `DeadRunsAreReconciled`, `StartsReturn`,
`OrphanedRunsStop` and `QuestionsAreAsked`.

Fairness. Kernel: weak fairness of `KernelStep`, i.e. outside calls return or
raise and `run()` keeps calling `step()`. Journal: weak fairness of a thread
inside `emit`, strong fairness of its two lock acquisitions, because emits are
short and rare (the coordinator sleeps 25 ms per round) and neither lock is kept
by others without a gap. ManagedRun: the main thread is scheduled, time passes, and a
client keeps inspecting (the pi extension polls every few seconds). Nothing is
assumed of the controller: its `run()` may never return, which is the point of
`RunIsBounded`, and each call the main thread makes itself may be one that never does
(`Block` is a step of `Coordinate`, and nothing follows it). `RunIsBounded` names that
outcome beside the end of the worker. StartRun: every call is scheduled and its
two loops end at their deadlines; workers, operators and other calls need do
nothing. Commands: the coordinator's loop runs and time passes; clients and engine
need do nothing, which is the point of `OrphanedRunsStop`. Delivery: the interval
timer fires and every `await` ends, because `invokeHost` has a timeout and the
self-test gives up after 60 looks at its run.

## 4. Proofs

`LoopProofs` (any revisions, keys, tasks, limits, policies): `KernelInv` is inductive.
It says what each stage of `step()` relies on: from `observe` on nothing is unresolved,
from `offer` on the observation is fresh, from `decide` on the frame belongs to this
observation, and every execution has left its attempt under the observation it ran on.
The last is what `ExecutedOncePerObservation` needs and does not say by itself:
`RecordIntent` refuses what is in `attempts`, so counting calls needs `CallsAreAttempts`
and `NewBeforeExecution`. From it follow type correctness, the three safety invariants
and `KernelKeepsTheLedger`, the refinement of `OperationLedger`: initial states map to
initial states and every step issues, settles, closes or stutters. `OneUnresolved` is
what makes settling a subset of the operations settle all or nothing.

`JournalProofs` (any processes, threads and events; kills, failing writes and signals at
any step) has two inductive invariants. `CrashInv` needs no assumption: of all the frames
of all the stacks one at most is past the flock (`LocksExclude`), it writes what its
recorder knows (`CriticalFramesAgree`), and so `status.json` is never ahead, torn writes
and late openers included. `StatusCurrent` needs no assumption either: an event that
`status.json` does not show is being shown, or its writer has died or failed
(`UnshownAreAbandoned`, inductive beside `CrashInv`). `JournalInv` adds that a recorder
which knows the size of the file has its last event (`RecordersKeepUp`), that after the
line and before the projection only the writer knows that size (`WriterIsAhead`), and that
nothing but a torn write damages the journal. A failing write is why `RecordersKeepUp`
speaks of sizes: the recorder that failed does not have its own line, and finds it when it
resynchronises. `JournalInv` assumes `Ready = Proc`, every recorder open from the start:
`open()` reads the journal and its size without the lock, and for a process that opens
while another emits these properties are false (section 5). Results: `JournalTypes`,
`StatusNeverAhead`, `StatusCurrent`, `JournalReplayable`, and `StatusMonotone`, the
action property that `status.json` never goes back. `JournalReplayable` holds for any
number of kills and failures as long as none has cut a line short. `JournalKeepsTheLog` is
the refinement of `EventLog`, under the same assumption and `MaxTorn = 0` (a torn line is
no event, and what becomes of it is in section 5): `AppendLine` is `Record`, `Project` is
`Show`, a kill or a failure in between is `Vanish`, a line whose write raised is `Omit`,
and everything before the append stutters. It needs that the frame that appends finds
nobody between journal and projection (`ProjectsAlone`, from `LocksExclude`), and that what
it writes is the whole journal (`RecordersKeepUp`, `CriticalFramesAgree`).

`ManagedRunProofs` (any controller, any set of inspectors, kills at any moment):
`RunInv` is inductive. Its first half, `LifeCycleInv`: the copies of the state (`seen`,
`shown`) know of no release the journal does not have, the engine is off until the
controller is loaded, a run about to be finished has a status to finish with, and claims
are quarantined. Its second half, `ReleaseInv`: a confirmation means that no input is held
*and none can be taken any more*, but for strays (`Settled`), which is what survives the
steps between the confirmation and the record of it. The proof rests on four lemmas about
single steps: `JournalSteps` (history only grows and every copy is one the journal has or
had), `DeviceSteps`, `ProcessSteps` and `ReleaseSteps` (where a recorded release
comes from). Results: `TypeCorrectness`, `ClaimsStayQuarantined`, `ReleaseIsReal`,
`FinishedRunsStay`.

Two more invariants rest on `RunInv`. `ViewInv`: a worker past `WORKER_STARTED` is not
shown starting, and a run that is shown finished is. `ReconcileInv`: an inspector suspects
a worker that is alive only while its run is shown starting, which ends within the grace
unless the worker is slow; hence `LostRunsAreReconciled`. `RunsKeepTheLifeCycle` is
the refinement of `RunLifeCycle`: one lemma for each kind of step of the abstract run
(`UnseenSteps`, `VanishingSteps`, `ReleasingSteps`, `UnclaimingSteps`, `FinishingSteps`,
`StoppingSteps`), to which each action of the worker, the inspectors and the operator is
led. It needs `ViewInv` because a client acts on what it was shown, and a run may end
between its look and its event. None of these results assumes anything of the controller
but that its report of a release is true, and none excludes a slow worker or one that is
blocked.

`StartRunProofs` (any number of calls, keys and resources; kills and failures at any
step, workers that end at any moment): `StartInv` is inductive. A call that got through
the exclusive creation owns its mapping until it abandons it, and a spawned or started
worker keeps it owned for ever unless it was overtaken (`MappingIsOwned`); a run holds its
claims from their acquisition until its release is recorded or, once it is over, its own
call takes them back (`ClaimsAreHeld`); and the two other parts tie worker and files to the
step of the call, because the `except` clause decides by the worker whether anything is
undone. They also show that only an overtaken run can be taken for one that never started.
`StartsOnce` follows since a mapping names one call, which says nothing of mappings itself
and is not inductive. `UndoInv` adds that a call which is not over knows all it has left on
disk: what `claims_acquired` does not cover does not exist, unless the call could not write
all its claims. Results: `OneWorkerPerKey`, `ClaimsOutliveStarters`, `FailedStartsAreUndone`.
`StartsKeepTheTable` is the refinement of `RunTable`: the step in which the worker starts is
`StartUp`, which needs that no other started run holds a resource of it, the record of a
release is `LetGo`, a run that is over before its call has come back is `Overtake`, and the
mapping such a call abandons is `Forget`. A run must not start after its claims were given
away, hence `FreshRunsAreNotReleased`.

`CommandsProofs` (any clients, requests, questions, attempts and kills): `CommandsInv`
is inductive. `MailIsOrdered` says that a file of the inbox is an attempt its sender has
made, that no attempt is there twice, and that the last one is there only while its
sender waits for it or has given it up. Thereby an acknowledgement is heard by the
sender of that attempt alone. `FirstTries`: a first attempt has no effect before its
command is taken, and none when it is refused. `UpdatesAdvance`: a recorded update
started from a version that is past. `AnswersSettle`: a completed job has one answer,
that of the client that was told so. `FinishAsksNothing`: after the cancellation only
strays are pending, and an engine that can ask them has outlived the grace. Results:
`CommandTypes`, `CountedOnce`, `RejectionsHold`, `TaskRecorded`, `AnswersStand`,
`FinishedRunsQuiet`. `JobsKeepTheBook` is the refinement of `QuestionBook`, with one
lemma for each thing that can happen to a question (`JobsAreAsked`, `JobsAreAnswered`,
`LateJobsExpire`, `PendingJobsAreCancelled`, `RunsFinishQuietly`) and one for the
commands. It says what no invariant of single states does: what is decided is not
decided again, a question that is late and that nobody has noticed still occupies its
key and its place among `MaxPending`, and a late answer decides nothing but that. In the
run both questions have one key, so that `MaxPending` never binds; the proof has any
keys and any limit.

`ContractProofs` (any projects, requests, updates and edits, and any parser, validator and
meaning of schemas that satisfy the assumptions of section 2): `ContractInv` is inductive.
As long as nobody edits the project, the bundle is the one on disk (`Found`) and has
passed the static gate (`Admitted`), the run and each update have passed its schemas
(`Enforced`), the worker has read the same manifest again (`ReadsTheSame`), and the
controller is configured with what was checked (`Configured`); edited or not, inputs are
what somebody gave. `KernelInputsFit` is part of it, since the kernel's inputs are merged
from all that was ever sent, and is inductive only because merging two objects that obey a
schema without `enum` and `const` gives one that does (`MergeObeys`, from
`MembersAssumption`). Results: `RunsFit`, `KernelKeepsToTheSchema`, `AdmittedLoad`,
`AddressesAgree`, which needs no invariant and holds of every project, and
`ControllersAreSelfContained`, the action property, whose proof says nothing of earlier
steps: that is why the property survives any edit. The proof attempt for `AdmittedLoad`
corrected the model: a bundle found by its path through a linked `bundle.json` was read
again under the link, whereas the code records where the link leads.

`DeliveryProofs` (any branches, sessions, runs, questions, calls of `poll()`, moves,
deaths, commands and failures): `DeliveryInv` is inductive. What the extension remembers
is what the branch it is on records (`MemoryIsTheBranch`), at most one call is under way
(`TypeOK`), a poll that no move has overtaken works on its own branch and on what is not
yet delivered there (`PollsAreOrderly`, `CollectedIsNew`), and a stop-all accounts for
every run it has seen, released or not (`StopAllAccounts`). Results: `DeliveryTypes`,
`SafelyStopped`, `QuestionsAskedOnce`. The proof attempt for the last corrected the
property: it used to speak of polls that end in the branch they began in, and that is
false when a move away and a move back overtake the poll, which no run with two moves
reaches.

Assumptions are the named `ASSUME`s of the modules, evaluated by TLC in every run; the
provisos above (`Ready = Proc`, `MaxTorn = 0`) are constants whose values each run names.

Only model-checked: `StrictImpliesLegacy` and `StaticDefaultsSuffice`, and with them the
soundness of the validator that `ContractProofs` assumes, because `Schema` and `Manifest`
recurse over values with RECURSIVE operators, which cost the prover its SMT backend, and
induction over data is out of its reach anyway; and all liveness (`EveryRunReturns`,
`EmitsReturn`, `RunIsBounded`, `DeadRunsAreReconciled`, `StartsReturn`,
`OrphanedRunsStop`, `QuestionsAreAsked`, `LeasesAreRenewed`), because ENABLED and fairness
are. Every other safety property is a theorem.

## 5. Divergences seen without a run of their own

- An observation that fails after a completed write is counted as NO_PROGRESS
  (`core/loop.py:360`), although `core/guards.py:11` speaks of effects seen to be
  missing. `PostObservation` has the case.
- Verdicts UNKNOWN are not limited by `max_verifications` (`core/loop.py:542`);
  `docs/design.md:51` (I10) gives a limit for verification. `Verify` has the case.
- A final `resources_released=False` after a successful `request_stop` is ignored:
  `release_confirmed` is never cleared (`host/service.py:520`), while
  `docs/pi-integration.md:128-130` lets the final result speak. `EngineReturns` has
  the case (`engine = "denied"` with `confirmed`).
- `LoopController.request_stop` releases on the coordinator thread while a step
  may be executing (`host/runtime.py:309`): what that step takes is held by a run that is
  recorded as released. `EngineActs` after `Hush` has the case (a stray);
  `ReleasedMeansReleased` excepts it.

Kernel and journal:

- The CYCLE guard escalates and suspends without comparing the number of
  escalations with `max_guard_escalations` (`core/loop.py:240`), so it never becomes the failure
  of `docs/design.md:25-26,32`. `BuildFrame` has the case; it can be resumed any
  number of times.
- After a kill or a failing write in the middle of a line the next append joins the two
  (`host/store.py:84`), and the journal cannot be loaded again: `JournalIsReplayable`
  fails with `MaxTorn > 0`, although a truncated last line by itself is read well.
- `ManagedRecorder.open` reads the journal and then its size, unlocked
  (`host/store.py:50`): an event in between is never loaded and its number is
  repeated. `JournalIsReplayable` fails when a process opens while another emits
  (`Ready` without it).
- `on_signal` emits (`host/service.py:497`): a signal during `emit` on the main thread
  blocks the worker on its own flock. `EmitsReturn` fails with `MaxSignals > 0`.
- A write that fails in a live process leaves its line in the journal and the old
  `status.json` (`host/store.py:83-89`): clients see the event only when somebody emits
  again, although `emit()` raised and its caller may have reported a failure. `StatusIsCurrent`
  and `EventLog` name these events (`abandoned`, `Omit`).
- A client that inspects a slowly starting run declares its worker dead after 30 s
  (`host/service.py:297`); the worker then lives without any limit, for a run that is over
  takes no stop, lease or maximum runtime (`host/service.py:473`). `OnlyLostRunsAreReconciled`
  and `RunIsBounded` except it (`slow`).
- `snapshot()`, `update()`, `request_stop()` and the loading of the controller run on the
  coordinator's thread without a timeout (`host/service.py:480`, `:504`, `:559`, `:665`): one that
  never returns keeps the worker for ever, its hard maximum runtime and stop grace
  notwithstanding. `RunIsBounded` excepts it (`Block`).

Starts and commands:

- `start_run` reads the status, then polls the worker (`host/service.py:254`). A worker that
  started and was gone in between is taken for one that never started: its resources are
  recorded as released, its claims are freed, the exception removes the mapping, and a retry
  starts a second worker, whereas `docs/pi-integration.md:189` says that a key "maps to exactly
  one run". `StartsOnce`, `RunTable` and `StartedRunsKeepClaims` except such runs (`overtaken`):
  the damage ends with the run itself, since its worker is gone.
- An `OSError` while the claims are written (`host/service.py:945-955`) leaves those written
  so far, of a run that will never exist and that nobody can release:
  `claims_acquired` (`host/service.py:185`) is not set yet. `FailuresAreUndone` excepts them
  (`unwritten`); `docs/pi-integration.md:191` says "declared atomically".
- A starter that is killed leaves its mapping unwritten or its claims unreadable for ever
  (`host/service.py:180`). `FailuresAreUndone` speaks of failures only.
- A command to a run whose worker has no pid yet, or is dead, is answered with the status and
  `ok: true` (`host/service.py:402`) and never executed (`CheckStatus`, "inspected").
- An update is accepted by the controller before it is recorded (`host/service.py:665`,
  "validate/accept before committing the event"): when the record fails, kernel and
  journal disagree, and the sender is told it was refused. `KernelTaskIsRecorded` and
  `RejectedMeansUnchanged` except such requests (`torn`).
- A controller that asks for cognition after the coordinator has cancelled the pending
  jobs leaves one on a finished run (`host/runtime.py:104`), if its engine has outlived the stop
  grace. `FinishedRunsAskNothing` and `QuestionBook` except these questions (`strays`).

Contract:

- The kernel merges the inputs of an update and never drops one (`core/reduce.py:55-58`), while
  the journal's task replaces them (`host/reduce.py:82`). What the kernel works on may
  then violate an `enum`, a `const` or a closed set of properties of the inputs as a whole;
  `KernelInputsFit` claims only the rest.
- The worker reads the manifest twice, after the start has read it once. When it is edited in
  between, updates and configuration are checked by another contract than the one "the run was
  started under" (`host/service.py:873`), and the configuration is not validated again. A
  `bundle.json` replaced by a link is refused by the first reading and followed
  by the second: updates are then not checked at all, while `host/service.py:459` expects the load to fail.
- Inputs that are no object pass for a bundle without `inputs_schema` and end the
  engine in `dict()` (`Contract`, "crashed"). A `config_schema` of type array passes the static gate with an empty
  configuration, and no start can succeed.
- The token scan of a by-name bundle whose directory is a link cannot begin, and only
  warns (`TokensSeen`).

pi extension:

- "Safely stopped" may be said of a run that still runs: `/jev-stop-all` looks at
  `resources_released` alone (`extensions/pi-jev.ts:634`), and a stop may be answered after 5 s
  while the run is stopping with its release recorded (`host/service.py:434-444`, `:574-592`), or be
  about a run without `resource_keys`, which is released from its start (`host/reduce.py:49`). A
  run that is still starting has no pid, and its stop is answered without asking it anything
  (`host/service.py:402`). `SafelyStoppedIsReleased` claims what the test shows, and no more.
- `/jev-stop-all` has no `catch`: a stop that fails ends it without a message and leaves the
  other runs alone (`extensions/pi-jev.ts:627`, "Stop every active Jev Loop run", :615;
  `docs/pi-integration.md:60`). `StopAllThrows` has the case.
- The question of the self-test may reach the agent: a poll lists the run before it is suppressed
  (`extensions/pi-jev.ts:554`), or collects from its old list after the suppression ended
  (:608), or the answer to the start is lost and the run is neither suppressed nor stopped
  (`SelfTestStartFails`).
- A poll that a change of session overtakes delivers into the new branch, possibly one of another
  session, or once more; one that is overtaken by a move away and back asks again what the branch has been
  asked in between. `AskedOnce` claims only polls that no move overtakes.
  `docs/pi-integration.md:161` says "to the owner session", :213 that reloads "do not replay
  actions".

## 6. What is not modelled, and what comes next

Not modelled. The kernel's event stores (one writer, nothing to interleave), the
diagnostic controller (one of those that `ManagedRun` lets do anything),
policies, verifiers and adapters (behind ports that answer anything in `Loop`),
command line tools, doctor, demo and examples (argument parsing and printing),
conformance and scaffold (development tools). Of bundle validation: the bounded walk
over the directory with its budgets and the fingerprint; `Contract` has only whether
the scan sees a template token. In `ManagedRun` and `Commands` the contents
of snapshots and the sizes of results are left out, and the schema of a result is
one bit.

Next, in order of importance:

1. `Commands` composed with the life cycle of `ManagedRun` (`RunLifeCycle` is the interface)
   rather than with its summary, and several runs of `RunLifeCycle` over one `RunTable`.
2. The readers of the journal over `EventLog`: what a client that reads page and log one
   after the other may conclude from both.
3. The walk of bundle validation: what its budgets may leave unseen.
