# A verification project for AnsysConnector

AnsysConnector is a local bridge that opens, uses and closes Ansys product
sessions (Fluent, Workbench, Mechanical) for an MCP server and a CLI, runs plans
of actions, and runs long Fluent workflows in worker processes. What is hard in
it is not the physics: it is several processes and threads that share files
without a server between them, slow product calls made outside every lock, and
documents that are accepted hours before the last thing they ask for is done.

Paths below are relative to `src/src/ansys_connector/`. `PROJECT.json` maps every
definition to the lines it translates.

## 1. Inventory

| Component | State it keeps | Operations | Hard behaviour | What makes it correct |
| --- | --- | --- | --- | --- |
| File lock (`core/execution/broker.py`) | a lock file: absent, empty, or naming its owner's pid | acquire (create exclusively, read the owner, break a stale lock, time out), release | crash while holding; two breakers of one stale lock; check-then-unlink; a branch that skips the deadline | exclusion; a waiter returns; a dead owner's lock is broken; the file goes with its owner |
| Session store (`core/execution/session_store.py`) | `_sessions` in each process, `sessions.json` shared by all, a re-entrant lock per store and one per managed session | open, list / get / describe, execute, close, close_all, expiry at the start of every call | threads in one store, several server processes, launches and shutdowns outside the locks, expiry racing close, crashes that leave orphans, a lock that times out half-way | limits are kept; one user of a product at a time; nobody uses a closed product; no product is lost; the file tells other processes the truth; every call returns |
| Managed session and policy wrapper (`core/execution/managed_session.py`) | status, handle and expiry of one session | create_pending, touch, can_execute, execute, close | its fields are written both inside and outside the store's lock; it validates again what was validated before | the second check gives what the first gave |
| Workflow service and worker (`workflows/templates/runtime.py`, `worker.py`) | `run.json` (status, phase, progress, summary), `run.lock`, `events.jsonl`; the worker's product session | start, list / get / wait, cancel; mark_starting / running / terminal, merge_summary; the chunk loop | readers take no lock while writers truncate and rewrite the file; cancellation is cooperative; crashes anywhere | the status follows a life cycle; a cancel takes effect; "succeeded" and "cancelled" tell the truth; no update is lost |
| Plan executor (`core/execution/executor.py`) | the plan's sessions, results, labelled results | call, run_plan | lazily opened sessions; failures of a launch, a step or a close; an interrupt at any point; references between steps | what was opened is closed, but for an interrupt during the closes; "ok" means all of it; it stops where it should; a reference means one step |
| Plan loader (`workflows/plans/`) | none (pure) | load_plan | labels, legacy keys | labels are distinct |
| Policy (`core/policy/`) | none (pure) | prepare_action, path containment, profiles | normalisation of paths; validators that rewrite what they check | nothing reaches a product that the profile or the roots forbid |
| Workflow templates (`workflows/templates/fluent.py`, `models.py`) | none (pure) | load_spec, compile_program | the order of operations, chunks, checkpoints, defaults of outputs | what is accepted can be carried out; no output overwrites another |
| Product adapters: launch (`products/*/adapter.py`) | `_FLUENT_LAUNCH_LOCK` and the lock file of the machine; nothing for the others but the list of processes an attempt began with | inspect, open_session, close | both locks held over several attempts, with a deadline for waiters; a clean-up that takes every process that appeared for its own | Fluent is launched by one call at a time; every call returns; a failed launch leaves no process, and ends none that was there before |
| Fluent session (`products/fluent/session.py`) | none of its own: the product keeps what calls set | execute, close | an action is several requests, any of which may raise; contours and the picture keep their state between images | each picture shows what was asked for; what was done before a failure is known |
| Environment and registry (`core/environment.py`, `registry.py`) | none (pure) | detect_environment, get, statuses | none | the version asked for and no other |
| MCP server (`interfaces/mcp/server.py`) | `_STORE` and `_WORKFLOW_SERVICE`, built by the first tool that asks | one tool for each operation | a double-checked lock, around a constructor that may raise | a process has one store, which is closed at exit |
| CLI (`interfaces/cli/main.py`) | none | call, run-plan, and the workflow commands | what an exit status says when steps were skipped, closes failed or somebody interrupted | the status tells the truth |
| Adapter contracts (`products/base.py`) | none | data classes, abstract methods | none | nothing worth checking |

How they interact. The MCP server holds one session store per process; its tools
call the store from a pool of threads. The store opens a session through the
registry's adapter and wraps it (`open_managed_session`); every `execute` then
passes the policy. Stores of several processes meet only in `sessions.json`,
which each rewrites in full under the file lock. `start_workflow` loads and
compiles a template and spawns a worker; starter, worker and clients meet in
`run.json` and `run.lock`. The worker and the plan executor open sessions with
`open_managed_session` themselves, without the store. Fluent's adapter launches
under another file lock, and Mechanical's under none. The CLI runs the plan
executor, or a workflow service of its own.

## 2. Modules

| Module | What it is | Lines of argument |
| --- | --- | --- |
| `Mutex` | abstract: whoever enters finds it free | refined by `FileLock` |
| `FileLock` | one action per system call of `exclusive_file_lock`, `_read_lock_metadata`, `_lock_is_stale` | `FileLockMC`, `FileLockProofs` |
| `SessionStore` | one action per block under the store's lock, or per product call outside it | `SessionStoreMC`, `SessionStoreProofs`, `SessionRecordProofs` |
| `RunLife` | abstract: the life cycle of a run's status | refined by `WorkflowRun` |
| `WorkflowRun` | the starter, the worker and the clients of one run; an update of `run.json` in three visible steps | `WorkflowRunMC`, `WorkflowRunProofs` |
| `Policy` | operators only: paths, action tables, validators, `PrepareAction` | `PolicyProofs`; used by `PlanRun` and `FluentSession` |
| `PlanRun` | `load_plan`, `run_plan` and `call`, extending `Policy` | `PlanRunMC`, `PlanRunProofs` |
| `Cli` | the commands `run-plan` and `call`, extending `PlanRun`: what is printed and the exit status | `CliMC`, `PlanRunProofs` |
| `FluentSession` | the requests a Fluent session makes of an action, and what the product keeps of them | used by the next |
| `FluentTemplate` | `load_spec`, `compile_program` and the calls the worker makes of the program, extending `FluentSession` and `Policy` | `FluentTemplateMC`, `FluentTemplateProofs` |
| `ServerThreads` | constants: the server processes and their threads | used by the next two |
| `McpServer` | `get_store`, check by check | used by `OpenSession` |
| `AdapterLaunch` | from `detect_environment` to a running product, for the three adapters | used by `OpenSession` |
| `OpenSession` | the tool `open_session`: `McpServer`, then `AdapterLaunch` | `OpenSessionMC`, `OpenSessionProofs` |

Each layer uses what the one below it establishes: `SessionStore` takes its blocks
as exclusive because of `FileLock` (where that fails, see section 5), `WorkflowRun`
takes `run.lock` as a mutex that a dead owner does not keep, and
`FluentTemplate` lets the worker run undisturbed because `WorkflowRun` has
looked at what disturbs it. `AdapterLaunch` takes the lock file as `FileLock`
leaves it when nothing goes wrong but a death: taken by one, and free again when its
owner has left or died. `OpenSession` leaves the store's own blocks, before and
after the launch, to `SessionStore`.

### FileLock

The file at the path carries its creator's identity, so that an unlink that hits
another file than the one it was meant for is seen. A thread is at one of the
places of `pc`; opening a file for reading and closing it again are separate
steps, since a handle keeps Windows from unlinking. Constants switch the
platform (`Windows`) and what may go wrong: `Crashes`, `ProbeMisses`
(`pid_is_running` calls a live process dead: `os.kill(pid, 0)` raises for reasons
other than death), `UnlinkDenied`, `WriteFails`, and `Stalls` (a live creator
takes longer than `stale_after` to write its pid).

### SessionStore

A process keeps between blocks only the records it owns; the others are rebuilt
from the disk by every sync. So each id has one status in memory, its owner's, and
one on disk. What a process sees is computed (`Listed`, `StatusAt`), as
`_sync_from_disk_locked` does. Launch, execution and shutdown of the product, and
the steps that lie between releasing one lock and taking the next, are actions of
their own; `LockTimeout` ends a call at any block. `Cleanup` collects the ids that
look expired and `Expire` judges each again, as the code does.
`OrderlyCallers` restricts callers to the ids an `open` has returned, and
`close_all` to the time when no open is under way; `LaunchWithinTTL` keeps a
launch shorter than the time to live; with `FileMayBeLost`, `sessions.json` may be
gone or unreadable, which the code takes for empty.

### WorkflowRun

`_update_record` is `ReadLocked`, `Truncate`, `Write`; between the last two an unlocked
reader finds an empty file and raises. `Mutate` gives the update each
place makes. Exceptions are followed to where they are caught (`Unwind`), through
the worker's handlers, which read the file again without the lock, to its
`finally`. The program is a constant: any sequence of operations.

### Policy, PlanRun, FluentTemplate

A parameter is a value with its Python type; text is a sequence of the names a
path is cut into, absolute or relative. Where Python takes one value for another, so
does the model: a 1 is in `(None, True)`, and `enabled` is anything truthy. `PrepareAction` is either
`Refused` or `Accepted` with the parameters the product gets. `PlanRun` begins
with a document, which `load_plan` takes or refuses, then steps through it:
`Begin` or `Refuse`, `Open` unless the session is there already, `Execute` with the
second check, `Fail`, and `Close` for each session. Ctrl-C may come at each of these
places: `InterruptLoad`, `InterruptNext` (between steps), `InterruptOpen` (the launch may be
over, and its session not yet recorded), `InterruptExecute` (the action may be carried
out already), `InterruptClose` (no further close is made, since the loop catches
`Exception` only) and `InterruptAnswer`; the history variable `interrupted` keeps where
it came. `FluentTemplate` begins with a
document too; when it is accepted, the calls the worker will make are laid out
and each passes the policy when its turn comes.

TLC needs no bound on the documents but the set itself; a proof needs to know what
JSON and YAML give. So both modules assume of `Documents` only the shape
(`DocumentFormed`: lists where there are lists, text with its names in a sequence,
integers where there are integers), never that a document is valid; and `CwdAssumption`
says that the working directory is resolved, as it is wherever the code reads it.
`NumbersAssumption` says of the names in a checkpoint's template that two numbers make two
names, none of which is another output's default name; TLC evaluates it for the names and
totals of the run. Numbers are put in in full: a format that cuts them off, and a name in
which text around the field makes up for the number, are not modelled.
`Over` is TLC's `@@` and `Resolve` a recursive function, so that the provers can open both.

### FluentSession

`Requests` cuts an action into the requests that `FluentSession.execute` makes, in
their order; `Carry` has the product do the next, `Raise` has it raise, which
drops the rest of the call, and `Swallow` is the exception the code does not look
at. The product is modelled as far as one request changes what a later one gives:
how much was solved, the contours with the state each was given, the one on
display as it was when it was displayed, the picture's state, and what each written
file holds. A contour is created and displayed under its name, but its state is
set on what the path `contour["<name>"]` leads to: `InPath` is the name that is read from
that text, in which "/" has become "." and backslash escapes are YAML's (`Escaped`), and
`Unquotable` are the names that break it.

### Cli

`CliNext` wraps the executor's `Next` (`Works`) in what `main` does before it
(a command line that `argparse` refuses, a plan that cannot be read) and after
it (a result and the status that goes with it, an error, an interrupt nobody
catches, for which a shell reports 130, whatever had been printed by then). The error of a
direct call's close takes an interrupt's place.

### McpServer, AdapterLaunch, OpenSession

`McpServer` has one action per check, lock and assignment of `get_store`; building the
store may raise. `AdapterLaunch` decides availability from the roots that exist, the
executables below them and the modules that can be imported, and then has one
action per lock, attempt, failure, delay, listing and `taskkill`. Time passes in
minutes (`Tick`) and only where Fluent's lock needs it: a launch lasts at
most its `start_timeout`, a waiter waits at most `LockTimeout`, and everything else
is immediate. `tasklist` may fail, which the code takes for an empty list, and
`taskkill` may fail; threads that met this are `blind`, and properties about
processes leave them out. Somebody else may start Mechanical (`UserStarts`), a process
may end by itself, and a server may die at any step.

## 3. Runs

`expect: violation` runs check one property that the code's own texts state and
the code does not keep (section 5).

| Run | Question | Bounds, and why they are enough |
| --- | --- | --- |
| `lock_windows` | Does the lock exclude on Windows, with everything going wrong at once, and implement `Mutex`? | Three threads in two processes: the two callers of one process meet each other's pid, the third is a foreigner. All flags on. |
| `lock_posix` | Does it exclude on POSIX until a process dies, does its file go with its owner, do waiters return, is a dead owner's lock broken? | The same three threads, with fairness; crashes on. |
| `lock_two_breakers` | Is exclusion kept across a crash on POSIX? (No.) | Three processes: one to die, two to break. |
| `store_threads` | Do threads that use one store as intended keep limits, lose nothing, and get the truth, even if `sessions.json` is lost? | Two threads of three calls each, three ids for two adapters, limits two and one: both limits can be hit, and expiry, close and open overlap; the file may be lost at any time. |
| `store_processes` | Do two processes agree on the sessions in use? | One thread each, three calls of open, execute or close, limit one; either may die, and a shutdown may fail. |
| `store_unruly` | Whatever ids are named, is a product used by one thread and only while it lives, and does every call return? | Three threads, one call each, so that expiry, close and execute contend for one record, or for listing it; lock timeouts; launches longer than the time to live. With fairness. `close_all`, a loop of closes over a fixed set, is in `store_threads`. |
| `store_close_opening` | Does `close` tell the truth of a session still being opened? (No.) | Two threads, two calls each. |
| `run_unruly` | Does a run keep its life cycle and report the truth with crashes, failures, lock timeouts and two clients? Does the worker stop, and are those who wait answered? | A program with each kind of operation: once, chunks that do not divide the total, no chunk size, a total of nothing. Two clients, of one call each: a cancel meets a poll, a wait or another cancel. With fairness. |
| `run_endless_wait` | Does every wait end when nothing fails? (No.) | Three clients of one call: one waits, two cancel, so that the file is truncated twice. |
| `plan` | Does a plan do all or say where it stopped, close what it opened, and keep the policy, and does the exit status tell? | Every pair out of 70 steps with three session descriptions, every triple out of 5 with each way of naming sessions, and the steps as single calls; files and pictures inside and outside the roots, by name, by result and by session; Ctrl-C once or several times at any point: while loading, between steps, during a launch or after it, during an action, during a close, and while the answer is printed. |
| `template` | Is what `load_spec` accepts carried out, in order, to places of its own? | About 7,000 documents: every combination of the values that meet in one place (chunk size with total and checkpoints; the three outputs with each other; checkpoints named by the step, by the chunk, or for good; sources; images with reports; three pictures of two kinds, with and without contours, states and names, some of which a path does not carry as they are), valid and invalid; the product may raise at any request. |
| `launch` | Is there one store in a process and one launch of Fluent on the machine; does Mechanical's clean-up end what it should and nothing older; does every call to open a session return? | Two servers, three threads, two of them in one server: those two contend for the process's lock, the third for the file. Start timeouts below, at and above the default, and one or two attempts, so that a waiter may give up. Mechanical in two servers, and connecting to one that runs, with two process ids. Each server may die. |

What the properties say is in the comment above each. Every property of a passing
run has at least one mutant: a plausible bug in a mapped definition that
the run then reports, so none of them holds by the shape of the model alone.

Symmetry is used where ids are interchangeable (`SessionStore`) and only in runs
without liveness properties. Deadlock is not
checked: bounded calls are used up, plans and runs end, and processes die, and
then nothing remains to be done. What should not wait for ever is stated as a
liveness property instead.

Fairness. `FileLock!FairSpec`: a thread inside acquire or release takes its next
step, and the clock passes its deadline; the `with` block itself may last for
ever. `SessionStore!FairSpec`: a thread inside a call runs and each product call
returns. `WorkflowRun!FairSpec`: whoever is in the middle of something goes on.
`OpenSession!FairSpec`: a thread inside a call goes on, what it asks of the
machine returns, and time passes.
All are weak fairness: an operating system that runs runnable threads is enough,
and no lock is assumed to be fair. Nobody is ever obliged to call, to time out,
to fail or to die.

## 4. Proofs

`tlapm` checks all theorems for every value of the constants.

**FileLock** (`FileLockProofs`). Assumed: `PidAssumption`, `FlagAssumption`,
`NoFileAssumption`.
- `TypeCorrect`: `TypeOK`.
- `WindowsExclusion`, `WindowsRefinement`: if `Windows`, exclusion and the refinement
  of `Mutex` hold whatever else may happen. `TypeOK` and `MutualExclusion` are not
  inductive; `PinnedInv` says why they hold: the only handle open for writing is
  that of the file at the path (`HandlePinsPath`), and whoever is inside has it open
  (`InsideHasHandle`), so nobody can remove that file.
- `CalmExclusion`, `CalmRelease`: on POSIX nothing pins the file, and exclusion rests
  on nobody judging a live owner's file stale. Under `Calm` (no missed probes,
  no failed writes, no stalls), `CalmInv` says that until a process dies the file at
  the path is the owner's (`OwnerHasPath`), names its pid or is about to
  (`FileIsNamed`), and nobody is at the line that unlinks a stale lock
  (`NobodyBreaks`).

**SessionStore** (`SessionStoreProofs`). Assumed: `StoreAssumption`, in which every
flag is free: the theorems cover lock timeouts, failing shutdowns, crashes, slow
launches and callers that name any id.
- `TypeCorrect`: `TypeInv` is `TypeOK` with what a thread's place says of its call and
  of the id it is about (`PlaceFitsCall`, `ArgNamed`).
- `OneUser`, `LiveUse`: `UseInv` says that whoever calls a product holds its
  record's `managed.lock` in the process that owns it, and the record has its
  handle (`ClaimsHold`); that expiry shuts down only what its process owns
  (`ExpiresOwn`); that a handle in memory belongs to a live product (`HandleLive`);
  and that an id being opened is its opener's alone (`OpenerAlone`). Expiry and close
  drop a handle only under that lock, which is why an execution is never shut down
  from beside.

**The store's records** (`SessionRecordProofs`). Assumed: `StoreAssumption`, and of each
theorem the flags named with it. The invariants rest on `TypeInv` and `UseInv`.
- `DiskTruth` (no flag): `PastInv` says who is past what (what has a handle was
  returned by its open, what is being opened was not, a tried shutdown has dropped
  the handle), and `FileInv` that an execution keeps its session busy, that who shuts
  one down has announced it, and that the file says only what its owner says too.
- `MemoryDisk` (`~FileMayBeLost`): the other direction, `ActiveOnDisk`. A lost file leaves
  memory ahead of it.
- `CapacityIsKept` (`OrderlyCallers`, `LaunchWithinTTL`, and either `~FileMayBeLost` or
  `OneProcess`): a reserve counts what it sees, its own memory and the file; that this
  is all there is follows from `ActiveOnDisk`, or from there being one memory. `PendingKept`
  keeps a reserved place reserved until its open is over, and `FinitelyMany` makes
  the count one. Without any of the three the property fails (section 5).
- `ProductsKept` (`OrderlyCallers`, `~LockTimeouts`): a handle leaves memory only by a
  shutdown (`HandleListed`), and a live product has one or an opener (`LiveReachable`).
- `ClosedIsClosed` (those, and `OneProcess`): `ClosedForGood`. A second process
  may drop the record of a session that is still being shut down, and its owner's
  next write restores it.
- `ExpiryIsDue` (`~CloseMayFail`): what an expiry has in hand stays due (`DueInHand`).

**WorkflowRun** (`WorkflowRunProofs`). Assumed: `RunAssumption`; the program and
the number of clients are arbitrary.
- `TypeCorrect`: `TypeOK` with `UpdateUnderWay` (an update is made at a place that
  makes one) and `OperationInHand` (the worker's index is within the program
  where it is used, and a chunk is begun only while something is left).
- `RunRefinement`: `WorkflowRun` implements `RunLife`. `LifeInv` has four parts:
  each actor is at a place of its own kind (`EachAtItsPlace`), whoever is in an
  update holds the lock and has in hand what its mutator makes of the status as it is
  (`HolderKnowsStatus`), the record is there before anyone works on it
  (`RecordComesFirst`), and the worker's place bounds the status
  (`WorkerKnowsStatus`).
- `CancelEffect`: after an accepted cancel at most one more chunk is begun;
  `CancelInv` says that an accepted request stays on record until the run ends, and
  that a worker past its check has begun none since.
- `UpdatesKept`: `RecordInv` says that whoever is in an update has in hand what its mutator
  makes of the record as it is, the record and not only its status, and that the
  worker knows every checkpoint on record.
- `SuccessIsWhole`: `WorkInv` counts what the worker has had done, operation by operation
  and chunk by chunk, and which checkpoints it knows of; that the chunks of an
  operation make `Chunks(o)` is arithmetic (`ChunkCount`).
- `CancelledIsTrue`: `ToldInv` says that the progress on record is that of the work done
  wherever the worker may find a request to cancel.

**Policy** (`PolicyProofs`). Assumed: nothing; the theorems name the shape of what they
are about (`SessionFormed`, `ParamsFormed`).
- `ResolvedIsProper`: no "." and no ".." is left by `Resolve`, however long the path. This is
  an induction over the recursion, done without the library's induction theorems: the
  set of the numbers where the claim fails, if it is not empty, has a least
  element (`LeastNumber`), which is neither the first nor one after a good one
  (`CountingUp`).
- `AcceptedAgain`: what `prepare_action` made of the parameters it accepts again, and
  leaves alone, in the context the managed session builds of the same settings; by cases
  of the validators that rewrite. It rests on resolved paths resolving to themselves.
- `AcceptedKeeps`: an accepted raw action was opted in to, and every file that an
  accepted action names lies under a root.

**PlanRun** (`PlanRunProofs`). Assumed: `NameAssumption`, `DocumentsAssumption`, and
`CwdAssumption` for what concerns paths.
- `TypeCorrect`, `OkIsAll`, `StopsRight`, `NothingLeft` follow from `PlanInv`: the plan is
  what the loader made of the document (`PlanKnown`), the variables have their
  shapes (`Shape`), the step in hand and it alone has no result (`StepInHand`), every
  step before it allowed going on (`GoesOn`), as long as nothing failed the
  products did the steps in their order (`Done`), a live product is one of the
  executor's sessions, or was lost by Ctrl-C during its launch, and at the end there is none
  but those Ctrl-C accounts for (`LiveIsOpened`), and an interrupt ends the work with an
  exception on its way (`Interruptions`).

- `ReferencesRight`: `RefInv` says that labels are distinct because the loader demands it
  (`LabelsApart`), that what has a label has a result once it is past
  (`LabelledHaveResults`), and that the references of whatever is in hand or done were
  found (`ReferencesFound`).
- `ChecksAlwaysAgree`, `PolicyIsKept`: `PolicyInv` says that what is in hand, what is done and
  what a result keeps was accepted by `prepare_action` for its step's session;
  `AcceptedAgain` and `AcceptedKeeps` do the rest.

**Cli** (in `PlanRunProofs`). Assumed: those of `PlanRun`, and `ExitAssumption`.
- `ExitTruth`: `ExitTellsTruth`, from `PlanInv` and four facts about what failed:
  a plan that was loaded has steps (`Substance`), a step without success is missing
  from what was done, unless Ctrl-C came when the product was through with it (`Missed`),
  a direct call that did not succeed raised (`Loud`), and an interrupt is on its way out of
  the command from when it came until a call's failing close hides it (`GoesOut`).

**OpenSession** (`OpenSessionProofs`). Assumed: `ThreadsAssumption`,
`ToolsAssumption`, `LaunchAssumption`: any servers, threads, installations, timeouts,
numbers of attempts (none included) and processes.
- `OneStoreOnly`: `ServerInv` says that `_STORE_LOCK` is held by whoever is
  inside, that a store is built only while there is none, and that `atexit` knows it
  or its builder is about to tell it.
- `FluentLocked`, `AttemptOutlasted`: `LockInv` says that who waits for the file holds the lock of its
  process, that who launches holds both, that nobody of a dead process does
  anything, and that no attempt lasts beyond its timeout.
- `LeavesNoStrays`, `EldersSpared`: `MechanicalInv` says, of every call that could
  list what runs, that what it marked is not older than its attempt (`elders`)
  and that what its launch has left is marked; a process is started by one call and
  keeps that mark, so none that was listed before is the call's own.

**FluentTemplate** (`FluentTemplateProofs`). Assumed: `DocumentsAssumption`, the shape of a
document, `OutputAssumption`, that the run's directory is a path, and, for `NoFileLost`
alone, `NumbersAssumption`; any documents, of any length, with any totals and chunk sizes, and a product that may raise at any request.
- `OrderIsKept`: `Phase` says that the calls made and those ahead are the calls of the
  spec (`Follows`). These are `Opening`, `Solving` and `Closing` in a row, whatever the
  spec asks for (`CallsInParts`), and their actions never go back in `Rank`.
- `SolvedAsAsked`: a row of chunks leads from nothing solved to the total (`Tally`,
  `ChunksCount`, again by the least number), in chunks of at most the size, and no
  other call has the product solve (`Quiet`). `SolvedInv` ties that to the product: what
  it has solved is what the calls made had it solve (`SolvedSoFar`), with what the call
  in hand still has to (`CallInHand`).
- `FailsOverPlace`: every call laid out has one of a few forms (`FormedCall`, `AllFormed`), and
  of each form `prepare_action` demands nothing that `load_spec` has not demanded
  before, but for places (`RefusedOnlyOverPlace`). A request that raises although the
  product did as it was told can only be an export's, and then over a name
  (`ImpossibleOnly`).
- `PicturesTrue`: `PictureInv` says that what an export still asks for is what its images
  ask for, request by request, from the one in hand to the last (`Along`); that the
  product is as the next request needs it (`Ready`: the contour is there, has the state
  asked for, is the one shown, and the picture has its state); that what was saved
  is what one image of that name asks for; and that no image before the one in hand
  is missing. `ReadyNext` and `Saving` follow it through each request.
- `CheckpointsInTime`: every call has its beat: a solved chunk counts one more, a
  checkpoint comes only after the n-th and sets the count to none, and no other call
  counts (`Beat`, `Paces`). A chunk is saved exactly when n divides its number (`ChunkPace`,
  by division with rest), so all chunks in a row keep to the pace (`SolvingPace`). That the
  chunks made are n for each checkpoint made and those since the last one
  (`PaceCounts`) gives both bounds at every place among the calls. `Numbered` is the one thing
  it needs of `load_spec`: the interval is a number, and 0 stands for none.
- `NoFileLost`: `FilesInv` says that a call that leaves a case behind has one write in hand,
  to the file planned for it (`WriteInHand`, `MadeAsPlanned`); that what the checkpoints
  wrote is there (`PointsThere`); and that every file there is holds what was done after the
  chunk its name tells of, or was written by a case's call. It needs `SolvedInv`, which
  says how much is done when the checkpoint comes. That two writes have two files is then
  a matter of the program: what is not a checkpoint is written once (`CallsSingly`), the
  default names lie in one directory and differ (`DefaultPlace`, `DefaultsApart`), and
  between two checkpoints something is solved (`PointsApart`), so that a number in their
  names tells them apart (`PointFiles`). A path that `compile_program` has settled
  stays as it is when the policy resolves it again (`WriterStays`). Text is opaque to the
  provers: `NumbersAssumption` says what is needed of names with numbers put in.

Type correctness is not checked by runs of its own: it is proved for the lock, the
store, the run and the plan, and is part of `LockInv` and `MechanicalInv`.

Model-checked only:
- all liveness, which rests on fairness and `ENABLED`, which the prover does not handle;
- `ExclusionUntilDeath` when `Calm` does not hold. In general, where a theorem names flags it
  says nothing without them; section 5 tells what fails then.

## 5. Where the code departs from what it says

Three runs end in a counterexample; `PROJECT.json` quotes the line each contradicts.
- `lock_two_breakers` (`core/execution/broker.py:145`): after a crash on POSIX, two
  waiters judge the same file stale; the second unlinks the lock the first has
  just created, and both are inside. On Windows the open handle prevents it, as
  `WindowsExclusion` proves.
- `store_close_opening` (`core/execution/session_store.py:433`): a session closed while it is being
  opened answers `{"closed": true}`, and comes back or runs on.
- `run_endless_wait` (`workflows/templates/worker.py:245`): a reader that meets a
  truncated `run.json` raises; if the worker's check and then its handler meet one, the
  worker exits without ending the run, and whoever waits for it waits for ever.

Others were met on the way. Where a constant or a property is named, changing or
checking it shows the case; the rest are part of the models or read off the code.
- The branch that breaks a stale lock `continue`s past the deadline
  (`core/execution/broker.py:150`); with `UnlinkDenied` a waiter never times out.
- On Windows a reader's handle can make the owner's own unlink raise; the file
  then stays, naming a live process, until that process exits (`broker.py:161`,
  `ReleaseRemovesFile` with `Windows`).
- When the state file's lock times out after a launch, nobody knows of the product any more;
  when it does after an execution, the session stays busy, and a busy session never
  expires (`core/execution/session_store.py:347,401,411`). `NoLostProduct` is checked and
  proved without such timeouts.
- A launch that outlasts `ttl_seconds` has its pending record removed by another
  call's expiry and is registered again afterwards, past the limits
  (`core/execution/session_store.py:353`, `CapacityKept` without `LaunchWithinTTL`).
- If a shutdown fails, a second expiry that waited for the same lock removes the
  record that was just kept as orphaned (`session_store.py:272`,
  `ExpiryRemovesOnlyDue` with `CloseMayFail`).
- A session marked expired by its owner is terminal to other processes, so a
  `close` from one of them drops its record while the owner is still shutting it
  down (`session_store.py:231`); its owner's next write restores it.
- When `sessions.json` is lost while several processes have sessions, each counts
  only its own until the others write again, so the limits can be exceeded for a
  while (`session_store.py:140`, `CapacityKept` with two processes and
  `FileMayBeLost`).
- A poll may raise, and a worker's check may fail its run, merely because a writer
  was between truncating and writing (`workflows/templates/runtime.py:309,138`). The
  model has both; no property forbids them.
- An interrupt while a plan's sessions are being closed leaves the rest open: the loop
  catches `Exception` only (`core/execution/executor.py:119-123`); and one that comes after a
  launch and before `sessions[...]` is assigned leaves that product running
  (`executor.py:158-167`; in `call`, before its `try`). `NothingLeftOpen` says that these are
  all: without its two exceptions the run `plan` shows the cases.
- An interrupt may come when every step is done, during the closes or before the answer is
  printed, even after it: a status of 130 does not say that something was left undone.
- `fluent.steady_run` accepts `outputs.checkpoints` and never looks at them; and
  `{"enabled": true, "every_chunks": null}` means no checkpoint at all.
- A source in the root of a file system gives the run an allowed root that nothing is
  inside of, since containment appends a separator to a text that ends in one
  (`core/policy/paths.py:48`): the run fails at its first operation.
- Places of outputs are checked when they are written, so a path outside the roots fails a
  run after its whole solve; a brace in a checkpoint's template, or in the
  workspace's path, fails it after the first chunk. `FailsOnlyOverPlace` says that
  nothing else in an accepted document does.
- The clean-up after a failed launch of Mechanical ends every `AnsysWBU.exe` that
  appeared since the attempt began, those that another server or a user has just
  started included, and reports them as "Cleaned up spawned Mechanical PIDs"
  (`products/mechanical/adapter.py:131,136`; `EndsOnlyItsOwn`, checked in place of
  `SparesElders`, shows it). If the first `tasklist` fails, its empty list makes the
  clean-up end all of them (`mechanical/adapter.py:26`; `SparesElders` leaves out `blind`).
- A waiter for Fluent's launch lock allows for one attempt, with its own
  `start_timeout`; the owner may make three, with a longer one, and a third server
  may come in between (`products/fluent/adapter.py:77`). The waiter then raises
  though nothing is wrong. `OutlastsOneAttempt` says what is kept.
- `--ansys-version` is described as a preference ("Prefer a specific AWP_ROOT
  version"); with a version that is not installed nothing is selected, and every
  adapter is unavailable (`core/environment.py:89`).
- A plan that was carried out whole has status 1 if its summary cannot be printed,
  and a call whose close fails after an interrupt has status 1 rather than 130
  (`interfaces/cli/main.py:268`). `ExitTellsTruth` is stated with both in mind.
- A numeral with leading zeros is matched as a decimal and read by YAML as an octal
  (`interfaces/cli/main.py:27`).
- `picture_state` is set on the one picture object, so that it also holds for the images
  after it; an image without `contour` shows whatever was displayed last, even if its
  `kind` is `"contour"`, which nobody reads (`products/fluent/session.py:324`).
  `PicturesShowTheirs` is about what an image asks for, not about what it inherits.
- A contour is created under its name, but found by what a settings path makes of it
  (`products/fluent/session.py:17,50,319`). With a quote, a closing bracket or a last
  backslash in it nothing can be read, and the run fails after its solve. A slash becomes
  a dot, and a backslash escape what YAML says: the run fails as well, unless there is a
  contour of that other name. Then its state is changed instead, without an error:
  with the contours `a.b` and then `a/b`, the second picture shows `a/b` without the
  state asked for. `PicturesShowTheirs` excepts the state of such a contour;
  without the exception the run `template` shows the case.
- Two reports of one name: the second replaces the first (`session.py:302`).

## 6. What is not modelled, and why

- `events.jsonl` and the raw audit file: append only, read leniently or never.
- The reuse of pids by the operating system.
- Missed liveness probes in the store (they are in `FileLock`): a live owner taken for
  dead has its sessions listed as orphaned by the others.
- `run.lock` in `WorkflowRun`, and the state file's lock in `SessionStore`, are
  mutexes that a dead owner does not keep; `FileLock` says when that is so.
- Symbolic links and the case of letters in paths; unknown and extra fields in
  documents (refused, or ignored, at once).
- The calls into the Ansys APIs: they return or raise, and change what later calls
  of the same session give only as far as `FluentSession` says. Raw Scheme, TUI and
  command texts, `describe`, `get_state` and `set_state` are one request each, whatever
  they say; nothing here depends on their effect.
- The parsing of `KEY=VALUE` texts and of settings paths, but for whether it succeeds and
  for the name of the contour in one.
- `get_workflow_service` (the same two checks as `get_store`, over an object without
  state), and the tools and commands that hand one call on and print what it
  returns.
- The store's blocks and the launch in one module: `SessionStore` has a launch as
  one step that takes any time, `AdapterLaunch` what is inside it.
- The data classes and abstract methods of `products/base.py`.

## 7. Plan

Done, in this order: `FileLock`, `SessionStore`, `WorkflowRun`, `PlanRun` with
`Policy`, `FluentTemplate`, `OpenSession` with `McpServer` and `AdapterLaunch`,
`FluentSession`, `Cli`. What would come next:
1. An abstract registry of sessions (open, closed, lost with its owner), which
   `SessionStore` implements for orderly callers.
2. `CapacityKept` for two processes of which one has lost the file for a while: how far
   the limits can be exceeded.
