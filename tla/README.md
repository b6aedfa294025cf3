# Verification of the cagent lifecycle

`cagent` (Go, `src/cmd/cagent`, `src/internal`) keeps development environments in rootless
Podman containers. Each invocation is a process of its own that runs one command and ends.
There is no daemon: the processes meet only in files under the data and state directories, in
Podman's containers and networks, and in lock files. A command is a sequence of such effects,
and any of them may fail, or be the last one the process makes. This project models that
sequence for every command that changes an environment, checks it with TLC, shows that it
implements a specification of environments in which every step is atomic, and proves its safety
properties with TLAPS. Profiles with their images, the audit log and the resource budget have
modules of their own.

## 1. Inventory

| Component (source) | State it keeps | Operations | What makes it correct |
|---|---|---|---|
| Lifecycle commands (`app/lifecycle.go`, `delete.go`, `env_commands.go`) | none beyond one invocation: the state file it read, its plan, its locks | init, prepare, start, shell, exec, doctor, stop, stop --all, recreate, delete; plan, diff, list, show only read | what was read before a lock still holds when it is used; success means what the command promises; sessions are left alone and leave nothing behind |
| Raw runs (`app/raw.go`) | none | `cagent run` | stays apart from environments |
| State store (`state/`) | `index.json` (name to UUID), `state.json` per UUID | Register, GetByName, LoadByID, Save, Forget, NewUUID | index and state files agree after any failure; no registration is lost |
| Manifests (`envstore/`, `manifest/`) | one JSON file per name, also edited by hand | Load, Save, Update, List, validation, defaults | a changed manifest is drift, never silently applied |
| File locks (`locks/`) | lock files: one global, one per environment UUID, one per project | Acquire (never waits), Release | exclusion; a dead process does not keep others out |
| Planner (`planner/`) | none | Build: existence, running state, drift, pool, actions, `podman create` arguments | the plan describes what apply will meet |
| Podman adapter (`podman/`) | containers and networks (in Podman) | inspect, list, create, start, stop, rm, exec | absence is told from failure |
| Disk cleanup (`app/disk.go`) | none | report, plan, remove orphaned containers, networks, images, build contexts | orphans go, registered environments stay |
| Resource budget (`resources/`) | none | Calculate, CheckAggregate | running memory within the pool |
| Session runtime (`app/runtime.go`) | `capabilities.json`, for five minutes | discoverRuntime, requireRootless | stale answers do no harm |
| Profiles (`profile/`, `app/profile.go`) | `profile.json` and build contexts, images | Resolve, WriteCustom, Materialize, build, remove | a context marked complete is complete |
| Audit log (`audit/`) | `audit.jsonl` and its rotated generation | Append, rotate | the newest records stay, in order; the files stay bounded |
| Policy, mounts, spec hash, capabilities, host info, host commands, command line | none | pure decisions, reads, parsing, printing | right answers on their input |

How they interact. An activation (prepare, start, and the sessions shell, exec, doctor) takes
the global lock, loads manifest and state file (registering a name it meets for the first
time), takes the environment lock, has the planner look at Podman, takes the project lock unless
concurrency is `allow`, checks the project's other containers, makes network, home and
container, starts it, saves the state file, and releases the shared locks; a session then keeps
its environment lock until its shell ends, and stops the container if its own plan found it
stopped. Stop and recreate take the global lock and then the environment lock. Delete reads
everything first and locks afterwards. `stop --all` takes the global lock only. `cagent run`
and disk cleanup take none.

The hard behaviours are therefore: state read before a lock and used under it (delete), under
another lock (plan after index), or under none (cleanup); two files written one after the other
(Register); a death or a Podman error between an effect and its record (apply); a command that
outlives its locks (sessions); decisions that rest on what other environments do (project
concurrency, memory pool); and lists worked off while they grow old (`stop --all`, cleanup).
`PROJECT.json` lists each of them under `hazards`, at its line, with the property that covers it.

## 2. Modules

| Module | Models | Correspondence |
|---|---|---|
| `StateStore` | the files | `manifests`, `index`, `records`, `homes`; GetByName, LoadByID and Save as operators; Register and Forget are separate steps of the commands, because they write separate files |
| `FileLocks` | `lock_unix.go`, `paths.go` | `globalLock`, `envLock`, `projectLock` give the holder; an Acquire is enabled only on a free lock, a busy one is a refusal |
| `Podman` | `podman/` and what cagent relies on in Podman | `containers` by UUID (status and the labels' specification), `networks`; create, start, stop, rm, with Podman's own refusals |
| `Lifecycle` | `app/`, `planner/`, with the above | `pc[p]` is the next visible call of process p; one action per call; `stored`, `plan`, `indexCopy`, `todo` are the command's local variables |
| `LifecycleProperties` | what is claimed | the properties and the inductive invariant `IInv` |
| `EnvironmentSpec` | what cagent promises of environments | no processes, locks or files: registry, owners, containers and sessions, changed by atomic steps; `LifecycleProperties` maps `Lifecycle` onto it |
| `DiskCleanup` | `disk cleanup --managed`: containers and networks | composes its own steps with `Lifecycle!Next`; `indexed`, `doomedContainers`, `doomedNetworks` are what it read |
| `Profiles` | `profile/`, `app/profile.go`, and the image step of the lifecycle commands | `directory`, `contexts` are files, `images` and `container` are Podman's, `content` stands for what Resolve hashes; `task[p]` holds a command's local variables, both hashes of an activation among them |
| `ImageCleanup` | `disk cleanup --managed`: images and build contexts | composes its own steps with `Profiles!Next`; contexts go file by file |
| `AuditLog` | `audit/` | one append is four calls: size, remove, rename, write; sizes in bytes, writes may be torn |
| `Budget` | `resources/` | `IsBudget` is the relation Calculate computes, `CheckAggregate` is itself; bytes are int64 |
| `LifecycleProofs`, `CommandProofs`, `PoolProofs`, `RefinementProofs`, `DiskCleanupProofs`, `ImageCleanupProofs`, `AuditLogProofs`, `BudgetProofs` | theorems | section 5 |
| `MCLifecycle`, `MCDiskCleanup`, `MCImageCleanup` | small instances | projects, manifests, local profiles, symmetry for the `.cfg` files |

The step is the call. Whatever a command computes between two effects that others can see (a
file read or written, a lock, a Podman call) belongs to the action of the next one. Where two calls
are one action, it is one of these:

- an inspect and the stop after it (delete, `stop NAME`): Podman's stop is harmless on a stopped
  container, and nobody else removes one whose environment lock is held;
- the same in `StopEach` (`stop --all`), which has no environment lock: a container that vanishes
  in between is an error in the code, and passed over here;
- `Forget`, which loads the index and saves it: every command that writes the index holds the global
  lock (`LockDiscipline`), and Register, where a death in between matters, is split;
- `ResolveProfiles` and `ListCandidates` (disk cleanup reads profile by profile, and lists images
  before contexts) and `ScanReferences` (`profile remove` reads manifest by manifest).

Errors. `Refused` collects the conditions under which the code itself returns an error: a busy
lock, a missing manifest, drift, a concurrency conflict, a pool that is too small, a container
that is in the way or gone. `Fail` stands for every other early end: a Podman or file error, a failing
image, secret or certificate step, an interrupt, a crash. Both leave the effects so far in place
and drop the locks, as the deferred releases and the kernel do. Since `Fail` can follow each
step, it covers a call that had its effect and then reported an error. It does not cover a
`podman` child that outlives its killed parent and takes effect later.

### Abstractions

- A manifest is the record of the fields the commands branch on: project, concurrency mode,
  read-only project, ephemeral rootfs, internal network, memory. Profile, defaults and host
  budget are folded into `memory`; the `--resource` override of one command (`plan.go:94`), which
  would give a plan another memory than its manifest, is left out. Equal specification hashes mean equal manifests.
- The container name is a function of name and UUID, so containers are keyed by UUID, and
  `VerifyEnvironment` holds by the key. Container names and IDs in the state file become the
  flag `container`.
- `shell`, `exec` and `doctor` are one command, `session`. They differ in what runs inside.
- A fresh UUID is one that no file, container or process knows. Running out of the finitely many
  `Ids` is an error of NewUUID.
- An index entry without a loadable state file has no case of its own in `GetByName`:
  `RegistryIntegrity`, which is proved, says there is none.
- `faults` (bounded by `MaxFaults`) counts failures, deaths and containers that exit by
  themselves; `edits` (bounded by `MaxEdits`) counts changes of manifests by hand. `startedBy`
  is a history variable.
- Disk cleanup keeps candidates by Podman ID, so a candidate whose container was removed is
  dropped from the list (`Beside`). One cleanup runs at a time. Its four kinds of candidates are
  handled one after the other; the two that meet environments are in `DiskCleanup`, the two that
  meet profiles in `ImageCleanup`.
- `Profiles` starts each command at the global lock, which all of them hold to their last step here;
  the profile locks are only taken under it and left out. Delete reads its manifest before the lock
  in the code, and with it here; the difference is in `Lifecycle` (`DeleteRead`). Of the lifecycle
  commands it has init, an activation and delete; recreate does there what a delete of the container
  and an activation do. Profiles are of build mode: pull and existing have no context. `WriteCustom`
  writes `profile.json` only, for its one caller passes no further files (`env_commands.go:146`).
- An activation resolves its profile twice, as in the code: the image is built of the first hash,
  the plan, the drift check and the container are of the second.
- What users do by hand happens at any moment, also while a command or a cleanup is at work: a
  profile is edited and edited back, damaged or repaired, a directory takes the name of the built-in
  one, a manifest names another profile or does not load, and another binary is installed, newer or
  older. `upsets` counts these together with failures and deaths, up to `MaxUpsets`. Two history
  variables say what they touched: `touched` has the environments and profiles edited by hand,
  `swept` the contexts from which cleanup took files until it has removed them whole.
- Other releases of the binary have left whole contexts behind (`Init`). A context directory without
  files counts as absent. What podman build really read of a custom context is not tracked.
- An existing image may be used or built again in `FindImage`, as with `--force` or without.
- Cleanup in `ImageCleanup` may end before any remaining candidate (`SweepGivesUp`), for whatever
  reason and as often as it likes: it stands for networks and containers that cannot be removed, and
  for images in use by raw runs, which are not in the module.
- `AuditLog` counts bytes, in a small unit. The limit `auditMaxMiB` is read for every record and may
  be any of `Limits` each time; a record has one of `Sizes`. A torn write leaves bytes but no record;
  in the file it shares its line with the next record, which a reader of lines loses too. A record is
  told by its age.
- `Budget` leaves the float64 products open by one unit, counts CPUs in tenths, and takes
  what Calculate refuses as an input without a budget.

## 3. What the runs check

| Run | Instance | Question | Distinct states |
|---|---|---|---|
| `Projects` | 2 processes, 2 environments, 2 UUIDs, raw runs, 4 concurrency modes, pool 2, both `--allow-overcommit`; start, session, stop, recreate, delete with its data | do the project check and the memory check still hold at podman start; do exclusive environments stay alone on a project while manifests stay as they are; is a registration ever lost | 1.7 million |
| `Sessions` | 3 processes, 1 name, 2 UUIDs, 1 failure; every command that touches containers, and raw runs | do index and state files agree after any failure; are sessions left alone, do they stop only what they started; recreate and `stop --all`; the inductive invariant; is each step one of `EnvironmentSpec` | 581 thousand |
| `Drift` | 2 processes, 1 name, 2 UUIDs, 2 edits, no failure; init and delete too | is the plan of the locked environment, is only the planned container started, does the state file tell the truth, and has `stop NAME` stopped what it says | 1.2 million |
| `Progress` | 2 processes, 1 name, 2 UUIDs, 1 failure, fair processes | does the global lock become free again and again, does every command return, do sessions that users leave let no container run on | 162 thousand |
| `Cleanup` | 2 processes, cleanup, 2 UUIDs, 1 failure, fair | are containers and networks without an environment reclaimed, and those of environments in the index it read spared | 196 thousand |
| `Profiles` | 2 processes, cleanup, a built-in profile of 2 releases and a custom one, 1 environment, contexts of a file and the marker, 1 failure or change by hand, fair | does no command part an environment from its profile, do extractions keep the marker true, can the built-in image be built again, are stale images and contexts reclaimed | 640 thousand |
| `Audit` | one log, limits of 2, 3 and 5 and records of 1 and 3 bytes in any order, cut off and torn anywhere | do the files stay bounded, does the log end with the newest records in order | 35 thousand |
| `StaleDelete`, `LostContainer`, `RecreateMoves`, `CleanupRace`, `UnseenReference` | the smallest instance of each | section 4 | violated |

Why the bounds are enough. Two processes show every race of two commands. Three are used where a
third matters: a session, the command that would disturb it, and one that comes between. Two
names are what a lost registration needs: a command on one, and a bystander; two UUIDs of one name
cover delete and re-init under a stale reader. One failure reaches
every point at which a command can be cut off, followed by every command that has to live with
the result. Two edits cover a manifest changed and changed back between plan and apply. The four
manifests of `Projects` give each mode of `enforceProjectConcurrency` with a read-only and
a writable project, and a pool of 2 has room for two small environments or one large one, or for
one and a raw run. In
`Profiles` one change makes one stale hash, which is all that cleanup can tell from the current
one, and cleanup needs no failure to end early; one file beside the marker is the least that can be
half extracted or half removed. The limits and sizes of `Audit` reach every order of a growing and a
shrinking limit around a rotation, with records smaller and larger than a limit. All
commands that end can be invoked again without bound. Symmetry is used in runs without liveness
only: processes, UUIDs and names are compared and nothing more. Deadlock is checked in every run.

Fairness. `FairSpec` gives each process weak fairness on its own steps, `Step(p)`. Acquire does not
wait, so no call waits for another process, and the operating system schedules a process that can
run. Nothing obliges users to run commands, to leave a shell or to end a raw run, nor faults to
happen; `GlobalLockRecurs` and `CommandsReturn` hold under that. `SessionsLeaveNothingRunning` says
itself what it needs of the users: only sessions are run, and shells are left (`[]OnlySessions`,
`[]<>(pc[p] # "exec")`). `FairSystemSpec` of `DiskCleanup` and of `ImageCleanup` adds that disk
cleanup is run again and again. `ImageCleanup` also has strong fairness of `InvokeBuild` for the
built-in profile: a user who wants the image tries again when the lock is busy, and without that
nobody would have to build anything. `BuiltinBuildable` speaks of histories in which, from some
moment on, the name of the built-in profile is not taken by a directory and its context is not one
that cleanup left in pieces. `StaleReclaimed` holds where cleanups come through again and again (`SweepsComeThrough`): a
network, a container or an image that cannot be removed ends each of them before the remaining
candidates, and nothing in the code makes that reason go away.

The abstract specification. `EnvironmentSpec` has environments only: a UUID belongs to one name
for ever, a name has one UUID at a time, only registered environments are created, started and
entered, a session has its environment to itself, a running container is never removed, raw runs
use UUIDs of nobody. `LifecycleProperties` gives the mapping: the registry is the index, a UUID
is owned once its state file is written, a session is open while its body runs. That
each step of the lifecycle is one of its steps or a stutter is what the locks, the order of the
two writes of Register and the second read of the index are for.

Each property of a passing run has a mutant: a plausible slip in the code (a lock that is shared, a
check that is dropped, two writes swapped, a decision from the wrong plan) under which TLC finds the
property violated in the same run. The mutated definitions stand before the ones they replace, named
after them with a suffix.

## 4. Where the code departs from what it says

Five runs end in a violation.

- **F1 `StaleDelete`, `DeleteRemovesRuntime`** (`app/delete.go:39`). Delete reads manifest and
  state file before it has a lock and never again. A first start in between creates a container
  that delete does not see: it unregisters the name and leaves the container.
- **F2 `LostContainer`, `StopMeansStopped`** (`app/lifecycle.go:486`). A start that fails or dies
  between podman start and the save of the state file leaves a running container that the state
  file does not name. `env stop` then succeeds and stops nothing. It takes a failure: without one
  the same property holds (`Drift`, and the theorem `StopTruthful`).
- **F3 `RecreateMoves`, `ExclusiveProject`** (`app/lifecycle.go:585`). Recreate applies its plan
  without project lock and without the concurrency check. An environment whose manifest was moved
  to another project comes to run beside an exclusive one. Without recreate this cannot happen
  (`ExclusiveWithoutRecreate`).
- **F4 `CleanupRace`, `CleanupSparesRegistered`** (`app/disk.go:169`). Cleanup reads the index
  first and lists containers later, without a lock. An environment registered and prepared in
  between is taken for an orphan. Only such a late one: an environment in the index that was read
  keeps its container and network (`CleanupSparesIndexed`, checked and proved).
- **F5 `UnseenReference`, `RemovesOnlyUnreferenced`** (`app/profile.go:341`). `profile remove` asks
  `loadErr == nil && ...`: a manifest that does not load is passed over, and the profile it names is
  removed. It takes a manifest damaged by hand, or unreadable for a moment: no command parts an
  environment from its profile otherwise (`ReferencedProfilesResolve`, checked and proved).

`PROJECT.json` quotes the line of the documentation or code each one contradicts.

One hole contradicts no line of the documentation and is stated as an exception. `Materialize`
trusts the `.complete` marker of a context for good (`store.go:183`). Disk cleanup removes a stale
context file by file (`disk.go:160`), in any order, without a lock. Cut off after some files but
before the marker, or run beside an extraction, it leaves a marked context with files missing; if the
release of that context is installed again, each build of its image fails, and cleanup, for which the
hash is now current, does not touch the context any more. The model has all these steps, and without
the exception `swept` TLC finds that history in `MarkedContextIsWhole` and `BuiltinBuildable`. With it
they say that this is the only way: interrupted extractions, of whichever release and however often,
never make the marker lie.

## 5. What is proved

The theorems hold for any sets of processes, names, projects and manifests, any finite set of
UUIDs, any combination of commands and flags, any pool, and any bounds on failures and edits;
those of `ImageCleanupProofs` for any processes, environments, custom profiles, contents, files and
bounds; those of `AuditLogProofs` for any finite sets of limits and of record sizes; those of
`BudgetProofs` for all inputs. They assume what the modules name: `StoreAssumption` (the null
values are not values, manifests are typed, raw runs have no project), `NoProcAssumption`,
`FiniteIdsAssumption` (memory is summed over containers), `LifecycleAssumption` (the types of the
other constants), `ProfilesAssumption` (the same for profiles) and `AuditAssumption` (limits and
record sizes are positive, and there is one of each).

| Module | Theorem | States |
|---|---|---|
| `LifecycleProofs` | `WorkInvariant` | the first four parts of `IInv` below |
| | `TypeCorrect` | `TypeOK` |
| | `RegistryCorrect` | `RegistryIntegrity`: each index entry leads to a state file of that UUID and name |
| | `PlanLocked` | `PlanIsOfLockedEnvironment` |
| | `RegistrationKept` | `NoLostRegistration`: the index changes only at the name being registered or forgotten |
| | `InductiveInvariant` | all of `IInv` |
| | `StartIsPlanned` | `StartsWhatWasPlanned` |
| | `StartIsAdmitted` | `StartRespectsProject` |
| `CommandProofs` | `SessionsUndisturbed` | `SessionUndisturbed` |
| | `SessionsStopTheirOwn` | `SessionStopsOwnStart` |
| | `StopAllStops` | `StopAllLeavesOnlyRawRuns` |
| | `RecreateCorrect` | `RecreateKeepsRunState` |
| | `RecordsTrue` | `RecordMatchesContainer` |
| | `StopTruthful` | `StopMeansStopped`, as long as nothing failed |
| | `ExclusiveWithoutRecreate` | `ExclusiveProject`, where recreate is not used |
| `PoolProofs` | `PoolInvariant` | `PoolInv`: room for what a command that is held to the pool is about to start |
| | `StartKeepsPool` | `StartWithinPool` |
| | `PoolKept` | where `--allow-overcommit` is never given, the running environments are within the pool in every state |
| `RefinementProofs` | `Refinement` | `ImplementsEnvironments`: `Lifecycle` implements `EnvironmentSpec` |
| `DiskCleanupProofs` | `SystemInvariant` | what of `IInv` holds beside disk cleanup |
| | `SweepTypeCorrect` | `SweepTypeOK` |
| | `RegistryBesideCleanup` | `RegistryIntegrity`, `PlanIsOfLockedEnvironment`, `NoLostRegistration` beside cleanup |
| | `StartsBesideCleanup` | `StartsWhatWasPlanned`, `StartRespectsProject` beside cleanup |
| | `IndexedSpared` | `CleanupSparesIndexed` |
| `ImageCleanupProofs` | `SweepTypeCorrect` | `SweepTypeOK` |
| | `ReferencesResolve` | `ReferencedProfilesResolve`: it takes an edit by hand to part an environment from its profile |
| | `MarkerTrusted` | `MarkedContextIsWhole`: it takes a cleanup in the context to make its marker lie |
| `AuditLogProofs` | `LogStaysBounded` | `LogBounded`: no file exceeds the largest limit by as much as the largest record |
| | `LogKept` | `LogEndsWithNewest` |
| `BudgetProofs` | `HostKeepsReserve` | a quarter of the memory stays with the host, and 4 GiB or half |
| | `BudgetSound` | a budget is within pool, CPUs and minimums, swap covers memory, no byte count overflows |
| | `ClassesGranted` | every class has a budget on a host with a pool of 512 MiB |
| | `AggregateExact` | CheckAggregate is the comparison of the sum, without computing it |

### The lifecycle

None of these properties is inductive by itself. `IInv` is the conjunction of

- `TypeOK`;
- `JobInv`: a process at work on an environment has a name, and from the plan on a plan;
- `LockDiscipline`: at which labels a process holds which lock, and that its plan is of the UUID it
  has locked. It is what makes the parts below hold: two processes never stand at two such labels for
  one resource;
- `RegistryInv`: `RegistryIntegrity`, strengthened by what the copies say. A process about to write
  the index back holds a copy equal to the index (it has the global lock), in which its name is
  free; a state file in hand is of the UUID and name it is on disk; and from the environment lock
  until the plan the index still gives the UUID that was read. The last part needs the global lock
  and explains why reading the index twice (once to lock, once to plan) is harmless;
- `RawRunInv`: raw runs use UUIDs of their own, so a container under a registered UUID is an
  environment's, and `stop` does not make it vanish;
- `PlanInv`: what the plan says of the container stays true until apply uses it, because whoever
  could change it needs the environment lock or the global lock (`ExistsAsPlanned`: whether there is
  one; `SpecAsPlanned`: what it was made from); and what the concurrency check found stays true
  until podman start, because every other start needs the global lock (`ProjectAsChecked`).

`LifecycleProofs` proves the first four parts together, one lemma per part (`TypeStep`,
`JobStep`, `LockStep`, `RegistryStep`) and in each one step per action, and then the last two.
There the frame lemma `OthersUndisturbed` does the work: while one process stands
between plan and start, a step of any other one neither makes, removes nor replaces its container
and starts no container that has a project (stopping one, or a raw run, is harmless). The action
properties follow from the invariant and from the lemma that only `Start` turns a container of an
environment to running.

`CommandProofs`, `PoolProofs` and `RefinementProofs` add to `IInv` what their properties need,
proved inductive on top of it:

- `SessionInv`: what a session's plan found stopped stays stopped until the session starts it,
  and what runs from then on is what it started. The frame lemma is `OthersSpare`: the holder of
  an environment lock loses nothing but the running state, and that to `stop --all` only.
- `CommandInv` ties the labels to the commands and says that recreate and `stop --all` keep the
  global lock to their end. With it `StopAllInv` (every running container of an environment is on
  the list, and after it nothing starts) and `RecreateInv` (no container when it plans again, none
  running when it has made one, running as planned after the start) are inductive.
- `RecordInv`: as long as nothing failed, each container is either recorded or in the hands of a
  command between create and save; and the copy of the state file a command is about to write
  back knows of the container there is, although a session may have removed the container between
  the read and the lock. A delete may hold an older copy, but never writes it.
- `StopInv`, as long as nothing failed: a `stop` at its last steps has the global lock, the copy it
  holds knows of the container there is (`RecordInv`), and nothing of an environment starts before it
  returns. One failure breaks it; that is F2.
- `OnlyCommands` (a process runs a command there is). Without recreate every start is an
  activation's, so `ProjectAsChecked` speaks of it, and `ExclusiveProject` is inductive. For
  recreate that part of `PlanInv` says nothing; that is F3.
- `PoolInv`: from the plan on, the memory of the running environments other than the planned one
  leaves room for it, for no other environment starts before this one does (global lock). Stops, and
  raw runs, which are not of environments, leave it true. The check of the plan does count the raw
  runs it finds. Memory is a fold over a set, so the module first proves what the sums need: that
  the function the fold chooses exists and is unique, that the order of elements does not matter,
  that a part sums to no more than the whole. Induction over data being out of reach, each lemma
  takes a smallest subset for which it fails (`SmallestSet`: strict inclusion is well-founded on the
  subsets of a finite set) and refutes it.
- `OwnershipInv`, for the refinement: state files have names, and every container but those of raw
  runs is of a UUID that has one. `Refinement` maps each action to a step of `EnvironmentSpec` or to a
  stutter; `NotInUse` is the lemma on which exclusive sessions rest.

### Disk cleanup

`DiskCleanup` adds a process without locks to the lifecycle. Not all of `IInv` survives it:
`ExistsAsPlanned` fails when the container of an environment registered after the cleanup read the
index is removed between plan and start (F4 seen from the other side). `SystemInv` is the rest,
`WorkInv`, `RawRunInv`, `SpecAsPlanned` and `ProjectAsChecked`, with `CandidatesInv`: no candidate
is in the index that was read, and each UUID of that index has a state file. The frame lemma
`CleanupTakesAway` says that all the cleanup does to the others is to remove stopped containers and
networks. State files are never removed, so no raw run takes a UUID of the index that was read, and
an indexed environment cannot become a candidate however old the index grows (`StateFilesStay`).

### Profiles, audit log and budget

The inductive invariant of `ImageCleanupProofs` has, beside the properties and the types, `Work(p)`:
what the command of p knows at its next call. A command at work holds the global lock and is alone,
so a step of a command has one process to look at; users and cleanup hold nothing and may change
what it knows at any moment, which is why each part of `Work` that speaks of files excepts what is
in `touched` or `swept`. Before its manifest is saved, env init knows that its profile resolves. While
`profile remove` takes a directory apart, only environments edited by hand refer to it, for
those whose manifest does not load are among them (`unreadable \subseteq touched`): this is what the
check under `loadErr == nil` is worth. And while a context is extracted, the files already written are
there, unless cleanup took from it: so the marker, written last, is true.

The invariant of `AuditLogProofs` says of the two files together that the record at place k from the
end is k records old, that no file holds more records than bytes, that both are within `FileBound`,
that they hold at least the smallest limit's bytes or all records there are, and, for the calls of a
rotation (`RotationInv`), that the file to be rotated holds at least the smallest limit by itself and
the one to be written is below the largest. So removing the older one never loses a record that
must stay, and one further record stays within the bound. Largest and smallest limit exist by the
smallest-set argument of the pool.

`BudgetProofs` is arithmetic with the widths of the code. The largest int64 enters as a named fact,
so that the provers do not meet products of large numerals.

### Only model-checked

All liveness (`GlobalLockRecurs`, `CommandsReturn`, `SessionsLeaveNothingRunning`, `OrphansReclaimed`,
`OrphanNetworksReclaimed`, `BuiltinBuildable`, `StaleReclaimed`), for fairness and ENABLED are outside
the prover. Every invariant and every action property that a passing run checks is proved, two of
them under a condition: `StopMeansStopped` as long as nothing failed, which is how
`Drift` checks it too; and `ExclusiveProject` without recreate, while `Projects` has recreate
but no edits. That it holds for recreate with unchanged manifests is TLC's word only. The
five violations of section 4 are counterexamples.

## 6. Not modelled

- **Locks without flock** (`lock_other.go`): lock files that a dead process leaves behind. They
  are built for native Windows only, which `docs/IMAGES_AND_OTHER_OS.md:66` says is not a supported
  runtime target. All models take `lock_unix.go`.
- **Security policy, mounts, manifest validation, defaults**: pure decisions on one manifest,
  with no state and no order of steps, mostly tables. The lifecycle meets them as a
  refusal (`CanLoad`, `CanPlan`) or as a failure.
- **Specification hash**: canonical JSON and SHA-256. Equal hashes are taken for equal
  specifications, in the lifecycle and in profiles.
- **Capability cache, host information, host commands**: reads. A stale report selects arguments
  of `podman create` and one refusal.
- **Pull and existing profiles, secrets, certificate bundles**: calls that have an effect outside
  or fail; they appear as `Fail` or not at all.
- **What the commands record in the audit log**: plain from the calls; `AuditLog` is about what
  becomes of the records.
- **Podman's own timing**: a `podman` child that outlives its killed parent and takes effect
  later, and the wording of its errors, from which absence is told.
- **Command line and output**.

What remains to be done, were the project continued: a cleanup that lists before it reads the
index, for which `CleanupSparesRegistered` should hold and be provable from `SystemInv`; the session
properties beside disk cleanup; and the policy checks as functions against the tables in the
documentation.
