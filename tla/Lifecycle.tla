------------------------------- MODULE Lifecycle -------------------------------
(***************************************************************************)
(* The environment lifecycle of cagent (internal/app): every invocation is *)
(* an operating system process that runs one command to its end, and the   *)
(* processes share the files of StateStore, the containers of Podman and   *)
(* the locks of FileLocks.                                                 *)
(*                                                                         *)
(* pc[p] names the next call of process p that other processes can see;    *)
(* what it does between two such calls is one step.  Refused gathers the   *)
(* conditions under which a command returns an error, and Fail every other *)
(* way of ending early: a Podman or file error, or the death of the        *)
(* process.  Both leave what was done in place and drop the locks.         *)
(***************************************************************************)
EXTENDS FileLocks, Podman

CONSTANTS
  Commands,         \* the commands users run
  Overcommits,      \* the values of --allow-overcommit they pass
  Purges,           \* the values of --delete-home they pass
  StopOnShellExit,  \* defaults.spec.stopOnShellExit
  PoolMemory,       \* the aggregate memory pool of the host
  MaxFaults,        \* bound on failures, deaths and containers that exit
  MaxEdits          \* bound on manifest edits

ActivateCommands == {"prepare", "start", "session"}  \* shell, exec, doctor: session
PlanCommands == ActivateCommands \cup {"recreate"}
AllCommands == PlanCommands \cup {"init", "stop", "stopAll", "delete", "run"}

ASSUME LifecycleAssumption ==
  /\ Commands \subseteq AllCommands
  /\ Overcommits \subseteq BOOLEAN
  /\ Purges \subseteq BOOLEAN
  /\ StopOnShellExit \in BOOLEAN
  /\ PoolMemory \in Nat
  /\ MaxFaults \in Nat
  /\ MaxEdits \in Nat

VARIABLES
  pc,         \* process -> its next call
  job,        \* process -> its command line
  stored,     \* process -> the state file it read (and changes before saving)
  plan,       \* process -> its plan of the environment
  indexCopy,  \* process -> the index it is about to write back
  todo,       \* process -> the containers `stop --all` still has to stop
  startedBy,  \* history: UUID -> the process whose command started its container
  faults, edits

localVars == <<job, stored, plan, indexCopy, todo>>
boundVars == <<faults, edits>>
vars == <<lockVars, storeVars, podmanVars, pc, localVars, startedBy, boundVars>>

Job ==
  [cmd        : AllCommands \cup {"none"},
   name       : Names \cup {NoName},
   overcommit : BOOLEAN,
   purge      : BOOLEAN]

NoJob == [cmd |-> "none", name |-> NoName, overcommit |-> FALSE, purge |-> FALSE]

(* What planner.Build found and decided; restart is the wasRunning that    *)
(* recreate keeps of its first plan.                                       *)
Plan ==
  [id      : Ids \cup {NoId},
   spec    : Manifests \cup {NoSpec},
   exists  : BOOLEAN,
   running : BOOLEAN,
   drifted : BOOLEAN,
   restart : BOOLEAN]

NoPlan ==
  [id |-> NoId, spec |-> NoSpec, exists |-> FALSE, running |-> FALSE,
   drifted |-> FALSE, restart |-> FALSE]

NoIndex == [n \in Names |-> NoId]

Labels ==
  {"idle", "read", "lock", "init", "load", "record", "index", "envLock",
   "plan", "project", "enforce", "apply", "create", "start", "save", "release",
   "exec", "sessionStop", "sessionRemove", "sessionSave",
   "stop", "stopRemove", "stopSave", "list", "stopEach",
   "teardown", "teardownRemove", "teardownSave", "replan",
   "deleteContainer", "deleteRemove", "deleteNetwork", "unlink", "purge", "forget",
   "run", "attached", "ok"}

TypeOK ==
  /\ LocksTypeOK
  /\ StoreTypeOK
  /\ PodmanTypeOK
  /\ pc \in [Procs -> Labels]
  /\ job \in [Procs -> Job]
  /\ stored \in [Procs -> Record]
  /\ plan \in [Procs -> Plan]
  /\ indexCopy \in [Procs -> Index]
  /\ todo \in [Procs -> SUBSET Ids]
  /\ startedBy \in [Ids -> Holder]
  /\ faults \in 0..MaxFaults
  /\ edits \in 0..MaxEdits

Init ==
  /\ LocksInit
  /\ StoreInit
  /\ PodmanInit
  /\ pc = [p \in Procs |-> "idle"]
  /\ job = [p \in Procs |-> NoJob]
  /\ stored = [p \in Procs |-> NoRecord]
  /\ plan = [p \in Procs |-> NoPlan]
  /\ indexCopy = [p \in Procs |-> NoIndex]
  /\ todo = [p \in Procs |-> {}]
  /\ startedBy = [i \in Ids |-> NoProc]
  /\ faults = 0
  /\ edits = 0

Goto(p, label) == pc' = [pc EXCEPT ![p] = label]
Cmd(p) == job[p].cmd
Env(p) == job[p].name

(* The process ends: its locks and its memory are gone.                    *)
Leave(p) ==
  /\ ReleaseAllLocks(p)
  /\ Goto(p, "idle")
  /\ job' = [job EXCEPT ![p] = NoJob]
  /\ stored' = [stored EXCEPT ![p] = NoRecord]
  /\ plan' = [plan EXCEPT ![p] = NoPlan]
  /\ indexCopy' = [indexCopy EXCEPT ![p] = NoIndex]
  /\ todo' = [todo EXCEPT ![p] = {}]
  /\ startedBy' = Dropped(p, startedBy)
  /\ UNCHANGED <<storeVars, podmanVars, edits>>

-----------------------------------------------------------------------------
(* A user runs a command.                                                  *)
Invoke(p) ==
  /\ pc[p] = "idle"
  /\ \E c \in Commands :
       \E n \in IF c \in {"stopAll", "run"} THEN {NoName} ELSE Names,
          over \in IF c \in PlanCommands THEN Overcommits ELSE {FALSE},
          purge \in IF c = "delete" THEN Purges ELSE {FALSE} :
         /\ job' = [job EXCEPT ![p] =
                     [cmd |-> c, name |-> n, overcommit |-> over, purge |-> purge]]
         /\ Goto(p, CASE c = "delete" -> "read" [] c = "run" -> "run" [] OTHER -> "lock")
  /\ UNCHANGED <<lockVars, storeVars, podmanVars, stored, plan, indexCopy, todo,
                 startedBy, boundVars>>

(* The global lock, taken first by every command that changes anything.    *)
AcquireGlobal(p) ==
  /\ pc[p] = "lock"
  /\ AcquireGlobalLock(p)
  /\ Goto(p, CASE Cmd(p) = "init" -> "init"
               [] Cmd(p) = "stopAll" -> "list"
               [] Cmd(p) = "delete" -> IF stored[p].id = NoId THEN "unlink" ELSE "envLock"
               [] OTHER -> "load")
  /\ UNCHANGED <<storeVars, podmanVars, localVars, startedBy, boundVars>>

(* The reads before the environment lock: the manifest (to activate) and   *)
(* the state of the name.  Only activation registers an unknown name.      *)
CanLoad(p) ==
  IF Cmd(p) \in ActivateCommands THEN manifests[Env(p)] # NoSpec
                                 ELSE Registered(Env(p))

Load(p) ==
  /\ pc[p] = "load"
  /\ CanLoad(p)
  /\ stored' = [stored EXCEPT ![p] = GetByName(Env(p))]
  /\ Goto(p, IF Registered(Env(p)) THEN "envLock" ELSE "record")
  /\ UNCHANGED <<lockVars, storeVars, podmanVars, job, plan, indexCopy, todo,
                 startedBy, boundVars>>

-----------------------------------------------------------------------------
(* env init writes the manifest, then registers the name.                  *)
InitDefaults(m) == m.mode = "exclusive" /\ ~m.internal /\ m.project # NoProject

InitManifest(p) ==
  /\ pc[p] = "init"
  /\ manifests[Env(p)] = NoSpec
  /\ \E m \in Manifests :
       /\ InitDefaults(m)
       /\ manifests' = [manifests EXCEPT ![Env(p)] = m]
  /\ Goto(p, "record")
  /\ UNCHANGED <<lockVars, index, records, homes, podmanVars, localVars,
                 startedBy, boundVars>>

(* Register: a name the index already has is reused; otherwise the state   *)
(* file of a new UUID is written first, the copy of the index after it.    *)
(* A new UUID is one that no file, container or process knows.             *)
AfterRegister(p) == IF Cmd(p) = "init" THEN "ok" ELSE "envLock"

Awaited(i) == \E q \in Procs : i \in todo[q]

FreshIds == {i \in Ids : records[i].id = NoId /\ ~Exists(i) /\ ~Awaited(i)}

ReuseRecord(p) ==
  /\ pc[p] = "record"
  /\ Registered(Env(p))
  /\ stored' = [stored EXCEPT ![p] = GetByName(Env(p))]
  /\ Goto(p, AfterRegister(p))
  /\ UNCHANGED <<lockVars, storeVars, podmanVars, job, plan, indexCopy, todo,
                 startedBy, boundVars>>

(* Mutant: the index is written before the state file.                     *)
RegisterRecord_IndexFirst(p) ==
  /\ pc[p] = "record"
  /\ ~Registered(Env(p))
  /\ \E i \in FreshIds :
       /\ index' = [index EXCEPT ![Env(p)] = i]
       /\ stored' = [stored EXCEPT ![p] = NewRecord(i, Env(p))]
  /\ indexCopy' = [indexCopy EXCEPT ![p] = index']
  /\ Goto(p, "index")
  /\ UNCHANGED <<lockVars, manifests, records, homes, podmanVars, job, plan, todo,
                 startedBy, boundVars>>

RegisterRecord(p) ==
  /\ pc[p] = "record"
  /\ ~Registered(Env(p))
  /\ \E i \in FreshIds :
       /\ SaveState(NewRecord(i, Env(p)))
       /\ stored' = [stored EXCEPT ![p] = NewRecord(i, Env(p))]
  /\ indexCopy' = [indexCopy EXCEPT ![p] = index]
  /\ Goto(p, "index")
  /\ UNCHANGED <<lockVars, manifests, index, homes, podmanVars, job, plan, todo,
                 startedBy, boundVars>>

RegisterIndex(p) ==
  /\ pc[p] = "index"
  /\ index' = [indexCopy[p] EXCEPT ![Env(p)] = stored[p].id]
  /\ indexCopy' = [indexCopy EXCEPT ![p] = NoIndex]
  /\ Goto(p, AfterRegister(p))
  /\ UNCHANGED <<lockVars, manifests, records, homes, podmanVars, job, stored,
                 plan, todo, startedBy, boundVars>>

(* The environment lock, on the UUID read before it.                       *)
AcquireEnvironment(p) ==
  /\ pc[p] = "envLock"
  /\ AcquireEnvironmentLock(p, stored[p].id)
  /\ Goto(p, CASE Cmd(p) = "stop" -> "stop"
               [] Cmd(p) = "delete" -> "deleteContainer"
               [] OTHER -> "plan")
  /\ UNCHANGED <<storeVars, podmanVars, localVars, startedBy, boundVars>>

-----------------------------------------------------------------------------
(* buildEnvironmentPlan reads manifest and state again and looks at the    *)
(* container.  An environment larger than the pool is never planned; the   *)
(* memory of the other running containers counts as well, unless           *)
(* --allow-overcommit is given.                                            *)
OtherMemory(i) == MemoryOf(RunningIds \ {i})

CheckAggregate(running, requested) == running + requested <= PoolMemory

Drifted(i, m) ==
  /\ Exists(i)
  /\ \/ containers[i].spec # m
     \/ records[i].spec \notin {NoSpec, m}

(* Mutant: an environment is held against the pool by itself.              *)
CanPlan_Alone(p) ==
  LET m == manifests[Env(p)]
  IN  /\ m # NoSpec
      /\ index[Env(p)] # NoId
      /\ m.memory <= PoolMemory

CanPlan(p) ==
  LET m == manifests[Env(p)]
      i == index[Env(p)]
  IN  /\ m # NoSpec
      /\ i # NoId
      /\ m.memory <= PoolMemory
      /\ \/ CheckAggregate(OtherMemory(i), m.memory)
         \/ job[p].overcommit

BuildPlan(p) ==
  /\ pc[p] \in {"plan", "replan"}
  /\ CanPlan(p)
  /\ LET m == manifests[Env(p)]
         i == index[Env(p)]
     IN  plan' = [plan EXCEPT ![p] =
           [id |-> i, spec |-> m, exists |-> Exists(i), running |-> Running(i),
            drifted |-> Drifted(i, m),
            restart |-> IF pc[p] = "replan" THEN @.restart ELSE Running(i)]]
  /\ Goto(p, IF Cmd(p) # "recreate" THEN "project"
             ELSE IF pc[p] = "plan" THEN "teardown" ELSE "apply")
  /\ UNCHANGED <<lockVars, storeVars, podmanVars, job, stored, indexCopy, todo,
                 startedBy, boundVars>>

(* Unless the mode is "allow", the project lock is held from the           *)
(* concurrency check until the container runs and is recorded.             *)
UsesProjectLock(p) ==
  plan[p].spec.project # NoProject /\ plan[p].spec.mode # "allow"

SkipProject(p) ==
  /\ pc[p] = "project"
  /\ ~UsesProjectLock(p)
  /\ Goto(p, "apply")
  /\ UNCHANGED <<lockVars, storeVars, podmanVars, localVars, startedBy, boundVars>>

AcquireProject(p) ==
  /\ pc[p] = "project"
  /\ UsesProjectLock(p)
  /\ AcquireProjectLock(p, plan[p].spec.project)
  /\ Goto(p, "enforce")
  /\ UNCHANGED <<storeVars, podmanVars, localVars, startedBy, boundVars>>

(* enforceProjectConcurrency: another environment's container runs on the  *)
(* project of m, and the mode of m does not admit that.                    *)
Shares(i, j, m) == j # i /\ Running(j) /\ containers[j].spec.project = m.project

Admits(m) == m.mode = "allow" \/ (m.mode = "read-only-secondary" /\ m.readOnly)

ProjectConflict(p) ==
  /\ \E j \in Ids : Shares(plan[p].id, j, plan[p].spec)
  /\ ~Admits(plan[p].spec)

(* Mutant: the shared locks are released as soon as the check has passed.  *)
EnforceProjectConcurrency_Released(p) ==
  /\ pc[p] = "enforce"
  /\ ~ProjectConflict(p)
  /\ Goto(p, "apply")
  /\ ReleaseSharedLocks(p)
  /\ UNCHANGED <<storeVars, podmanVars, localVars, startedBy, boundVars>>

EnforceProjectConcurrency(p) ==
  /\ pc[p] = "enforce"
  /\ ~ProjectConflict(p)
  /\ Goto(p, "apply")
  /\ UNCHANGED <<lockVars, storeVars, podmanVars, localVars, startedBy, boundVars>>

-----------------------------------------------------------------------------
(* applyPlan: refuse drift, make network and home, create the container,   *)
(* start it, and only then save the state file.                            *)
(* Mutant: drift is not refused.                                           *)
PrepareResources_Drifted(p) ==
  /\ pc[p] = "apply"
  /\ networks' = IF plan[p].spec.internal THEN networks \cup {plan[p].id} ELSE networks
  /\ homes' = homes \cup {plan[p].id}
  /\ Goto(p, "create")
  /\ UNCHANGED <<lockVars, manifests, index, records, containers, localVars,
                 startedBy, boundVars>>

PrepareResources(p) ==
  /\ pc[p] = "apply"
  /\ ~plan[p].drifted
  /\ networks' = IF plan[p].spec.internal THEN networks \cup {plan[p].id} ELSE networks
  /\ homes' = homes \cup {plan[p].id}
  /\ Goto(p, "create")
  /\ UNCHANGED <<lockVars, manifests, index, records, containers, localVars,
                 startedBy, boundVars>>

UseContainer(p) ==
  /\ pc[p] = "create"
  /\ plan[p].exists
  /\ Goto(p, "start")
  /\ UNCHANGED <<lockVars, storeVars, podmanVars, localVars, startedBy, boundVars>>

Create(p) ==
  /\ pc[p] = "create"
  /\ ~plan[p].exists
  /\ CanCreate(plan[p].id, plan[p].spec)
  /\ CreateContainer(plan[p].id, plan[p].spec)
  /\ stored' = [stored EXCEPT ![p].container = TRUE,
                              ![p].network = plan[p].spec.internal]
  /\ Goto(p, "start")
  /\ UNCHANGED <<lockVars, storeVars, networks, job, plan, indexCopy, todo,
                 startedBy, boundVars>>

(* Mutant: recreate always starts the container it made.                   *)
WantsStart_Recreated(p) ==
  ~plan[p].running /\ Cmd(p) \in {"start", "session", "recreate"}

WantsStart(p) ==
  /\ ~plan[p].running
  /\ \/ Cmd(p) \in {"start", "session"}
     \/ Cmd(p) = "recreate" /\ plan[p].restart

SkipStart(p) ==
  /\ pc[p] = "start"
  /\ ~WantsStart(p)
  /\ Goto(p, "save")
  /\ UNCHANGED <<lockVars, storeVars, podmanVars, localVars, startedBy, boundVars>>

Start(p) ==
  /\ pc[p] = "start"
  /\ WantsStart(p)
  /\ Exists(plan[p].id)
  /\ StartContainer(plan[p].id)
  /\ startedBy' = IF Running(plan[p].id) THEN startedBy
                  ELSE [startedBy EXCEPT ![plan[p].id] = p]
  /\ Goto(p, "save")
  /\ UNCHANGED <<lockVars, storeVars, networks, localVars, boundVars>>

(* Mutant: the specification hash is left as it was.                       *)
Applied_OldSpec(p) == stored[p]

Applied(p) == [stored[p] EXCEPT !.spec = plan[p].spec]

Save(p) ==
  /\ pc[p] = "save"
  /\ SaveState(Applied(p))
  /\ stored' = [stored EXCEPT ![p] = Applied(p)]
  /\ Goto(p, IF Cmd(p) = "recreate" THEN "ok" ELSE "release")
  /\ UNCHANGED <<lockVars, manifests, index, homes, podmanVars, job, plan,
                 indexCopy, todo, startedBy, boundVars>>

(* The shared locks go before the session opens, so that an open shell     *)
(* holds its environment lock only.                                        *)
ReleaseShared(p) ==
  /\ pc[p] = "release"
  /\ ReleaseSharedLocks(p)
  /\ Goto(p, IF Cmd(p) = "session" THEN "exec" ELSE "ok")
  /\ UNCHANGED <<storeVars, podmanVars, localVars, startedBy, boundVars>>

-----------------------------------------------------------------------------
(* The body of a session ends, well or not: the shell of env shell, the    *)
(* command of env exec, the checks of env doctor.  A session stops the     *)
(* container only if its own plan found it stopped.                        *)
StopsAtEnd(p) == ~plan[p].running /\ StopOnShellExit

(* Mutants: every session stops the container; only an ephemeral one does. *)
EndSession_Always(p) ==
  /\ pc[p] = "exec"
  /\ Goto(p, IF StopOnShellExit THEN "sessionStop" ELSE "ok")
  /\ UNCHANGED <<lockVars, storeVars, podmanVars, localVars, startedBy, boundVars>>

EndSession_Ephemeral(p) ==
  /\ pc[p] = "exec"
  /\ Goto(p, IF ~plan[p].running /\ plan[p].spec.ephemeral THEN "sessionStop" ELSE "ok")
  /\ UNCHANGED <<lockVars, storeVars, podmanVars, localVars, startedBy, boundVars>>

EndSession(p) ==
  /\ pc[p] = "exec"
  /\ Goto(p, IF StopsAtEnd(p) THEN "sessionStop" ELSE "ok")
  /\ UNCHANGED <<lockVars, storeVars, podmanVars, localVars, startedBy, boundVars>>

SessionStop(p) ==
  /\ pc[p] = "sessionStop"
  /\ Exists(plan[p].id)
  /\ StopContainer(plan[p].id)
  /\ Goto(p, IF plan[p].spec.ephemeral THEN "sessionRemove" ELSE "ok")
  /\ UNCHANGED <<lockVars, storeVars, networks, localVars, startedBy, boundVars>>

(* env stop NAME believes the state file it read: with no container name   *)
(* recorded, or no such container, there is nothing to stop.               *)
HasContainer(p) == stored[p].container /\ Exists(stored[p].id)

CanStop(p) == manifests[Env(p)] # NoSpec

StopNothing(p) ==
  /\ pc[p] = "stop"
  /\ CanStop(p)
  /\ ~HasContainer(p)
  /\ Goto(p, "ok")
  /\ UNCHANGED <<lockVars, storeVars, podmanVars, localVars, startedBy, boundVars>>

Stop(p) ==
  /\ pc[p] = "stop"
  /\ CanStop(p)
  /\ HasContainer(p)
  /\ StopContainer(stored[p].id)
  /\ Goto(p, IF manifests[Env(p)].ephemeral THEN "stopRemove" ELSE "ok")
  /\ UNCHANGED <<lockVars, storeVars, networks, localVars, startedBy, boundVars>>

(* env stop --all holds the global lock only: the list of running          *)
(* containers, then one inspection and stop after the other.               *)
(* Mutant: the list has the containers of registered environments only.    *)
List_Registered(p) ==
  /\ pc[p] = "list"
  /\ todo' = [todo EXCEPT ![p] = {i \in RunningIds : \E n \in Names : index[n] = i}]
  /\ Goto(p, "stopEach")
  /\ UNCHANGED <<lockVars, storeVars, podmanVars, job, stored, plan, indexCopy,
                 startedBy, boundVars>>

List(p) ==
  /\ pc[p] = "list"
  /\ todo' = [todo EXCEPT ![p] = RunningIds]
  /\ Goto(p, "stopEach")
  /\ UNCHANGED <<lockVars, storeVars, podmanVars, job, stored, plan, indexCopy,
                 startedBy, boundVars>>

(* Mutant: a stopped container is not struck off the list.                 *)
StopEach_Again(p) ==
  /\ pc[p] = "stopEach"
  /\ \E i \in todo[p] :
       IF Exists(i) THEN StopContainer(i) ELSE UNCHANGED containers
  /\ UNCHANGED <<lockVars, storeVars, networks, pc, localVars, startedBy, boundVars>>

StopEach(p) ==
  /\ pc[p] = "stopEach"
  /\ \E i \in todo[p] :
       /\ todo' = [todo EXCEPT ![p] = @ \ {i}]
       /\ IF Exists(i) THEN StopContainer(i) ELSE UNCHANGED containers
  /\ UNCHANGED <<lockVars, storeVars, networks, pc, job, stored, plan, indexCopy,
                 startedBy, boundVars>>

StoppedAll(p) ==
  /\ pc[p] = "stopEach"
  /\ todo[p] = {}
  /\ Goto(p, "ok")
  /\ UNCHANGED <<lockVars, storeVars, podmanVars, localVars, startedBy, boundVars>>

(* env recreate: stop and remove what the first plan saw, save the state   *)
(* file without a container, then plan again and apply.                    *)
Teardown(p) ==
  /\ pc[p] = "teardown"
  /\ IF plan[p].exists /\ Exists(plan[p].id)
     THEN StopContainer(plan[p].id) /\ Goto(p, "teardownRemove")
     ELSE UNCHANGED containers /\ Goto(p, "teardownSave")
  /\ UNCHANGED <<lockVars, storeVars, networks, localVars, startedBy, boundVars>>

-----------------------------------------------------------------------------
(* env delete reads manifest and state before it has any lock, and works   *)
(* from what it read.                                                      *)
DeleteRead(p) ==
  /\ pc[p] = "read"
  /\ manifests[Env(p)] # NoSpec
  /\ stored' = [stored EXCEPT ![p] = GetByName(Env(p))]
  /\ Goto(p, "lock")
  /\ UNCHANGED <<lockVars, storeVars, podmanVars, job, plan, indexCopy, todo,
                 startedBy, boundVars>>

DeleteContainer(p) ==
  /\ pc[p] = "deleteContainer"
  /\ IF HasContainer(p)
     THEN StopContainer(stored[p].id) /\ Goto(p, "deleteRemove")
     ELSE UNCHANGED containers /\ Goto(p, "deleteNetwork")
  /\ UNCHANGED <<lockVars, storeVars, networks, localVars, startedBy, boundVars>>

OwnsNetwork(p) == stored[p].network /\ stored[p].id \in networks

DeleteNetwork(p) ==
  /\ pc[p] = "deleteNetwork"
  /\ OwnsNetwork(p) => CanRemoveNetwork(stored[p].id)
  /\ networks' = IF OwnsNetwork(p) THEN networks \ {stored[p].id} ELSE networks
  /\ Goto(p, "unlink")
  /\ UNCHANGED <<lockVars, storeVars, containers, localVars, startedBy, boundVars>>

DeleteManifest(p) ==
  /\ pc[p] = "unlink"
  /\ manifests' = [manifests EXCEPT ![Env(p)] = NoSpec]
  /\ Goto(p, IF stored[p].id = NoId THEN "ok"
             ELSE IF job[p].purge THEN "purge" ELSE "forget")
  /\ UNCHANGED <<lockVars, index, records, homes, podmanVars, localVars,
                 startedBy, boundVars>>

PurgeHome(p) ==
  /\ pc[p] = "purge"
  /\ homes' = homes \ {stored[p].id}
  /\ Goto(p, "forget")
  /\ UNCHANGED <<lockVars, manifests, index, records, podmanVars, localVars,
                 startedBy, boundVars>>

Forget(p) ==
  /\ pc[p] = "forget"
  /\ index' = [index EXCEPT ![Env(p)] = NoId]
  /\ Goto(p, "ok")
  /\ UNCHANGED <<lockVars, manifests, records, homes, podmanVars, localVars,
                 startedBy, boundVars>>

-----------------------------------------------------------------------------
(* podman container rm, where a stop, a session, recreate and delete have  *)
(* come to it, and the state file saved without its container.             *)
AfterRemove ==
  [sessionRemove |-> "sessionSave", stopRemove |-> "stopSave",
   teardownRemove |-> "teardownSave", deleteRemove |-> "deleteNetwork"]

Target(p) == IF pc[p] \in {"sessionRemove", "teardownRemove"} THEN plan[p].id
                                                            ELSE stored[p].id

Remove(p) ==
  /\ pc[p] \in DOMAIN AfterRemove
  /\ CanRemoveContainer(Target(p))
  /\ RemoveContainer(Target(p))
  /\ Goto(p, AfterRemove[pc[p]])
  /\ UNCHANGED <<lockVars, storeVars, networks, localVars, startedBy, boundVars>>

Cleared(p) == [stored[p] EXCEPT !.container = FALSE]

ClearRecord(p) ==
  /\ pc[p] \in {"sessionSave", "stopSave", "teardownSave"}
  /\ SaveState(Cleared(p))
  /\ stored' = [stored EXCEPT ![p] = Cleared(p)]
  /\ Goto(p, IF pc[p] = "teardownSave" THEN "replan" ELSE "ok")
  /\ UNCHANGED <<lockVars, manifests, index, homes, podmanVars, job, plan,
                 indexCopy, todo, startedBy, boundVars>>

(* cagent run: a --rm container of a new session UUID, outside every lock  *)
(* and without a look at the memory of the others.                         *)
RawRun(p) ==
  /\ pc[p] = "run"
  /\ \E i \in FreshIds :
       /\ containers' = [containers EXCEPT ![i] = [status |-> "running", spec |-> RawSpec]]
       /\ todo' = [todo EXCEPT ![p] = {i}]
  /\ Goto(p, "attached")
  /\ UNCHANGED <<lockVars, storeVars, networks, job, stored, plan, indexCopy,
                 startedBy, boundVars>>

EndRawRun(p) ==
  /\ pc[p] = "attached"
  /\ containers' = [i \in Ids |-> IF i \in todo[p] THEN NoContainer ELSE containers[i]]
  /\ Goto(p, "ok")
  /\ UNCHANGED <<lockVars, storeVars, networks, localVars, startedBy, boundVars>>

-----------------------------------------------------------------------------
(* The command has done all it does and returns.                           *)
Return(p) ==
  /\ pc[p] = "ok"
  /\ Leave(p)
  /\ UNCHANGED faults

(* The errors that the state of the world decides.                         *)
Refused(p) ==
  \/ pc[p] = "lock" /\ globalLock # NoProc
  \/ pc[p] = "init" /\ manifests[Env(p)] # NoSpec
  \/ pc[p] = "load" /\ ~CanLoad(p)
  \/ pc[p] = "record" /\ ~Registered(Env(p)) /\ FreshIds = {}
  \/ pc[p] = "envLock" /\ envLock[stored[p].id] # NoProc
  \/ pc[p] \in {"plan", "replan"} /\ ~CanPlan(p)
  \/ pc[p] = "project" /\ UsesProjectLock(p) /\ projectLock[plan[p].spec.project] # NoProc
  \/ pc[p] = "enforce" /\ ProjectConflict(p)
  \/ pc[p] = "apply" /\ plan[p].drifted
  \/ pc[p] = "create" /\ ~plan[p].exists /\ ~CanCreate(plan[p].id, plan[p].spec)
  \/ pc[p] = "start" /\ WantsStart(p) /\ ~Exists(plan[p].id)
  \/ pc[p] = "sessionStop" /\ ~Exists(plan[p].id)
  \/ pc[p] = "stop" /\ ~CanStop(p)
  \/ pc[p] \in DOMAIN AfterRemove /\ ~CanRemoveContainer(Target(p))
  \/ pc[p] = "read" /\ manifests[Env(p)] = NoSpec
  \/ pc[p] = "deleteNetwork" /\ OwnsNetwork(p) /\ ~CanRemoveNetwork(stored[p].id)
  \/ pc[p] = "run" /\ FreshIds = {}

Refuse(p) ==
  /\ Refused(p)
  /\ Leave(p)
  /\ UNCHANGED faults

(* A Podman or file error, or the death of the process, between any two    *)
(* calls: the command ends with what it has done so far.                   *)
Fail(p) ==
  /\ pc[p] # "idle"
  /\ faults < MaxFaults
  /\ faults' = faults + 1
  /\ Leave(p)

(* A container's main process ends by itself.                              *)
ContainerExits(i) ==
  /\ Running(i)
  /\ faults < MaxFaults
  /\ faults' = faults + 1
  /\ StopContainer(i)
  /\ UNCHANGED <<lockVars, storeVars, networks, pc, localVars, startedBy, edits>>

(* A user writes, changes or removes a manifest file by hand.              *)
EditManifest(n) ==
  /\ edits < MaxEdits
  /\ edits' = edits + 1
  /\ \E m \in (Manifests \cup {NoSpec}) \ {manifests[n]} :
       manifests' = [manifests EXCEPT ![n] = m]
  /\ UNCHANGED <<lockVars, index, records, homes, podmanVars, pc, localVars,
                 startedBy, faults>>

-----------------------------------------------------------------------------
Registration(p) ==
  \/ InitManifest(p) \/ ReuseRecord(p) \/ RegisterRecord(p) \/ RegisterIndex(p)

Activation(p) ==
  \/ BuildPlan(p) \/ SkipProject(p) \/ AcquireProject(p)
  \/ EnforceProjectConcurrency(p) \/ PrepareResources(p) \/ UseContainer(p)
  \/ Create(p) \/ SkipStart(p) \/ Start(p) \/ Save(p) \/ ReleaseShared(p)

Removal(p) ==
  \/ SessionStop(p) \/ StopNothing(p) \/ Stop(p) \/ List(p) \/ StopEach(p)
  \/ StoppedAll(p) \/ Teardown(p) \/ Remove(p) \/ ClearRecord(p)
  \/ DeleteRead(p) \/ DeleteContainer(p) \/ DeleteNetwork(p)
  \/ DeleteManifest(p) \/ PurgeHome(p) \/ Forget(p)

(* The steps a process takes by itself.                                    *)
Step(p) ==
  \/ AcquireGlobal(p) \/ Load(p) \/ AcquireEnvironment(p)
  \/ Registration(p) \/ Activation(p) \/ Removal(p)
  \/ RawRun(p) \/ Refuse(p) \/ Return(p)

(* The steps that wait for a user, and those nobody wants.                 *)
User(p) == Invoke(p) \/ EndSession(p) \/ EndRawRun(p)

Environment ==
  \/ \E i \in Ids : ContainerExits(i)
  \/ \E n \in Names : EditManifest(n)

Next ==
  \/ \E p \in Procs : Step(p) \/ User(p) \/ Fail(p)
  \/ Environment

Spec == Init /\ [][Next]_vars

(* No call of the code waits for another process, so a process that can    *)
(* take a step and is not killed takes it.                                 *)
FairSpec == Spec /\ \A p \in Procs : WF_vars(Step(p))
=============================================================================
