-------------------------- MODULE LifecycleProperties --------------------------
(***************************************************************************)
(* What the commands of Lifecycle promise, however they interleave.        *)
(***************************************************************************)
EXTENDS Lifecycle

(* The step in which process p turns the container of i from not running   *)
(* to running (podman container start in applyPlan).                       *)
Starts(p, i) == ~Running(i) /\ Running(i)' /\ startedBy'[i] = p

-----------------------------------------------------------------------------
(* Every entry of the index leads to a state file of that UUID and name,   *)
(* at every instant and after every failure: Register writes the state     *)
(* file before the index, and nothing removes a state file.                *)
RegistryIntegrity ==
  \A n \in Names : Registered(n) =>
    /\ Loadable(index[n])
    /\ records[index[n]].name = n

(* The index is rewritten whole from a copy read earlier.  Even so an      *)
(* entry only ever appears for a name that had none, through that name's   *)
(* own registration, and only disappears through that name's own delete:   *)
(* no other command's copy of the index undoes it.                         *)
NoLostRegistration ==
  [][\A n \in Names : index'[n] # index[n] =>
       \E p \in Procs :
         /\ Env(p) = n
         /\ \/ pc[p] = "index" /\ index[n] = NoId
            \/ pc[p] = "forget" /\ index'[n] = NoId]_vars

(* The plan and the state file a command works with are of one             *)
(* environment, although the plan reads the index again after the          *)
(* environment lock was taken on the UUID read before it.                  *)
PlanIsOfLockedEnvironment ==
  \A p \in Procs : plan[p].id # NoId =>
    /\ plan[p].id = stored[p].id
    /\ envLock[plan[p].id] = p

-----------------------------------------------------------------------------
(* A prepare, start or session starts a container beside a running one of  *)
(* another environment on the same project only if its own mode admits     *)
(* company: the check made earlier still holds when podman start runs.     *)
StartRespectsProject ==
  [][\A p \in Procs, i \in Ids :
       Starts(p, i) /\ Cmd(p) \in ActivateCommands =>
         LET m == containers[i].spec
         IN  \/ m.project = NoProject
             \/ Admits(m)
             \/ ~\E j \in Ids : Shares(i, j, m)]_vars

(* What starts is the container of the planned specification: a container  *)
(* that drifted from its manifest, or that another process put in its      *)
(* place after the plan, is never started.                                 *)
StartsWhatWasPlanned ==
  [][\A p \in Procs, i \in Ids :
       Starts(p, i) => plan[p].id = i /\ containers[i].spec = plan[p].spec]_vars

(* A start without --allow-overcommit leaves the memory of all running     *)
(* environments within the pool, although the sum was taken when the plan  *)
(* was built.  Raw runs started since then ask nobody and do not count.    *)
EnvironmentMemory(i) == MemoryOf({j \in RunningIds \ {i} : ~IsRawRun(j)})

StartWithinPool ==
  [][\A p \in Procs, i \in Ids :
       Starts(p, i) /\ ~job[p].overcommit =>
         EnvironmentMemory(i) + containers[i].spec.memory <= PoolMemory]_vars

(* Two exclusive environments never run on one project at the same time.   *)
ExclusiveProject ==
  \A i, j \in RunningIds :
    i # j =>
      LET a == containers[i].spec
          b == containers[j].spec
      IN  ~(/\ a.project = b.project /\ a.project # NoProject
            /\ a.mode = "exclusive" /\ b.mode = "exclusive")

-----------------------------------------------------------------------------
InSession(p, i) == pc[p] = "exec" /\ plan[p].id = i

(* While a shell or command runs in a container nothing removes the        *)
(* container, and nothing stops it but `stop --all` or the container       *)
(* itself: stop, recreate, delete and other sessions keep out.             *)
SessionUndisturbed ==
  [][\A p \in Procs, i \in Ids :
       InSession(p, i) /\ InSession(p, i)' =>
         /\ Exists(i) => Exists(i)'
         /\ Running(i) /\ ~Running(i)' =>
              faults' # faults \/ \E q \in Procs : pc[q] = "stopEach"]_vars

(* A session that ends stops a container only if it started that container *)
(* itself, also when several sessions and starts follow one another.       *)
SessionStopsOwnStart ==
  [][\A p \in Procs, i \in Ids :
       /\ pc[p] = "sessionStop" /\ pc'[p] # "sessionStop"
       /\ Running(i) /\ ~Running(i)'
       => startedBy[i] = p]_vars

(* With nothing failing, whenever no command holds an environment, its     *)
(* state file names its container and the specification the container was  *)
(* created from: stop finds it, and no drift is reported that is not       *)
(* there.  (A delete may still go by what it read earlier.)                *)
RecordMatchesContainer ==
  faults = 0 =>
    \A i \in Ids :
      (envLock[i] = NoProc /\ Exists(i) /\ ~IsRawRun(i)) =>
        records[i].container /\ records[i].spec = containers[i].spec

(* A recreate that succeeds leaves a container of the new plan, running    *)
(* only if the old one ran, and, if nothing failed, running if it did.     *)
RecreateKeepsRunState ==
  \A p \in Procs : pc[p] = "ok" /\ Cmd(p) = "recreate" =>
    LET i == plan[p].id
    IN  /\ Exists(i)
        /\ containers[i].spec = plan[p].spec
        /\ Running(i) => plan[p].restart
        /\ plan[p].restart /\ faults = 0 => Running(i)

(* env stop NAME that reports success leaves no running container of the   *)
(* environment.                                                            *)
StopMeansStopped ==
  \A p \in Procs : pc[p] = "ok" /\ Cmd(p) = "stop" => ~Running(stored[p].id)

(* env stop --all that reports success leaves no environment running:      *)
(* whatever started after it listed the containers is a raw run, which     *)
(* asks for no lock.                                                       *)
StopAllLeavesOnlyRawRuns ==
  \A p \in Procs : pc[p] = "ok" /\ Cmd(p) = "stopAll" =>
    \A i \in RunningIds : IsRawRun(i)

(* env delete NAME that reports success leaves no container of an          *)
(* environment of that name behind.                                        *)
DeleteRemovesRuntime ==
  \A p \in Procs : pc[p] = "ok" /\ Cmd(p) = "delete" =>
    \A i \in Ids : records[i].name = Env(p) => ~Exists(i)

-----------------------------------------------------------------------------
(* The inductive invariant behind the safety properties.                   *)

(* Where a process stands while it holds the global lock, and where while  *)
(* it holds the lock of the environment it works on.                       *)
PlannedLabels ==
  {"project", "enforce", "apply", "create", "start", "save", "release"}

PlanningLabels ==
  PlannedLabels \cup {"plan", "replan", "teardown", "teardownRemove", "teardownSave"}

EnvironmentLabels ==
  PlanningLabels \cup
  {"exec", "sessionStop", "sessionRemove", "sessionSave",
   "stop", "stopRemove", "stopSave",
   "deleteContainer", "deleteRemove", "deleteNetwork"}

GlobalLabels ==
  PlanningLabels \cup
  {"init", "load", "record", "index", "envLock", "stop", "stopRemove", "stopSave",
   "list", "stopEach", "deleteContainer", "deleteRemove", "deleteNetwork",
   "unlink", "purge", "forget"}

(* Every command but `stop --all` and `run` works on an environment by     *)
(* name, and those that apply a plan have one.                             *)
JobInv ==
  \A p \in Procs :
    /\ pc[p] = "lock" => Cmd(p) = "stopAll" \/ Env(p) \in Names
    /\ pc[p] \notin {"idle", "lock", "list", "stopEach", "run", "attached", "ok"} =>
         Env(p) \in Names
    /\ pc[p] \in PlannedLabels \cup {"teardown", "teardownRemove"}
                \cup {"exec", "sessionStop", "sessionRemove"} =>
         plan[p].id \in Ids /\ plan[p].spec \in Manifests

(* A process stands at these labels only with the locks they call for, and *)
(* has planned for no environment but the one it has locked.               *)
LockDiscipline ==
  \A p \in Procs :
    /\ pc[p] \in GlobalLabels => globalLock = p
    /\ pc[p] \in EnvironmentLabels =>
         stored[p].id \in Ids /\ envLock[stored[p].id] = p
    /\ pc[p] = "envLock" => stored[p].id # NoId
    /\ pc[p] = "idle" => stored[p].id = NoId
    /\ pc[p] \in {"idle", "read", "lock", "init", "load", "record", "index"} =>
         plan[p].id = NoId
    /\ plan[p].id # NoId => plan[p].id = stored[p].id /\ envLock[plan[p].id] = p

(* The registry and the copies processes hold of parts of it.              *)
RegistryInv ==
  /\ RegistryIntegrity
  /\ \A i \in Ids : records[i].id \in {i, NoId}
  /\ \A p \in Procs :
       /\ stored[p].id # NoId =>
            Loadable(stored[p].id) /\ stored[p].name = records[stored[p].id].name
       /\ stored[p].id # NoId => stored[p].name = Env(p)
       /\ pc[p] = "index" =>
            stored[p].id # NoId /\ indexCopy[p] = index /\ index[Env(p)] = NoId
       /\ (pc[p] = "envLock" /\ Cmd(p) # "delete") \/ pc[p] \in PlanningLabels =>
            index[Env(p)] = stored[p].id

(* Raw runs keep to UUIDs of their own.                                    *)
RawRunInv ==
  /\ \A i \in Ids : Exists(i) /\ records[i].id # NoId => ~IsRawRun(i)
  /\ \A i \in Ids : records[i].id = NoId => startedBy[i] = NoProc
  /\ \A p \in Procs : pc[p] = "attached" => \A i \in todo[p] : records[i].id = NoId

(* A plan says whether there is a container until applyPlan uses it.       *)
ExistsAsPlanned(p) ==
  pc[p] \in {"project", "enforce", "apply", "create"} =>
    plan[p].exists = Exists(plan[p].id)

(* The container of a plan without drift is of the planned specification,  *)
(* and so is the one that applyPlan goes on to start.                      *)
SpecAsPlanned(p) ==
  LET m == plan[p].spec
      i == plan[p].id
  IN  /\ pc[p] \in {"project", "enforce", "apply"} /\ ~plan[p].drifted /\ Exists(i) =>
           containers[i].spec = m
      /\ pc[p] \in {"create", "start"} /\ Exists(i) => containers[i].spec = m

(* The answer of the concurrency check stays true until podman start.      *)
ProjectAsChecked(p) ==
  LET m == plan[p].spec
      i == plan[p].id
  IN  pc[p] \in {"apply", "create", "start"} /\ Cmd(p) \in ActivateCommands =>
        \/ m.project = NoProject
        \/ Admits(m)
        \/ ~\E j \in Ids : Shares(i, j, m)

PlanInv == \A p \in Procs : ExistsAsPlanned(p) /\ SpecAsPlanned(p) /\ ProjectAsChecked(p)

(* State files carry the name of an environment, and every container but   *)
(* those of raw runs is of a UUID that has a state file.  (The refinement  *)
(* needs it beside IInv.)                                                  *)
OwnershipInv ==
  \A i \in Ids :
    /\ records[i].id # NoId => records[i].name \in Names
    /\ Exists(i) /\ ~IsRawRun(i) => records[i].id # NoId

IInv == TypeOK /\ JobInv /\ LockDiscipline /\ RegistryInv /\ RawRunInv /\ PlanInv

-----------------------------------------------------------------------------
(* The lifecycle implements EnvironmentSpec: the steps of all commands,    *)
(* with their locks, stale reads and failures, are seen from outside as    *)
(* atomic steps of single environments.  A session is open while its body  *)
(* runs; a UUID is owned from the writing of its state file on.            *)
OwnerOf(i) == IF records[i].id = NoId THEN NoName ELSE records[i].name
SessionOf(p) == IF pc[p] = "exec" THEN plan[p].id ELSE NoId

Abstract == INSTANCE EnvironmentSpec WITH
  Specs    <- Manifests,
  Users    <- Procs,
  registry <- index,
  owner    <- [i \in Ids |-> OwnerOf(i)],
  status   <- [i \in Ids |-> containers[i].status],
  spec     <- [i \in Ids |-> containers[i].spec],
  session  <- [p \in Procs |-> SessionOf(p)]

ImplementsEnvironments == Abstract!Spec

-----------------------------------------------------------------------------
(* The global lock is free again and again: an open shell never keeps it,  *)
(* so no session keeps the commands of other environments out for good.    *)
GlobalLockRecurs == []<>(globalLock = NoProc)

(* Every command comes to its end, or to the shell it serves.              *)
CommandsReturn ==
  \A p \in Procs : pc[p] \notin {"idle", "exec", "attached"} ~>
                   pc[p] \in {"idle", "exec", "attached"}

(* Where all users run sessions and leave them, and nothing fails, no      *)
(* container keeps running for good: whichever sessions overlap or refuse  *)
(* one another, the one that started a container stops it.                 *)
OnlySessions == faults = 0 /\ \A p \in Procs : Cmd(p) \in {"none", "session"}

SessionsLeaveNothingRunning ==
  []OnlySessions /\ (\A p \in Procs : []<>(pc[p] # "exec"))
    => \A i \in Ids : Running(i) ~> ~Running(i)
=============================================================================
