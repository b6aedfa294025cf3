--------------------------- MODULE RefinementProofs ---------------------------
(***************************************************************************)
(* Lifecycle implements EnvironmentSpec: the step simulation.              *)
(***************************************************************************)
EXTENDS LifecycleProofs

Inv == IInv /\ OwnershipInv

(* What the abstract specification sees of a step.                         *)
SameRegistry == index' = index
SameOwners == \A i \in Ids : OwnerOf(i)' = OwnerOf(i)
SameContainers == \A i \in Ids : containers'[i] = containers[i]
SameSessions == \A q \in Procs : SessionOf(q)' = SessionOf(q)

LEMMA Unseen ==
  ASSUME SameRegistry, SameOwners, SameContainers, SameSessions
  PROVE  UNCHANGED Abstract!vars
BY DEF SameRegistry, SameOwners, SameContainers, SameSessions, Abstract!vars

(* A step of p from and to a label outside a session changes no session.   *)
LEMMA SessionFrame ==
  ASSUME NEW p \in Procs, pc[p] # "exec", pc'[p] # "exec",
         \A q \in Procs : q # p => pc'[q] = pc[q] /\ plan'[q] = plan[q]
  PROVE  SameSessions
BY DEF SameSessions, SessionOf

(* Whoever holds the lock of an environment and is not in a session there  *)
(* keeps sessions out of it.                                               *)
LEMMA NotInUse ==
  ASSUME LockDiscipline, NEW p \in Procs, NEW i \in Ids, envLock[i] = p, pc[p] # "exec"
  PROVE  ~Abstract!InUse(i)
BY StoreAssumption DEF LockDiscipline, Abstract!InUse, SessionOf

(* A stop is seen as the stop of an environment, the end of a raw run, or  *)
(* not at all.                                                             *)
LEMMA StopSimulated ==
  ASSUME Inv, NEW i \in Ids, Exists(i), StopContainer(i),
         SameRegistry, SameOwners, SameSessions
  PROVE  [Abstract!Next]_Abstract!vars
<1> USE StoreAssumption
    DEF SameRegistry, SameOwners, SameSessions, Inv, IInv, TypeOK, PodmanTypeOK
<1>1. CASE IsRawRun(i)
  <2>1. OwnerOf(i) = NoName
    BY <1>1 DEF RawRunInv, OwnerOf
  <2>2. \A j \in Ids : containers'[j] = IF j = i THEN NoContainer ELSE containers[j]
    BY <1>1 DEF StopContainer
  <2>3. Abstract!RawEnd({i})
    BY <2>1, <2>2 DEF Abstract!RawEnd, NoContainer
  <2> QED
    BY <2>3 DEF Abstract!Next
<1>2. CASE ~IsRawRun(i) /\ Running(i)
  <2>1. OwnerOf(i) # NoName
    BY <1>2 DEF OwnershipInv, OwnerOf
  <2>2. \A j \in Ids : containers'[j] =
          IF j = i THEN [containers[j] EXCEPT !.status = "stopped"] ELSE containers[j]
    BY <1>2 DEF StopContainer
  <2>3. \A j \in Ids :
          /\ containers'[j].status = IF j = i THEN "stopped" ELSE containers[j].status
          /\ containers'[j].spec = containers[j].spec
    BY <2>2 DEF Container
  <2>4. Abstract!Stop(i)
    BY <1>2, <2>1, <2>3 DEF Abstract!Stop, Running
  <2> QED
    BY <2>4 DEF Abstract!Next
<1>3. CASE ~IsRawRun(i) /\ ~Running(i)
  <2>1. containers[i].status = "stopped"
    BY <1>3 DEF Exists, Running, Container
  <2>2. SameContainers
    BY <1>3, <2>1 DEF StopContainer, SameContainers, Container
  <2> QED
    BY <2>2, Unseen
<1> QED
  BY <1>1, <1>2, <1>3

(* podman create, start and rm, where the environment is registered or     *)
(* owned and nobody is in it.                                              *)
LEMMA CreateSimulated ==
  ASSUME NEW i \in Ids, NEW m \in Manifests, PodmanTypeOK,
         Abstract!IsRegistered(i), ~Abstract!InUse(i), ~Exists(i),
         CreateContainer(i, m), SameRegistry, SameOwners, SameSessions
  PROVE  [Abstract!Next]_Abstract!vars
<1>1. \A j \in Ids : containers'[j] =
        IF j = i THEN [status |-> "stopped", spec |-> m] ELSE containers[j]
  BY DEF CreateContainer, PodmanTypeOK
<1>2. \A j \in Ids :
        /\ containers'[j].status = IF j = i THEN "stopped" ELSE containers[j].status
        /\ containers'[j].spec = IF j = i THEN m ELSE containers[j].spec
  BY <1>1
<1>3. Abstract!Create(i, m)
  BY <1>2 DEF Abstract!Create, Exists, SameRegistry, SameOwners, SameSessions
<1> QED
  BY <1>3 DEF Abstract!Next

LEMMA StartSimulated ==
  ASSUME NEW i \in Ids, PodmanTypeOK,
         Abstract!IsRegistered(i), ~Abstract!InUse(i), Exists(i),
         StartContainer(i), SameRegistry, SameOwners, SameSessions
  PROVE  [Abstract!Next]_Abstract!vars
<1> USE DEF PodmanTypeOK, Container, Running, Exists
<1>1. \A j \in Ids : containers'[j] =
        IF j = i THEN [containers[j] EXCEPT !.status = "running"] ELSE containers[j]
  BY DEF StartContainer
<1>2. \A j \in Ids :
        /\ containers'[j].status = IF j = i THEN "running" ELSE containers[j].status
        /\ containers'[j].spec = containers[j].spec
  BY <1>1
<1>3. CASE Running(i)
  BY <1>1, <1>3, Unseen DEF SameContainers
<1>4. CASE ~Running(i)
  <2>1. Abstract!Start(i)
    BY <1>2, <1>4 DEF Abstract!Start, SameRegistry, SameOwners, SameSessions
  <2> QED
    BY <2>1 DEF Abstract!Next
<1> QED
  BY <1>3, <1>4

LEMMA RemoveSimulated ==
  ASSUME NEW i \in Ids, PodmanTypeOK,
         OwnerOf(i) # NoName, ~Abstract!InUse(i), CanRemoveContainer(i),
         RemoveContainer(i), SameRegistry, SameOwners, SameSessions
  PROVE  [Abstract!Next]_Abstract!vars
<1>1. \A j \in Ids : containers'[j] = IF j = i THEN NoContainer ELSE containers[j]
  BY DEF RemoveContainer, PodmanTypeOK
<1>2. \A j \in Ids :
        /\ containers'[j].status = IF j = i THEN "absent" ELSE containers[j].status
        /\ containers'[j].spec = IF j = i THEN NoSpec ELSE containers[j].spec
  BY <1>1 DEF NoContainer
<1>3. Abstract!Remove(i)
  BY <1>2 DEF Abstract!Remove, CanRemoveContainer, SameRegistry, SameOwners, SameSessions
<1> QED
  BY <1>3 DEF Abstract!Next

(* A raw run starts on a UUID of nobody, and those of nobody end.          *)
LEMMA RawStartSimulated ==
  ASSUME PodmanTypeOK, SameRegistry, SameOwners, SameSessions,
         \E i \in FreshIds :
           containers' = [containers EXCEPT ![i] = [status |-> "running", spec |-> RawSpec]]
  PROVE  [Abstract!Next]_Abstract!vars
<1>1. PICK i \in FreshIds :
        containers' = [containers EXCEPT ![i] = [status |-> "running", spec |-> RawSpec]]
  OBVIOUS
<1>2. i \in Ids /\ OwnerOf(i) = NoName /\ containers[i].status = "absent"
  BY DEF FreshIds, OwnerOf, Exists
<1>3. \A j \in Ids : containers'[j] =
        IF j = i THEN [status |-> "running", spec |-> RawSpec] ELSE containers[j]
  BY <1>1 DEF PodmanTypeOK
<1>4. \A j \in Ids :
        /\ containers'[j].status = IF j = i THEN "running" ELSE containers[j].status
        /\ containers'[j].spec = IF j = i THEN RawSpec ELSE containers[j].spec
  BY <1>3
<1>5. Abstract!RawStart(i)
  BY <1>2, <1>4 DEF Abstract!RawStart, SameRegistry, SameOwners, SameSessions
<1> QED
  BY <1>2, <1>5 DEF Abstract!Next

LEMMA RawEndSimulated ==
  ASSUME SameRegistry, SameOwners, SameSessions, NEW ended \in SUBSET Ids,
         \A i \in ended : OwnerOf(i) = NoName,
         containers' = [i \in Ids |-> IF i \in ended THEN NoContainer ELSE containers[i]]
  PROVE  [Abstract!Next]_Abstract!vars
<1>1. Abstract!RawEnd(ended)
  BY DEF Abstract!RawEnd, NoContainer, SameRegistry, SameOwners, SameSessions
<1> QED
  BY <1>1 DEF Abstract!Next

(* A session opens, in a registered environment that nobody is in.         *)
LEMMA OpenSimulated ==
  ASSUME NEW p \in Procs, NEW i \in Ids,
         Abstract!IsRegistered(i), ~Abstract!InUse(i), SessionOf(p) = NoId,
         \A q \in Procs : SessionOf(q)' = IF q = p THEN i ELSE SessionOf(q),
         SameRegistry, SameOwners, SameContainers
  PROVE  [Abstract!Next]_Abstract!vars
<1>1. Abstract!Open(p, i)
  BY DEF Abstract!Open, SameRegistry, SameOwners, SameContainers
<1> QED
  BY <1>1 DEF Abstract!Next

(* The command that ends leaves its session, if it is in one.              *)
LEMMA LeaveSimulated ==
  ASSUME Inv, NEW p \in Procs, pc'[p] # "exec",
         \A q \in Procs : q # p => pc'[q] = pc[q] /\ plan'[q] = plan[q],
         SameRegistry, SameOwners, SameContainers
  PROVE  [Abstract!Next]_Abstract!vars
<1>1. \A q \in Procs : SessionOf(q)' = IF q = p THEN NoId ELSE SessionOf(q)
  BY DEF SessionOf
<1>2. Abstract!Close(p)
  BY <1>1 DEF Abstract!Close, SameRegistry, SameOwners, SameContainers
<1> QED
  BY <1>2 DEF Abstract!Next

-----------------------------------------------------------------------------
(* Registration: the state file claims the UUID, the index registers it.   *)
LEMMA RegistrationSimulated ==
  ASSUME Inv, NEW p \in Procs, Registration(p)
  PROVE  [Abstract!Next]_Abstract!vars
<1> USE StoreAssumption
    DEF Inv, IInv, TypeOK, StoreTypeOK, PodmanTypeOK, JobInv, Env, Goto,
        storeVars, podmanVars, localVars, SameRegistry, SameOwners, SameContainers
<1>1. SameSessions
  <2>1. /\ pc[p] # "exec" /\ pc'[p] # "exec"
        /\ \A q \in Procs : q # p => pc'[q] = pc[q] /\ plan'[q] = plan[q]
    BY DEF Registration, InitManifest, ReuseRecord, RegisterRecord, RegisterIndex,
           AfterRegister
  <2> QED
    BY <2>1, SessionFrame
<1>2. CASE InitManifest(p) \/ ReuseRecord(p)
  <2>1. SameRegistry /\ SameOwners /\ SameContainers
    BY <1>2 DEF InitManifest, ReuseRecord, OwnerOf
  <2> QED
    BY <1>1, <2>1, Unseen
<1>3. CASE RegisterRecord(p)
  <2>1. PICK i \in FreshIds : SaveState(NewRecord(i, Env(p)))
    BY <1>3 DEF RegisterRecord
  <2>2. Env(p) \in Names /\ i \in Ids
    BY <1>3 DEF RegisterRecord, FreshIds
  <2>3. OwnerOf(i) = NoName /\ containers[i].status = "absent"
    BY <2>1 DEF FreshIds, OwnerOf, Exists
  <2>4. \A j \in Ids : OwnerOf(j)' = IF j = i THEN Env(p) ELSE OwnerOf(j)
    BY <2>1, <2>2 DEF SaveState, NewRecord, OwnerOf
  <2>5. Abstract!Claim(Env(p), i)
    BY <1>1, <1>3, <2>2, <2>3, <2>4
       DEF RegisterRecord, Abstract!Claim, SameSessions
  <2> QED
    BY <2>2, <2>5 DEF Abstract!Next
<1>4. CASE RegisterIndex(p)
  <2>1. /\ stored[p].id \in Ids /\ OwnerOf(stored[p].id) = Env(p)
        /\ indexCopy[p] = index /\ index[Env(p)] = NoId /\ Env(p) \in Names
    BY <1>4 DEF RegisterIndex, RegistryInv, Loadable, OwnerOf, Record
  <2>2. SameOwners /\ SameContainers
    BY <1>4 DEF RegisterIndex, OwnerOf
  <2>3. Abstract!Register(Env(p), stored[p].id)
    BY <1>1, <1>4, <2>1, <2>2 DEF RegisterIndex, Abstract!Register, SameSessions
  <2> QED
    BY <2>1, <2>3 DEF Abstract!Next
<1> QED
  BY <1>2, <1>3, <1>4 DEF Registration

(* What holds of the environment at the steps of applyPlan that count.     *)
LEMMA PlannedEnvironment ==
  ASSUME Inv, NEW p \in Procs, pc[p] \in {"create", "start", "release"}
  PROVE  /\ plan[p].id \in Ids /\ plan[p].spec \in Manifests
         /\ Abstract!IsRegistered(plan[p].id)
         /\ ~Abstract!InUse(plan[p].id)
<1>1. /\ plan[p].id \in Ids /\ plan[p].spec \in Manifests
      /\ Env(p) \in Names
  BY DEF Inv, IInv, JobInv, PlannedLabels
<1>2. stored[p].id = plan[p].id /\ envLock[plan[p].id] = p
  BY <1>1, StoreAssumption DEF Inv, IInv, LockDiscipline
<1>3. index[Env(p)] = plan[p].id
  BY <1>2 DEF Inv, IInv, RegistryInv, PlanningLabels, PlannedLabels
<1>4. ~Abstract!InUse(plan[p].id)
  BY <1>1, <1>2, NotInUse DEF Inv, IInv
<1> QED
  BY <1>1, <1>3, <1>4 DEF Abstract!IsRegistered

(* Activation: the container is created and started, the session opened.   *)
LEMMA ActivationSimulated ==
  ASSUME Inv, NEW p \in Procs, Activation(p)
  PROVE  [Abstract!Next]_Abstract!vars
<1> USE StoreAssumption
    DEF Inv, IInv, TypeOK, StoreTypeOK, PodmanTypeOK, Env, Cmd, Goto,
        storeVars, podmanVars, localVars, SameRegistry, SameOwners, SameContainers
<1> DEFINE env == plan[p].id
<1>1. ASSUME ~ReleaseShared(p)
      PROVE  SameSessions
  <2>1. /\ pc[p] # "exec" /\ pc'[p] # "exec"
        /\ \A q \in Procs : q # p => pc'[q] = pc[q] /\ plan'[q] = plan[q]
    BY <1>1 DEF Activation, BuildPlan, SkipProject, AcquireProject,
         EnforceProjectConcurrency, PrepareResources, UseContainer, Create,
         SkipStart, Start, Save
  <2> QED
    BY <2>1, SessionFrame
<1>2. CASE BuildPlan(p) \/ SkipProject(p) \/ AcquireProject(p)
  <2>1. SameRegistry /\ SameOwners /\ SameContainers /\ ~ReleaseShared(p)
    BY <1>2 DEF BuildPlan, SkipProject, AcquireProject, ReleaseShared, OwnerOf
  <2> QED
    BY <1>1, <2>1, Unseen
<1>3. CASE EnforceProjectConcurrency(p) \/ PrepareResources(p) \/ UseContainer(p)
           \/ SkipStart(p)
  <2>1. SameRegistry /\ SameOwners /\ SameContainers /\ ~ReleaseShared(p)
    BY <1>3 DEF EnforceProjectConcurrency, PrepareResources, UseContainer, SkipStart,
                ReleaseShared, OwnerOf
  <2> QED
    BY <1>1, <2>1, Unseen
<1>4. CASE Create(p)
  <2>1. /\ env \in Ids /\ plan[p].spec \in Manifests
        /\ Abstract!IsRegistered(env) /\ ~Abstract!InUse(env)
    BY <1>4, PlannedEnvironment DEF Create
  <2>2. /\ CreateContainer(env, plan[p].spec) /\ ~Exists(env)
        /\ SameRegistry /\ SameOwners /\ SameSessions
    BY <1>1, <1>4 DEF Create, ReleaseShared, CanCreate, OwnerOf
  <2> QED
    BY <2>1, <2>2, CreateSimulated
<1>5. CASE Start(p)
  <2>1. env \in Ids /\ Abstract!IsRegistered(env) /\ ~Abstract!InUse(env)
    BY <1>5, PlannedEnvironment DEF Start
  <2>2. /\ StartContainer(env) /\ Exists(env)
        /\ SameRegistry /\ SameOwners /\ SameSessions
    BY <1>1, <1>5 DEF Start, ReleaseShared, OwnerOf
  <2> QED
    BY <2>1, <2>2, StartSimulated
<1>6. CASE Save(p)
  <2>1. /\ stored[p].id \in Ids /\ records[stored[p].id].id = stored[p].id
        /\ records[stored[p].id].name = stored[p].name
    BY <1>6 DEF Save, LockDiscipline, EnvironmentLabels, PlanningLabels, PlannedLabels,
                RegistryInv, Loadable
  <2>2. Applied(p).id = stored[p].id /\ Applied(p).name = stored[p].name
    BY DEF Applied, Record
  <2>3. SameOwners
    BY <1>6, <2>1, <2>2 DEF Save, SaveState, OwnerOf
  <2>4. SameRegistry /\ SameContainers /\ ~ReleaseShared(p)
    BY <1>6 DEF Save, ReleaseShared
  <2> QED
    BY <1>1, <2>3, <2>4, Unseen
<1>7. CASE ReleaseShared(p)
  <2>1. env \in Ids /\ Abstract!IsRegistered(env) /\ ~Abstract!InUse(env)
    BY <1>7, PlannedEnvironment DEF ReleaseShared
  <2>2. /\ SameRegistry /\ SameOwners /\ SameContainers /\ SessionOf(p) = NoId
        /\ \A q \in Procs : plan'[q] = plan[q] /\ (q # p => pc'[q] = pc[q])
    BY <1>7 DEF ReleaseShared, OwnerOf, SessionOf
  <2>3. CASE pc'[p] = "exec"
    <3>1. \A q \in Procs : SessionOf(q)' = IF q = p THEN env ELSE SessionOf(q)
      BY <2>2, <2>3 DEF SessionOf
    <3> QED
      BY <2>1, <2>2, <3>1, OpenSimulated
  <2>4. CASE pc'[p] # "exec"
    <3>1. SameSessions
      BY <1>7, <2>2, <2>4, SessionFrame DEF ReleaseShared
    <3> QED
      BY <2>2, <3>1, Unseen
  <2> QED
    BY <2>3, <2>4
<1> QED
  BY <1>2, <1>3, <1>4, <1>5, <1>6, <1>7 DEF Activation

-----------------------------------------------------------------------------
(* The steps that stop, remove, list and delete.                           *)
LEMMA RemovalSimulated ==
  ASSUME Inv, NEW p \in Procs, Removal(p)
  PROVE  [Abstract!Next]_Abstract!vars
<1> USE StoreAssumption
    DEF Inv, IInv, TypeOK, StoreTypeOK, PodmanTypeOK, Env, Cmd, Goto,
        storeVars, podmanVars, localVars, SameRegistry, SameOwners, SameContainers
<1>1. SameSessions
  <2>1. /\ pc[p] # "exec" /\ pc'[p] # "exec"
        /\ \A q \in Procs : q # p => pc'[q] = pc[q] /\ plan'[q] = plan[q]
    BY DEF Removal, SessionStop, StopNothing, Stop, List, StopEach, StoppedAll,
         Teardown, Remove, AfterRemove, ClearRecord, DeleteRead, DeleteContainer,
         DeleteNetwork, DeleteManifest, PurgeHome, Forget
  <2> QED
    BY <2>1, SessionFrame
<1>2. ASSUME NEW i, Exists(i), StopContainer(i), SameRegistry, SameOwners
      PROVE  [Abstract!Next]_Abstract!vars
  <2>1. CASE i \in Ids
    BY <1>1, <1>2, <2>1, StopSimulated
  <2>2. CASE i \notin Ids
    <3>1. SameContainers
      BY <1>2, <2>2 DEF StopContainer
    <3> QED
      BY <1>1, <1>2, <3>1, Unseen
  <2> QED
    BY <2>1, <2>2
<1>3. CASE SessionStop(p) \/ Stop(p)
  BY <1>2, <1>3 DEF SessionStop, Stop, HasContainer, OwnerOf
<1>4. CASE StopEach(p)
  <2>1. SameRegistry /\ SameOwners
    BY <1>4 DEF StopEach, OwnerOf
  <2>2. PICK i \in todo[p] :
          IF Exists(i) THEN StopContainer(i) ELSE UNCHANGED containers
    BY <1>4 DEF StopEach
  <2> QED
    BY <1>1, <1>2, <2>1, <2>2, Unseen
<1>5. CASE Teardown(p) \/ DeleteContainer(p)
  <2>1. SameRegistry /\ SameOwners
    BY <1>5 DEF Teardown, DeleteContainer, OwnerOf
  <2>2. \/ UNCHANGED containers
        \/ \E i : Exists(i) /\ StopContainer(i)
    BY <1>5 DEF Teardown, DeleteContainer, HasContainer
  <2> QED
    BY <1>1, <1>2, <2>1, <2>2, Unseen
<1>6. CASE StopNothing(p) \/ List(p) \/ StoppedAll(p) \/ DeleteRead(p)
  <2>1. SameRegistry /\ SameOwners /\ SameContainers
    BY <1>6 DEF StopNothing, List, StoppedAll, DeleteRead, OwnerOf
  <2> QED
    BY <1>1, <2>1, Unseen
<1>7. CASE DeleteNetwork(p) \/ DeleteManifest(p) \/ PurgeHome(p)
  <2>1. SameRegistry /\ SameOwners /\ SameContainers
    BY <1>7 DEF DeleteNetwork, DeleteManifest, PurgeHome, OwnerOf
  <2> QED
    BY <1>1, <2>1, Unseen
<1>8. CASE Remove(p)
  <2>1. /\ stored[p].id \in Ids /\ envLock[stored[p].id] = p /\ pc[p] # "exec"
        /\ Target(p) = stored[p].id
    BY <1>8 DEF Remove, AfterRemove, Target, JobInv, LockDiscipline,
                EnvironmentLabels, PlanningLabels, PlannedLabels
  <2>2. OwnerOf(Target(p)) # NoName
    BY <2>1 DEF RegistryInv, Loadable, OwnershipInv, OwnerOf
  <2>3. ~Abstract!InUse(Target(p))
    BY <2>1, NotInUse
  <2>4. /\ CanRemoveContainer(Target(p)) /\ RemoveContainer(Target(p))
        /\ SameRegistry /\ SameOwners
    BY <1>8 DEF Remove, OwnerOf
  <2> QED
    BY <1>1, <2>1, <2>2, <2>3, <2>4, RemoveSimulated
<1>9. CASE ClearRecord(p)
  <2>1. /\ stored[p].id \in Ids /\ records[stored[p].id].id = stored[p].id
        /\ records[stored[p].id].name = stored[p].name
    BY <1>9 DEF ClearRecord, LockDiscipline, EnvironmentLabels, PlanningLabels,
                PlannedLabels, RegistryInv, Loadable
  <2>2. Cleared(p).id = stored[p].id /\ Cleared(p).name = stored[p].name
    BY DEF Cleared, Record
  <2>3. SameOwners
    BY <1>9, <2>1, <2>2 DEF ClearRecord, SaveState, OwnerOf
  <2>4. SameRegistry /\ SameContainers
    BY <1>9 DEF ClearRecord
  <2> QED
    BY <1>1, <2>3, <2>4, Unseen
<1>10. CASE Forget(p)
  <2>1. Env(p) \in Names /\ SameOwners /\ SameContainers
    BY <1>10 DEF Forget, JobInv, OwnerOf
  <2>2. Abstract!Forget(Env(p))
    BY <1>1, <1>10, <2>1 DEF Forget, Abstract!Forget, SameSessions
  <2> QED
    BY <2>1, <2>2 DEF Abstract!Next
<1> QED
  BY <1>3, <1>4, <1>5, <1>6, <1>7, <1>8, <1>9, <1>10 DEF Removal

-----------------------------------------------------------------------------
(* Every step of the lifecycle is one of the abstract specification, or    *)
(* is not seen there.                                                      *)
LEMMA StepSimulated ==
  ASSUME Inv, [Next]_vars
  PROVE  [Abstract!Next]_Abstract!vars
<1> USE DEF Goto, lockVars, storeVars, podmanVars, localVars, boundVars
<1>1. /\ pc \in [Procs -> Labels] /\ plan \in [Procs -> Plan]
      /\ PodmanTypeOK /\ todo \in [Procs -> SUBSET Ids]
  BY DEF Inv, IInv, TypeOK
<1>2. ASSUME NEW p \in Procs, AcquireGlobal(p) \/ Load(p) \/ AcquireEnvironment(p) \/ Invoke(p)
      PROVE  [Abstract!Next]_Abstract!vars
  <2>1. SameRegistry /\ SameOwners /\ SameContainers
    BY <1>2 DEF AcquireGlobal, Load, AcquireEnvironment, Invoke,
                SameRegistry, SameOwners, SameContainers, OwnerOf
  <2>2. /\ pc[p] # "exec" /\ pc'[p] # "exec"
        /\ \A q \in Procs : q # p => pc'[q] = pc[q] /\ plan'[q] = plan[q]
    BY <1>1, <1>2 DEF AcquireGlobal, Load, AcquireEnvironment, Invoke
  <2> QED
    BY <2>1, <2>2, SessionFrame, Unseen
<1>3. ASSUME NEW p \in Procs, Refuse(p) \/ Return(p) \/ Fail(p)
      PROVE  [Abstract!Next]_Abstract!vars
  <2>1. Leave(p)
    BY <1>3 DEF Refuse, Return, Fail
  <2>2. SameRegistry /\ SameOwners /\ SameContainers
    BY <2>1 DEF Leave, SameRegistry, SameOwners, SameContainers, OwnerOf
  <2>3. /\ pc'[p] # "exec"
        /\ \A q \in Procs : q # p => pc'[q] = pc[q] /\ plan'[q] = plan[q]
    BY <1>1, <2>1 DEF Leave
  <2> QED
    BY <2>2, <2>3, LeaveSimulated
<1>4. ASSUME NEW p \in Procs, EndSession(p)
      PROVE  [Abstract!Next]_Abstract!vars
  <2>1. SameRegistry /\ SameOwners /\ SameContainers
    BY <1>4 DEF EndSession, SameRegistry, SameOwners, SameContainers, OwnerOf
  <2>2. /\ pc'[p] # "exec"
        /\ \A q \in Procs : q # p => pc'[q] = pc[q] /\ plan'[q] = plan[q]
    BY <1>1, <1>4 DEF EndSession
  <2> QED
    BY <2>1, <2>2, LeaveSimulated
<1>5. ASSUME NEW p \in Procs, RawRun(p) \/ EndRawRun(p)
      PROVE  [Abstract!Next]_Abstract!vars
  <2>1. SameRegistry /\ SameOwners
    BY <1>5 DEF RawRun, EndRawRun, SameRegistry, SameOwners, OwnerOf
  <2>2. SameSessions
    <3>1. /\ pc[p] # "exec" /\ pc'[p] # "exec"
          /\ \A q \in Procs : q # p => pc'[q] = pc[q] /\ plan'[q] = plan[q]
      BY <1>1, <1>5 DEF RawRun, EndRawRun
    <3> QED
      BY <3>1, SessionFrame
  <2>3. CASE RawRun(p)
    BY <1>1, <2>1, <2>2, <2>3, RawStartSimulated DEF RawRun
  <2>4. CASE EndRawRun(p)
    <3>1. \A i \in todo[p] : OwnerOf(i) = NoName
      BY <2>4 DEF EndRawRun, Inv, IInv, RawRunInv, OwnerOf
    <3> QED
      BY <1>1, <2>1, <2>2, <2>4, <3>1, RawEndSimulated DEF EndRawRun
  <2> QED
    BY <1>5, <2>3, <2>4
<1>6. CASE Environment
  <2>1. SameRegistry /\ SameOwners /\ SameSessions
    BY <1>6 DEF Environment, ContainerExits, EditManifest,
                SameRegistry, SameOwners, SameSessions, OwnerOf, SessionOf
  <2>2. ASSUME NEW i \in Ids, ContainerExits(i)
        PROVE  [Abstract!Next]_Abstract!vars
    BY <2>1, <2>2, StopSimulated DEF ContainerExits, Running, Exists
  <2>3. ASSUME NEW n \in Names, EditManifest(n)
        PROVE  [Abstract!Next]_Abstract!vars
    BY <2>1, <2>3, Unseen DEF EditManifest, SameContainers
  <2> QED
    BY <1>6, <2>2, <2>3 DEF Environment
<1>7. CASE UNCHANGED vars
  <2>1. SameRegistry /\ SameOwners /\ SameContainers /\ SameSessions
    BY <1>7 DEF vars, SameRegistry, SameOwners, SameContainers, SameSessions,
                OwnerOf, SessionOf
  <2> QED
    BY <2>1, Unseen
<1>8. ASSUME NEW p \in Procs, Registration(p) \/ Activation(p) \/ Removal(p)
      PROVE  [Abstract!Next]_Abstract!vars
  BY <1>8, RegistrationSimulated, ActivationSimulated, RemovalSimulated
<1> QED
  BY <1>2, <1>3, <1>4, <1>5, <1>6, <1>7, <1>8 DEF Next, Step, User

-----------------------------------------------------------------------------
(* A step that names no state file anew and makes no container keeps       *)
(* ownership.                                                              *)
LEMMA OwnershipFrame ==
  ASSUME OwnershipInv,
         \A i \in Ids : records'[i].id = records[i].id /\ records'[i].name = records[i].name,
         \A i \in Ids : Exists(i)' => Exists(i) /\ containers'[i].spec = containers[i].spec
  PROVE  OwnershipInv'
BY DEF OwnershipInv, IsRawRun

(* The writing of the state file a process holds, with its UUID and name.  *)
LEMMA SavedRecord ==
  ASSUME IInv, NEW p \in Procs, NEW r \in Record, SaveState(r), stored[p].id # NoId,
         r.id = stored[p].id, r.name = stored[p].name
  PROVE  \A i \in Ids : records'[i].id = records[i].id /\ records'[i].name = records[i].name
BY DEF IInv, TypeOK, StoreTypeOK, RegistryInv, Loadable, SaveState

LEMMA OwnershipStep ==
  ASSUME Inv, [Next]_vars
  PROVE  OwnershipInv'
<1> USE DEF Inv, Goto, lockVars, storeVars, podmanVars, localVars, boundVars
<1>1. /\ StoreTypeOK /\ PodmanTypeOK /\ stored \in [Procs -> Record]
      /\ todo \in [Procs -> SUBSET Ids]
  BY DEF IInv, TypeOK
<1>2. ASSUME UNCHANGED <<records, containers>>
      PROVE  OwnershipInv'
  BY <1>2, OwnershipFrame DEF Exists
<1>3. ASSUME UNCHANGED records, NEW i, Exists(i), StopContainer(i)
      PROVE  OwnershipInv'
  <2>1. \A j \in Ids : Exists(j)' => Exists(j) /\ containers'[j].spec = containers[j].spec
    BY <1>1, <1>3, StopEffect
  <2> QED
    BY <1>3, <2>1, OwnershipFrame
<1>4. ASSUME NEW p \in Procs, Registration(p)
      PROVE  OwnershipInv'
  <2>1. CASE RegisterRecord(p)
    <3>1. PICK i \in FreshIds : SaveState(NewRecord(i, Env(p)))
      BY <2>1 DEF RegisterRecord
    <3>2. i \in Ids /\ ~Exists(i) /\ Env(p) \in Names
      BY <2>1, <3>1 DEF RegisterRecord, FreshIds, IInv, JobInv
    <3>3. records' = [records EXCEPT ![i] = NewRecord(i, Env(p))]
      BY <3>1 DEF SaveState, NewRecord
    <3>4. UNCHANGED containers
      BY <2>1 DEF RegisterRecord
    <3> QED
      BY <1>1, <3>2, <3>3, <3>4
         DEF OwnershipInv, NewRecord, Exists, IsRawRun, StoreTypeOK
  <2>2. CASE InitManifest(p) \/ ReuseRecord(p) \/ RegisterIndex(p)
    BY <1>2, <2>2 DEF InitManifest, ReuseRecord, RegisterIndex
  <2> QED
    BY <1>4, <2>1, <2>2 DEF Registration
<1>5. ASSUME NEW p \in Procs, Activation(p)
      PROVE  OwnershipInv'
  <2>1. CASE Create(p)
    <3>1. /\ plan[p].id \in Ids /\ records[plan[p].id].id # NoId
      BY <2>1, StoreAssumption
         DEF Create, IInv, JobInv, LockDiscipline, PlannedLabels, RegistryInv, Loadable
    <3>2. /\ UNCHANGED records
          /\ containers' = [containers EXCEPT ![plan[p].id] =
                              [status |-> "stopped", spec |-> plan[p].spec]]
      BY <2>1 DEF Create, CreateContainer
    <3> QED
      BY <1>1, <3>1, <3>2 DEF OwnershipInv, Exists, IsRawRun, PodmanTypeOK
  <2>2. CASE Start(p)
    <3>1. \A j \in Ids : Exists(j)' => Exists(j) /\ containers'[j].spec = containers[j].spec
      BY <1>1, <2>2 DEF Start, StartContainer, PodmanTypeOK, Container, Exists
    <3> QED
      BY <2>2, <3>1, OwnershipFrame DEF Start
  <2>3. CASE Save(p)
    <3>1. stored[p].id # NoId
      BY <2>3, StoreAssumption
         DEF Save, IInv, LockDiscipline, EnvironmentLabels, PlanningLabels, PlannedLabels
    <3>2. plan[p].spec \in Manifests
      BY <2>3 DEF Save, IInv, JobInv, PlannedLabels
    <3>3. Applied(p) \in Record /\ Applied(p).id = stored[p].id
          /\ Applied(p).name = stored[p].name
      BY <1>1, <3>2 DEF Applied, Record
    <3>4. SaveState(Applied(p)) /\ UNCHANGED containers
      BY <2>3 DEF Save
    <3>5. \A i \in Ids : records'[i].id = records[i].id /\ records'[i].name = records[i].name
      BY <3>1, <3>3, <3>4, SavedRecord
    <3> QED
      BY <3>4, <3>5, OwnershipFrame DEF Exists
  <2>4. CASE BuildPlan(p) \/ SkipProject(p) \/ AcquireProject(p)
    BY <1>2, <2>4 DEF BuildPlan, SkipProject, AcquireProject
  <2>5. CASE EnforceProjectConcurrency(p) \/ PrepareResources(p) \/ UseContainer(p)
    BY <1>2, <2>5 DEF EnforceProjectConcurrency, PrepareResources, UseContainer
  <2>6. CASE SkipStart(p) \/ ReleaseShared(p)
    BY <1>2, <2>6 DEF SkipStart, ReleaseShared
  <2> QED
    BY <1>5, <2>1, <2>2, <2>3, <2>4, <2>5, <2>6 DEF Activation
<1>6. ASSUME NEW p \in Procs, Removal(p)
      PROVE  OwnershipInv'
  <2>1. CASE SessionStop(p) \/ Stop(p) \/ Teardown(p) \/ DeleteContainer(p) \/ StopEach(p)
    <3>1. /\ UNCHANGED records
          /\ UNCHANGED containers \/ \E i : Exists(i) /\ StopContainer(i)
      BY <2>1 DEF SessionStop, Stop, Teardown, DeleteContainer, StopEach, HasContainer
    <3> QED
      BY <1>2, <1>3, <3>1
  <2>2. CASE Remove(p)
    <3>1. \A j \in Ids : Exists(j)' => Exists(j) /\ containers'[j].spec = containers[j].spec
      BY <1>1, <2>2 DEF Remove, RemoveContainer, NoContainer, PodmanTypeOK, Exists
    <3> QED
      BY <2>2, <3>1, OwnershipFrame DEF Remove
  <2>3. CASE ClearRecord(p)
    <3>1. stored[p].id # NoId
      BY <2>3, StoreAssumption
         DEF ClearRecord, IInv, LockDiscipline, EnvironmentLabels, PlanningLabels
    <3>2. Cleared(p) \in Record /\ Cleared(p).id = stored[p].id
          /\ Cleared(p).name = stored[p].name
      BY <1>1 DEF Cleared, Record
    <3>3. SaveState(Cleared(p)) /\ UNCHANGED containers
      BY <2>3 DEF ClearRecord
    <3>4. \A i \in Ids : records'[i].id = records[i].id /\ records'[i].name = records[i].name
      BY <3>1, <3>2, <3>3, SavedRecord
    <3> QED
      BY <3>3, <3>4, OwnershipFrame DEF Exists
  <2>4. CASE StopNothing(p) \/ List(p) \/ StoppedAll(p) \/ DeleteRead(p)
    BY <1>2, <2>4 DEF StopNothing, List, StoppedAll, DeleteRead
  <2>5. CASE DeleteNetwork(p) \/ DeleteManifest(p) \/ PurgeHome(p) \/ Forget(p)
    BY <1>2, <2>5 DEF DeleteNetwork, DeleteManifest, PurgeHome, Forget
  <2> QED
    BY <1>6, <2>1, <2>2, <2>3, <2>4, <2>5 DEF Removal
<1>7. ASSUME NEW p \in Procs, AcquireGlobal(p) \/ Load(p) \/ AcquireEnvironment(p)
      PROVE  OwnershipInv'
  BY <1>2, <1>7 DEF AcquireGlobal, Load, AcquireEnvironment
<1>8. ASSUME NEW p \in Procs, RawRun(p)
      PROVE  OwnershipInv'
  BY <1>1, <1>8 DEF RawRun, OwnershipInv, Exists, IsRawRun, PodmanTypeOK
<1>9. ASSUME NEW p \in Procs, User(p)
      PROVE  OwnershipInv'
  <2>1. CASE EndRawRun(p)
    <3>1. \A j \in Ids : Exists(j)' => Exists(j) /\ containers'[j].spec = containers[j].spec
      BY <2>1 DEF EndRawRun, NoContainer, Exists
    <3> QED
      BY <2>1, <3>1, OwnershipFrame DEF EndRawRun
  <2>2. CASE Invoke(p) \/ EndSession(p)
    BY <1>2, <2>2 DEF Invoke, EndSession
  <2> QED
    BY <1>9, <2>1, <2>2 DEF User
<1>10. ASSUME NEW p \in Procs, Refuse(p) \/ Return(p) \/ Fail(p)
      PROVE  OwnershipInv'
  BY <1>2, <1>10 DEF Refuse, Return, Fail, Leave
<1>11. CASE Environment
  BY <1>2, <1>3, <1>11 DEF Environment, ContainerExits, EditManifest, Running, Exists
<1>12. CASE UNCHANGED vars
  BY <1>2, <1>12 DEF vars
<1> QED
  BY <1>4, <1>5, <1>6, <1>7, <1>8, <1>9, <1>10, <1>11, <1>12 DEF Next, Step

LEMMA OwnershipInvariant == Spec => []OwnershipInv
<1>1. Init => OwnershipInv
  BY DEF Init, StoreInit, PodmanInit, OwnershipInv, NoRecord, NewRecord, NoContainer, Exists
<1>2. IInv /\ OwnershipInv /\ [Next]_vars => OwnershipInv'
  BY OwnershipStep DEF Inv
<1> QED
  BY <1>1, <1>2, InductiveInvariant, PTL DEF Spec

(* The lifecycle, with all its interleavings and failures, implements the  *)
(* abstract specification of environments.                                 *)
THEOREM Refinement == Spec => ImplementsEnvironments
<1>1. Init => Abstract!Init
  BY DEF Init, StoreInit, PodmanInit, Abstract!Init, OwnerOf, SessionOf, NoRecord,
         NewRecord, NoContainer
<1>2. IInv /\ OwnershipInv /\ [Next]_vars => [Abstract!Next]_Abstract!vars
  BY StepSimulated DEF Inv
<1> QED
  BY <1>1, <1>2, InductiveInvariant, OwnershipInvariant, PTL
     DEF Spec, ImplementsEnvironments, Abstract!Spec
===============================================================================
