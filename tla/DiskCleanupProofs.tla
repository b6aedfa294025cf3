--------------------------- MODULE DiskCleanupProofs ---------------------------
(***************************************************************************)
(* Theorems of DiskCleanup, for every value of its constants: what the     *)
(* lifecycle commands promise holds beside a cleanup that takes no lock,   *)
(* and the cleanup spares what was registered when it read the index.      *)
(***************************************************************************)
EXTENDS DiskCleanup, LifecycleProofs

(* What plans and checks found, but for the existence of the container:    *)
(* cleanup may take the container of an environment that was registered    *)
(* after it read the index, between the plan and the start.                *)
PlansHold == \A p \in Procs : SpecAsPlanned(p) /\ ProjectAsChecked(p)

(* The candidates are of no environment in the index that was read.  State *)
(* files stay, so a raw run never has a UUID of that index.                *)
CandidatesInv ==
  /\ sweep = "idle" => doomedContainers = {} /\ doomedNetworks = {}
  /\ \A i \in indexed : /\ i \notin doomedContainers \cup doomedNetworks
                        /\ records[i].id # NoId

SystemInv == WorkInv /\ RawRunInv /\ PlansHold /\ SweepTypeOK /\ CandidatesInv

(* All that the steps of the cleanup do to the rest of the system: stopped *)
(* containers and networks go, and a failure is counted.                   *)
TakesAway ==
  /\ UNCHANGED <<lockVars, storeVars, pc, localVars, startedBy, edits>>
  /\ networks' \subseteq networks
  /\ faults' \in 0..MaxFaults
  /\ containers' \in [Ids -> Container]
  /\ \A i \in Ids : \/ containers'[i] = containers[i]
                    \/ containers[i].status = "stopped" /\ containers'[i] = NoContainer

LEMMA CleanupTakesAway ==
  ASSUME WorkInv, SweepTypeOK, Sweep \/ SweepFails
  PROVE  TakesAway
<1> USE DEF lockVars, storeVars, podmanVars, localVars, boundVars
<1>1. /\ containers \in [Ids -> Container] /\ faults \in 0..MaxFaults
      /\ NoContainer \in Container
  BY DEF WorkInv, TypeOK, PodmanTypeOK, Container, NoContainer
<1>2. CASE LoadIndex \/ ListContainers \/ ListNetworks
  BY <1>1, <1>2 DEF LoadIndex, ListContainers, ListNetworks, vars, TakesAway
<1>3. ASSUME NEW i \in Ids, SweepContainer(i) PROVE TakesAway
  BY <1>1, <1>3 DEF SweepContainer, CanRemoveContainer, RemoveContainer, TakesAway
<1>4. ASSUME NEW i \in Ids, SweepNetwork(i) PROVE TakesAway
  BY <1>1, <1>4 DEF SweepNetwork, TakesAway
<1>5. CASE SweepEnds
  BY <1>1, <1>5 DEF SweepEnds, EndSweep, TakesAway
<1>6. CASE SweepFails
  BY <1>1, <1>6, LifecycleAssumption DEF SweepFails, EndSweep, TakesAway
<1> QED
  BY <1>2, <1>3, <1>4, <1>5, <1>6 DEF Sweep

(* Nothing that commands rely on is lost with a stopped container.         *)
LEMMA TakingAwayKeeps ==
  ASSUME WorkInv, RawRunInv, PlansHold, TakesAway
  PROVE  WorkInv' /\ RawRunInv' /\ PlansHold'
<1> USE DEF TakesAway, lockVars, storeVars, localVars
<1>1. TypeOK'
  BY DEF WorkInv, TypeOK, LocksTypeOK, StoreTypeOK, PodmanTypeOK
<1>2. JobInv' /\ LockDiscipline' /\ RegistryInv'
  <2>1. JobInv'
    BY DEF WorkInv, JobInv, Cmd, Env
  <2>2. LockDiscipline'
    BY DEF WorkInv, LockDiscipline
  <2>3. RegistryInv'
    BY DEF WorkInv, RegistryInv, RegistryIntegrity, Registered, Loadable, Env, Cmd
  <2> QED
    BY <2>1, <2>2, <2>3
<1>3. \A i \in Ids : /\ Exists(i)' => Exists(i) /\ containers'[i] = containers[i]
                     /\ Running(i)' => Running(i)
  BY DEF Exists, Running, NoContainer
<1>4. RawRunInv'
  BY <1>3 DEF RawRunInv, IsRawRun
<1>5. ASSUME NEW p \in Procs PROVE (SpecAsPlanned(p) /\ ProjectAsChecked(p))'
  <2>1. pc[p] \in {"project", "enforce", "apply", "create", "start"} => plan[p].id \in Ids
    BY DEF WorkInv, JobInv, PlannedLabels
  <2>2. SpecAsPlanned(p)'
    BY <1>3, <2>1 DEF PlansHold, SpecAsPlanned
  <2>3. \A j \in Ids : Running(j)' => Running(j) /\ containers'[j] = containers[j]
    BY <1>3 DEF Running, Exists
  <2>4. ProjectAsChecked(p)'
    BY <2>1, <2>3 DEF PlansHold, ProjectAsChecked, Shares, Cmd
  <2> QED
    BY <2>2, <2>4
<1> QED
  BY <1>1, <1>2, <1>4, <1>5 DEF WorkInv, PlansHold

(* No command removes a state file.                                        *)
LEMMA StateFilesStay ==
  ASSUME WorkInv, Next, NEW i \in Ids, records[i].id # NoId
  PROVE  records'[i].id # NoId
<1> USE DEF storeVars
<1>1. records \in [Ids -> Record] /\ stored \in [Procs -> Record]
  BY DEF WorkInv, TypeOK, StoreTypeOK
<1>2. ASSUME NEW r \in Record, r.id # NoId, SaveState(r) PROVE records'[i].id # NoId
  BY <1>1, <1>2 DEF SaveState
<1>3. ASSUME NEW p \in Procs, Step(p) PROVE records'[i].id # NoId
  <2>1. CASE Registration(p)
    <3>1. CASE RegisterRecord(p)
      BY <1>1, <3>1, StoreAssumption DEF RegisterRecord, FreshIds, SaveState, NewRecord
    <3> QED
      BY <2>1, <3>1 DEF Registration, InitManifest, ReuseRecord, RegisterIndex
  <2>2. CASE Activation(p)
    <3>1. CASE Save(p)
      <4>1. stored[p].id \in Ids
        BY <3>1 DEF Save, WorkInv, LockDiscipline, EnvironmentLabels, PlanningLabels,
                    PlannedLabels
      <4>2. records' = [records EXCEPT ![stored[p].id] = Applied(p)]
            /\ Applied(p).id = stored[p].id
        BY <1>1, <3>1 DEF Save, SaveState, Applied, Record
      <4> QED
        BY <1>1, <4>1, <4>2, StoreAssumption
    <3> QED
      BY <2>2, <3>1
         DEF Activation, BuildPlan, SkipProject, AcquireProject, EnforceProjectConcurrency,
             PrepareResources, UseContainer, Create, SkipStart, Start, ReleaseShared
  <2>3. CASE Removal(p)
    <3>1. CASE ClearRecord(p)
      <4>1. stored[p].id \in Ids
        BY <3>1 DEF ClearRecord, WorkInv, LockDiscipline, EnvironmentLabels, PlanningLabels
      <4>2. records' = [records EXCEPT ![stored[p].id] = Cleared(p)]
            /\ Cleared(p).id = stored[p].id
        BY <1>1, <3>1 DEF ClearRecord, SaveState, Cleared, Record
      <4> QED
        BY <1>1, <4>1, <4>2, StoreAssumption
    <3> QED
      BY <2>3, <3>1
         DEF Removal, SessionStop, StopNothing, Stop, List, StopEach, StoppedAll,
             Teardown, Remove, DeleteRead, DeleteContainer, DeleteNetwork,
             DeleteManifest, PurgeHome, Forget
  <2>4. CASE AcquireGlobal(p) \/ Load(p) \/ AcquireEnvironment(p) \/ RawRun(p)
             \/ Refuse(p) \/ Return(p)
    BY <2>4 DEF AcquireGlobal, Load, AcquireEnvironment, RawRun, Refuse, Return, Leave
  <2> QED
    BY <1>3, <2>1, <2>2, <2>3, <2>4 DEF Step
<1>4. ASSUME NEW p \in Procs, User(p) \/ Fail(p) PROVE records'[i].id # NoId
  BY <1>4 DEF User, Invoke, EndSession, EndRawRun, Fail, Leave
<1>5. CASE Environment
  BY <1>5 DEF Environment, ContainerExits, EditManifest
<1> QED
  BY <1>3, <1>4, <1>5 DEF Next

-----------------------------------------------------------------------------
LEMMA SystemInitial ==
  ASSUME SystemInit
  PROVE  SystemInv
<1>1. WorkInv
  BY WorkInit DEF SystemInit
<1>2. RawRunInv
  BY DEF SystemInit, Init, PodmanInit, RawRunInv, Exists, NoContainer
<1>3. PlansHold
  BY DEF SystemInit, Init, PlansHold, SpecAsPlanned, ProjectAsChecked
<1>4. SweepTypeOK /\ CandidatesInv
  BY DEF SystemInit, SweepInit, SweepTypeOK, CandidatesInv
<1> QED
  BY <1>1, <1>2, <1>3, <1>4 DEF SystemInv

(* A step of the commands, beside which candidates may only be lost.       *)
LEMMA CommandBeside ==
  ASSUME SystemInv, Next, Beside
  PROVE  SystemInv'
<1>1. WorkInv /\ RawRunInv /\ PlansHold /\ SweepTypeOK /\ CandidatesInv
  BY DEF SystemInv
<1>2. WorkInv' /\ RawRunInv'
  BY <1>1, WorkStep, RawRunStep
<1>3. ASSUME NEW q \in Procs PROVE (SpecAsPlanned(q) /\ ProjectAsChecked(q))'
  <2>1. SpecAsPlanned(q) /\ ProjectAsChecked(q)
    BY <1>1 DEF PlansHold
  <2>2. ASSUME NEW p \in Procs, Step(p) \/ User(p) \/ Fail(p)
        PROVE  (SpecAsPlanned(q) /\ ProjectAsChecked(q))'
    <3>1. CASE p = q
      BY <1>1, <2>1, <2>2, <3>1, OwnPlanStep
    <3>2. CASE p # q
      BY <1>1, <2>1, <2>2, <3>2, OthersUndisturbed, PlanFrame
    <3> QED
      BY <3>1, <3>2
  <2>3. CASE Environment
    BY <1>1, <2>1, <2>3, EnvironmentUndisturbs, PlanFrame
  <2> QED
    BY <2>2, <2>3 DEF Next
<1>4. SweepTypeOK'
  BY <1>1 DEF Beside, SweepTypeOK
<1>5. CandidatesInv'
  <2>1. \A i \in indexed : i \in Ids /\ records'[i].id # NoId
    BY <1>1, StateFilesStay DEF SweepTypeOK, CandidatesInv
  <2> QED
    BY <1>1, <2>1 DEF Beside, CandidatesInv
<1> QED
  BY <1>2, <1>3, <1>4, <1>5 DEF SystemInv, PlansHold

(* A step of the cleanup.                                                  *)
LEMMA CleanupStep ==
  ASSUME SystemInv, Sweep \/ SweepFails
  PROVE  SystemInv'
<1>1. WorkInv /\ RawRunInv /\ PlansHold /\ SweepTypeOK /\ CandidatesInv
  BY DEF SystemInv
<1>2. TakesAway
  BY <1>1, CleanupTakesAway
<1>3. WorkInv' /\ RawRunInv' /\ PlansHold'
  BY <1>1, <1>2, TakingAwayKeeps
<1>4. records' = records
  BY <1>2 DEF TakesAway, storeVars
<1>5. SweepTypeOK' /\ CandidatesInv'
  <2> USE DEF SweepTypeOK, CandidatesInv
  <2>1. CASE LoadIndex
    <3>1. indexed' = IndexedIds /\ doomedContainers' = {} /\ doomedNetworks' = {}
          /\ sweep' = "containers"
      BY <1>1, <2>1 DEF LoadIndex
    <3>2. \A i \in IndexedIds : i \in Ids /\ records[i].id # NoId
      <4>1. ASSUME NEW n \in Names, index[n] # NoId
            PROVE  index[n] \in Ids /\ records[index[n]].id # NoId
        BY <1>1, <4>1, StoreAssumption
           DEF WorkInv, TypeOK, StoreTypeOK, Index, RegistryInv, RegistryIntegrity,
               Registered, Loadable
      <4> QED
        BY <4>1 DEF IndexedIds
    <3> QED
      BY <1>4, <3>1, <3>2
  <2>2. CASE ListContainers
    BY <1>1, <1>4, <2>2 DEF ListContainers, Reclaimable
  <2>3. CASE ListNetworks
    <3>1. networks \subseteq Ids
      BY <1>1 DEF WorkInv, TypeOK, PodmanTypeOK
    <3> QED
      BY <1>1, <1>4, <2>3, <3>1 DEF ListNetworks, OrphanNetworks
  <2>4. ASSUME NEW i \in Ids, SweepContainer(i) PROVE SweepTypeOK' /\ CandidatesInv'
    BY <1>1, <1>4, <2>4 DEF SweepContainer
  <2>5. ASSUME NEW i \in Ids, SweepNetwork(i) PROVE SweepTypeOK' /\ CandidatesInv'
    BY <1>1, <1>4, <2>5 DEF SweepNetwork
  <2>6. CASE SweepEnds \/ SweepFails
    BY <2>6 DEF SweepEnds, SweepFails, EndSweep
  <2> QED
    BY <2>1, <2>2, <2>3, <2>4, <2>5, <2>6 DEF Sweep
<1> QED
  BY <1>3, <1>5 DEF SystemInv

(* The invariant of the commands beside the cleanup.                       *)
THEOREM SystemInvariant == SystemSpec => []SystemInv
<1>1. SystemInit => SystemInv
  BY SystemInitial
<1>2. SystemInv /\ [SystemNext]_systemVars => SystemInv'
  <2> SUFFICES ASSUME SystemInv, [SystemNext]_systemVars
               PROVE  SystemInv'
    OBVIOUS
  <2>1. CASE Next /\ Beside
    BY <2>1, CommandBeside
  <2>2. CASE Sweep \/ SweepFails
    BY <2>2, CleanupStep
  <2>3. CASE UNCHANGED systemVars
    <3>1. UNCHANGED vars /\ UNCHANGED sweepVars
      BY <2>3 DEF systemVars
    <3>2. TakesAway
      BY <3>1 DEF vars, lockVars, storeVars, podmanVars, localVars, boundVars, TakesAway,
                  SystemInv, WorkInv, TypeOK, PodmanTypeOK
    <3>3. WorkInv' /\ RawRunInv' /\ PlansHold'
      BY <3>2, TakingAwayKeeps DEF SystemInv
    <3>4. SweepTypeOK' /\ CandidatesInv'
      BY <3>1 DEF SystemInv, SweepTypeOK, CandidatesInv, sweepVars, vars, storeVars
    <3> QED
      BY <3>3, <3>4 DEF SystemInv
  <2> QED
    BY <2>1, <2>2, <2>3 DEF SystemNext
<1> QED
  BY <1>1, <1>2, PTL DEF SystemSpec

(* The variables of the cleanup keep their types.                          *)
THEOREM SweepTypeCorrect == SystemSpec => []SweepTypeOK
<1>1. SystemInv => SweepTypeOK
  BY DEF SystemInv
<1> QED
  BY <1>1, SystemInvariant, PTL

-----------------------------------------------------------------------------
(* Registry and lock discipline are those of the commands alone: disk      *)
(* cleanup needs no lock for them.                                         *)
THEOREM RegistryBesideCleanup ==
  SystemSpec => []RegistryIntegrity /\ []PlanIsOfLockedEnvironment /\ NoLostRegistration
<1>1. SystemInv => RegistryIntegrity
  BY DEF SystemInv, WorkInv, RegistryInv
<1>2. SystemInv => PlanIsOfLockedEnvironment
  BY DEF SystemInv, WorkInv, LockDiscipline, PlanIsOfLockedEnvironment
<1>3. SystemInv /\ [SystemNext]_systemVars =>
        [\A n \in Names : index'[n] # index[n] =>
           \E p \in Procs :
             /\ Env(p) = n
             /\ \/ pc[p] = "index" /\ index[n] = NoId
                \/ pc[p] = "forget" /\ index'[n] = NoId]_vars
  <2> SUFFICES ASSUME SystemInv, SystemNext, NEW n \in Names, index'[n] # index[n]
               PROVE  \E p \in Procs :
                        /\ Env(p) = n
                        /\ \/ pc[p] = "index" /\ index[n] = NoId
                           \/ pc[p] = "forget" /\ index'[n] = NoId
    BY DEF systemVars
  <2>1. ~(Sweep \/ SweepFails)
    BY CleanupTakesAway DEF SystemInv, TakesAway, storeVars
  <2>2. Next
    BY <2>1 DEF SystemNext
  <2> QED
    BY <2>2, IndexChange DEF SystemInv
<1> QED
  BY <1>1, <1>2, <1>3, SystemInvariant, PTL DEF SystemSpec, NoLostRegistration

(* A cleanup never starts anything.                                        *)
LEMMA CleanupStartsNothing ==
  ASSUME SystemInv, SystemNext, NEW p \in Procs, NEW i \in Ids, Starts(p, i)
  PROVE  Next
<1>1. CASE Sweep \/ SweepFails
  <2>1. TakesAway
    BY <1>1, CleanupTakesAway DEF SystemInv
  <2> QED
    BY <2>1 DEF TakesAway, NoContainer, Starts, Running
<1> QED
  BY <1>1 DEF SystemNext

(* What starts beside a cleanup is still the container of the plan, made   *)
(* from the planned specification, and admitted on its project: a          *)
(* container that cleanup takes from under a plan can only make the start  *)
(* fail.                                                                   *)
THEOREM StartsBesideCleanup == SystemSpec => StartsWhatWasPlanned /\ StartRespectsProject
<1>1. ASSUME SystemInv, SystemNext, NEW p \in Procs, NEW i \in Ids, Starts(p, i)
      PROVE  /\ plan[p].id = i /\ containers[i].spec = plan[p].spec
             /\ Cmd(p) \in ActivateCommands =>
                  LET m == containers[i].spec
                  IN  \/ m.project = NoProject
                      \/ Admits(m)
                      \/ ~\E j \in Ids : Shares(i, j, m)
  <2>1. Start(p) /\ i = plan[p].id
    BY <1>1, CleanupStartsNothing, StartsByStart DEF SystemInv
  <2>2. pc[p] = "start" /\ Exists(i)
    BY <2>1 DEF Start
  <2>3. containers[i].spec = plan[p].spec
    BY <1>1, <2>1, <2>2 DEF SystemInv, PlansHold, SpecAsPlanned
  <2> QED
    BY <1>1, <2>1, <2>2, <2>3 DEF SystemInv, PlansHold, ProjectAsChecked
<1>2. SystemInv /\ [SystemNext]_systemVars =>
        [\A p \in Procs, i \in Ids :
           Starts(p, i) => plan[p].id = i /\ containers[i].spec = plan[p].spec]_vars
  BY <1>1 DEF systemVars
<1>3. SystemInv /\ [SystemNext]_systemVars =>
        [\A p \in Procs, i \in Ids :
           Starts(p, i) /\ Cmd(p) \in ActivateCommands =>
             LET m == containers[i].spec
             IN  \/ m.project = NoProject
                 \/ Admits(m)
                 \/ ~\E j \in Ids : Shares(i, j, m)]_vars
  BY <1>1 DEF systemVars
<1> QED
  BY <1>2, <1>3, SystemInvariant, PTL DEF SystemSpec, StartsWhatWasPlanned,
     StartRespectsProject

-----------------------------------------------------------------------------
(* The steps that leave every process where it is take neither container   *)
(* nor network of an environment that was ever registered.                 *)
LEMMA StandingStill ==
  ASSUME WorkInv, RawRunInv, Next, pc' = pc, NEW i \in Ids, records[i].id # NoId
  PROVE  (Exists(i) => Exists(i)') /\ (i \in networks => i \in networks')
<1> USE DEF podmanVars, Goto
<1>1. pc \in [Procs -> Labels] /\ PodmanTypeOK
  BY DEF WorkInv, TypeOK
<1>2. Exists(i) => ~IsRawRun(i)
  BY DEF RawRunInv
<1>3. ASSUME NEW k \in Ids, Exists(k), StopContainer(k) PROVE Exists(i) => Exists(i)'
  BY <1>1, <1>2, <1>3, StopEffect
<1>4. ASSUME NEW p \in Procs, pc'[p] # pc[p] PROVE FALSE
  BY <1>4
<1>5. ASSUME NEW p \in Procs, Step(p) \/ User(p) \/ Fail(p)
      PROVE  (Exists(i) => Exists(i)') /\ (i \in networks => i \in networks')
  <2>1. CASE StopEach(p)
    <3>1. PICK k \in todo[p] : IF Exists(k) THEN StopContainer(k) ELSE UNCHANGED containers
      BY <2>1 DEF StopEach
    <3>2. k \in Ids /\ networks' = networks
      BY <2>1 DEF StopEach, WorkInv, TypeOK
    <3> QED
      BY <1>3, <3>1, <3>2 DEF Exists
  <2>2. CASE Registration(p)
    BY <2>2 DEF Registration, InitManifest, ReuseRecord, RegisterRecord, RegisterIndex, Exists
  <2>3. CASE Activation(p)
    <3>1. CASE Create(p) \/ Start(p) \/ PrepareResources(p)
      BY <1>1, <1>4, <3>1 DEF Create, Start, PrepareResources
    <3> QED
      BY <2>3, <3>1
         DEF Activation, BuildPlan, SkipProject, AcquireProject,
             EnforceProjectConcurrency, UseContainer, SkipStart, Save, ReleaseShared, Exists
  <2>4. CASE Removal(p)
    <3>1. CASE SessionStop(p) \/ Stop(p) \/ Teardown(p) \/ DeleteContainer(p) \/ DeleteNetwork(p)
      BY <1>1, <1>4, <3>1 DEF SessionStop, Stop, Teardown, DeleteContainer, DeleteNetwork
    <3>2. CASE Remove(p)
      BY <1>1, <1>4, <3>2 DEF Remove, AfterRemove
    <3> QED
      BY <2>1, <2>4, <3>1, <3>2
         DEF Removal, StopNothing, List, StoppedAll, ClearRecord, DeleteRead,
             DeleteManifest, PurgeHome, Forget, Exists
  <2>5. CASE AcquireGlobal(p) \/ Load(p) \/ AcquireEnvironment(p)
    BY <2>5 DEF AcquireGlobal, Load, AcquireEnvironment, Exists
  <2>6. CASE RawRun(p) \/ EndRawRun(p)
    BY <1>1, <1>4, <2>6 DEF RawRun, EndRawRun
  <2>7. CASE Invoke(p) \/ EndSession(p)
    BY <2>7 DEF Invoke, EndSession, Exists
  <2>8. CASE Refuse(p) \/ Return(p) \/ Fail(p)
    BY <2>8 DEF Refuse, Return, Fail, Leave, Exists
  <2> QED
    BY <1>5, <2>2, <2>3, <2>4, <2>5, <2>6, <2>7, <2>8 DEF Step, User
<1>6. CASE Environment
  BY <1>3, <1>6 DEF Environment, ContainerExits, EditManifest, Running, Exists
<1> QED
  BY <1>5, <1>6 DEF Next

(* An environment that was registered when the index was read loses        *)
(* neither container nor network to the cleanup.                           *)
THEOREM IndexedSpared == SystemSpec => CleanupSparesIndexed
<1>1. ASSUME SystemInv, SystemNext, NEW i \in indexed, pc' = pc
      PROVE  (Exists(i) => Exists(i)') /\ (i \in networks => i \in networks')
  <2>1. /\ i \in Ids /\ records[i].id # NoId
        /\ i \notin doomedContainers /\ i \notin doomedNetworks
    BY <1>1 DEF SystemInv, SweepTypeOK, CandidatesInv
  <2>2. CASE Next
    BY <1>1, <2>1, <2>2, StandingStill DEF SystemInv
  <2>3. ASSUME NEW k \in Ids, SweepContainer(k)
        PROVE  (Exists(i) => Exists(i)') /\ (i \in networks => i \in networks')
    <3>1. k # i /\ networks' = networks
      BY <2>1, <2>3 DEF SweepContainer
    <3>2. containers'[i] = containers[i]
      <4>1. containers \in [Ids -> Container]
        BY <1>1 DEF SystemInv, WorkInv, TypeOK, PodmanTypeOK
      <4> QED
        BY <2>1, <2>3, <3>1, <4>1 DEF SweepContainer, RemoveContainer
    <3> QED
      BY <3>1, <3>2 DEF Exists
  <2>4. ASSUME NEW k \in Ids, SweepNetwork(k)
        PROVE  (Exists(i) => Exists(i)') /\ (i \in networks => i \in networks')
    BY <2>1, <2>4 DEF SweepNetwork, Exists
  <2>5. CASE LoadIndex \/ ListContainers \/ ListNetworks \/ SweepEnds \/ SweepFails
    BY <2>5 DEF LoadIndex, ListContainers, ListNetworks, SweepEnds, SweepFails, EndSweep,
                vars, podmanVars, Exists
  <2> QED
    BY <1>1, <2>2, <2>3, <2>4, <2>5 DEF SystemNext, Sweep
<1>2. SystemInv /\ [SystemNext]_systemVars =>
        [\A i \in indexed :
           sweep = "remove" /\ pc' = pc =>
             /\ Exists(i) => Exists(i)'
             /\ i \in networks => i \in networks']_systemVars
  BY <1>1
<1> QED
  BY <1>2, SystemInvariant, PTL DEF SystemSpec, CleanupSparesIndexed
===============================================================================
