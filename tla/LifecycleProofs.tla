---------------------------- MODULE LifecycleProofs ----------------------------
(***************************************************************************)
(* Theorems of Lifecycle, for every value of its constants: the inductive  *)
(* invariant, part by part, and what follows from it for the registry and  *)
(* for what a command starts.                                              *)
(***************************************************************************)
EXTENDS LifecycleProperties, TLAPS

(* What the reads and writes of the store and of Podman return and keep.   *)
LEMMA GetByNameType ==
  ASSUME StoreTypeOK, NEW n \in Names
  PROVE  GetByName(n) \in Record
<1>1. CASE Registered(n)
  <2>1. index[n] \in Ids
    BY <1>1 DEF StoreTypeOK, Index, Registered
  <2>2. records[index[n]] \in Record
    BY <2>1 DEF StoreTypeOK
  <2> QED
    BY <1>1, <2>2 DEF GetByName
<1>2. CASE ~Registered(n)
  BY <1>2 DEF GetByName, NoRecord, NewRecord, Record
<1> QED
  BY <1>1, <1>2

(* A registry of integrity answers with the state file of the very name.   *)
LEMMA GetByNameAnswer ==
  ASSUME StoreTypeOK, RegistryIntegrity, NEW n \in Names
  PROVE  LET r == GetByName(n)
         IN  /\ r.id = index[n]
             /\ r.id # NoId => r.id \in Ids /\ r = records[r.id] /\ r.name = n
<1>1. CASE Registered(n)
  BY <1>1 DEF GetByName, RegistryIntegrity, Registered, Loadable, StoreTypeOK, Index
<1>2. CASE ~Registered(n)
  BY <1>2 DEF GetByName, Registered, NoRecord, NewRecord
<1> QED
  BY <1>1, <1>2

(* Saving a state file keeps the type of the store.                        *)
LEMMA SaveStateType ==
  ASSUME StoreTypeOK, NEW r \in Record, SaveState(r)
  PROVE  records' \in [Ids -> Record]
BY DEF StoreTypeOK, SaveState

(* The changes commands make to the state file they hold leave a record.   *)
LEMMA RecordChanges ==
  ASSUME NEW r \in Record
  PROVE  /\ \A m \in Manifests : [r EXCEPT !.spec = m] \in Record
         /\ \A b \in BOOLEAN : [r EXCEPT !.container = b] \in Record
         /\ \A b, c \in BOOLEAN : [r EXCEPT !.container = b, !.network = c] \in Record
BY DEF Record

(* What Podman does to a container leaves the containers typed.            *)
LEMMA ContainerWrites ==
  ASSUME PodmanTypeOK, NEW i
  PROVE  /\ StopContainer(i) => containers' \in [Ids -> Container]
         /\ StartContainer(i) => containers' \in [Ids -> Container]
         /\ RemoveContainer(i) => containers' \in [Ids -> Container]
         /\ \A spec \in Manifests :
              CreateContainer(i, spec) => containers' \in [Ids -> Container]
<1>1. ASSUME StopContainer(i)
      PROVE  containers' \in [Ids -> Container]
  <2>1. CASE IsRawRun(i)
    BY <1>1, <2>1 DEF StopContainer, PodmanTypeOK, Container, NoContainer
  <2>2. CASE ~IsRawRun(i)
    BY <1>1, <2>2 DEF StopContainer, PodmanTypeOK, Container
  <2> QED
    BY <2>1, <2>2
<1>2. ASSUME StartContainer(i)
      PROVE  containers' \in [Ids -> Container]
  BY <1>2 DEF StartContainer, PodmanTypeOK, Container
<1>3. ASSUME RemoveContainer(i)
      PROVE  containers' \in [Ids -> Container]
  BY <1>3 DEF RemoveContainer, PodmanTypeOK, Container, NoContainer
<1>4. ASSUME NEW spec \in Manifests, CreateContainer(i, spec)
      PROVE  containers' \in [Ids -> Container]
  BY <1>4 DEF CreateContainer, PodmanTypeOK, Container
<1> QED
  BY <1>1, <1>2, <1>3, <1>4

(* A process that ends gives its locks and its memory back.                *)
LEMMA LeaveType ==
  ASSUME TypeOK, NEW p \in Procs, Leave(p), faults' \in 0..MaxFaults
  PROVE  TypeOK'
<1> USE DEF TypeOK, Leave, Goto
<1>1. LocksTypeOK'
  BY DEF ReleaseAllLocks, Dropped, LocksTypeOK, Holder
<1>2. StoreTypeOK' /\ PodmanTypeOK' /\ edits' \in 0..MaxEdits
  BY DEF storeVars, podmanVars, StoreTypeOK, PodmanTypeOK
<1>3. pc' \in [Procs -> Labels] /\ job' \in [Procs -> Job]
  BY DEF Labels, Job, NoJob
<1>4. stored' \in [Procs -> Record] /\ plan' \in [Procs -> Plan]
  BY DEF Record, Plan, NoRecord, NewRecord, NoPlan
<1>5. indexCopy' \in [Procs -> Index] /\ todo' \in [Procs -> SUBSET Ids]
  BY DEF Index, NoIndex
<1>6. startedBy' \in [Ids -> Holder]
  BY DEF Dropped, Holder
<1> QED
  BY <1>1, <1>2, <1>3, <1>4, <1>5, <1>6

-----------------------------------------------------------------------------
(* Every step keeps the types: reads and writes of the store need the name *)
(* and the plan that JobInv gives.                                         *)
LEMMA TypeStep ==
  ASSUME TypeOK, JobInv, [Next]_vars
  PROVE  TypeOK'
<1> USE StoreAssumption
    DEF TypeOK, LocksTypeOK, StoreTypeOK, PodmanTypeOK, JobInv, PlannedLabels,
        Goto, Labels, lockVars, storeVars, podmanVars, localVars, boundVars
<1>1. ASSUME NEW p \in Procs, AcquireGlobal(p)
      PROVE  TypeOK'
  BY <1>1 DEF AcquireGlobal, AcquireGlobalLock, Holder
<1>2. ASSUME NEW p \in Procs, Load(p)
      PROVE  TypeOK'
  <2>1. GetByName(Env(p)) \in Record
    BY <1>2, GetByNameType DEF Load
  <2> QED
    BY <1>2, <2>1 DEF Load
<1>3. ASSUME NEW p \in Procs, AcquireEnvironment(p)
      PROVE  TypeOK'
  BY <1>3 DEF AcquireEnvironment, AcquireEnvironmentLock, Holder
<1>4. ASSUME NEW p \in Procs, InitManifest(p)
      PROVE  TypeOK'
  BY <1>4 DEF InitManifest
<1>5. ASSUME NEW p \in Procs, ReuseRecord(p)
      PROVE  TypeOK'
  <2>1. GetByName(Env(p)) \in Record
    BY <1>5, GetByNameType DEF ReuseRecord
  <2> QED
    BY <1>5, <2>1 DEF ReuseRecord, AfterRegister
<1>6. ASSUME NEW p \in Procs, RegisterRecord(p)
      PROVE  TypeOK'
  <2>1. PICK i \in Ids : SaveState(NewRecord(i, Env(p)))
                         /\ stored' = [stored EXCEPT ![p] = NewRecord(i, Env(p))]
    BY <1>6 DEF RegisterRecord, FreshIds
  <2>2. NewRecord(i, Env(p)) \in Record
    BY <1>6 DEF RegisterRecord, NewRecord, Record
  <2>3. records' \in [Ids -> Record]
    BY <2>1, <2>2, SaveStateType
  <2> QED
    BY <1>6, <2>1, <2>2, <2>3 DEF RegisterRecord, Index
<1>7. ASSUME NEW p \in Procs, RegisterIndex(p)
      PROVE  TypeOK'
  BY <1>7 DEF RegisterIndex, Index, NoIndex, Record, AfterRegister
<1>8. ASSUME NEW p \in Procs, BuildPlan(p)
      PROVE  TypeOK'
  <2> DEFINE m == manifests[Env(p)]
             i == index[Env(p)]
  <2>1. m \in Manifests /\ i \in Ids
    BY <1>8 DEF BuildPlan, CanPlan, Index
  <2>2. plan[p] \in Plan
    OBVIOUS
  <2>3. plan[p].restart \in BOOLEAN
    BY <2>2 DEF Plan
  <2>4. PICK r \in BOOLEAN :
          plan' = [plan EXCEPT ![p] =
            [id |-> i, spec |-> m, exists |-> Exists(i), running |-> Running(i),
             drifted |-> Drifted(i, m), restart |-> r]]
    BY <1>8, <2>3 DEF BuildPlan, Running
  <2>5. plan' \in [Procs -> Plan]
    BY <2>1, <2>4 DEF Plan, Exists, Running, Drifted
  <2>6. pc' \in [Procs -> Labels]
    BY <1>8, Zenon DEF BuildPlan
  <2> QED
    BY <1>8, <2>5, <2>6 DEF BuildPlan
<1>9. ASSUME NEW p \in Procs, SkipProject(p)
      PROVE  TypeOK'
  BY <1>9 DEF SkipProject
<1>10. ASSUME NEW p \in Procs, AcquireProject(p)
       PROVE  TypeOK'
  BY <1>10 DEF AcquireProject, AcquireProjectLock, Holder
<1>11. ASSUME NEW p \in Procs, EnforceProjectConcurrency(p)
       PROVE  TypeOK'
  BY <1>11 DEF EnforceProjectConcurrency
<1>12. ASSUME NEW p \in Procs, PrepareResources(p)
       PROVE  TypeOK'
  BY <1>12 DEF PrepareResources, Plan
<1>13. ASSUME NEW p \in Procs, UseContainer(p)
       PROVE  TypeOK'
  BY <1>13 DEF UseContainer
<1>14. ASSUME NEW p \in Procs, Create(p)
       PROVE  TypeOK'
  <2>1. plan[p].spec \in Manifests /\ plan[p].spec.internal \in BOOLEAN
    BY <1>14 DEF Create, ManifestType
  <2>2. containers' \in [Ids -> Container]
    BY <1>14, <2>1, ContainerWrites DEF Create
  <2>3. stored'[p] \in Record
    BY <1>14, <2>1, RecordChanges DEF Create
  <2> QED
    BY <1>14, <2>2, <2>3 DEF Create
<1>15. ASSUME NEW p \in Procs, SkipStart(p)
       PROVE  TypeOK'
  BY <1>15 DEF SkipStart
<1>16. ASSUME NEW p \in Procs, Start(p)
       PROVE  TypeOK'
  <2>1. containers' \in [Ids -> Container]
    BY <1>16, ContainerWrites DEF Start
  <2> QED
    BY <1>16, <2>1 DEF Start, Holder
<1>17. ASSUME NEW p \in Procs, Save(p)
       PROVE  TypeOK'
  <2>1. Applied(p) \in Record
    BY <1>17, RecordChanges DEF Save, Applied
  <2>2. records' \in [Ids -> Record]
    BY <1>17, <2>1, SaveStateType DEF Save
  <2> QED
    BY <1>17, <2>1, <2>2 DEF Save
<1>18. ASSUME NEW p \in Procs, ReleaseShared(p)
       PROVE  TypeOK'
  BY <1>18 DEF ReleaseShared, ReleaseSharedLocks, Dropped, Holder
<1>19. ASSUME NEW p \in Procs, SessionStop(p)
       PROVE  TypeOK'
  <2>1. containers' \in [Ids -> Container]
    BY <1>19, ContainerWrites DEF SessionStop
  <2> QED
    BY <1>19, <2>1 DEF SessionStop
<1>20. ASSUME NEW p \in Procs, StopNothing(p)
       PROVE  TypeOK'
  BY <1>20 DEF StopNothing
<1>21. ASSUME NEW p \in Procs, Stop(p)
       PROVE  TypeOK'
  <2>1. containers' \in [Ids -> Container]
    BY <1>21, ContainerWrites DEF Stop
  <2> QED
    BY <1>21, <2>1 DEF Stop
<1>22. ASSUME NEW p \in Procs, List(p)
       PROVE  TypeOK'
  BY <1>22 DEF List, RunningIds
<1>23. ASSUME NEW p \in Procs, StopEach(p)
       PROVE  TypeOK'
  <2>1. containers' \in [Ids -> Container]
    BY <1>23, ContainerWrites DEF StopEach
  <2> QED
    BY <1>23, <2>1 DEF StopEach
<1>24. ASSUME NEW p \in Procs, StoppedAll(p)
       PROVE  TypeOK'
  BY <1>24 DEF StoppedAll
<1>25. ASSUME NEW p \in Procs, Teardown(p)
       PROVE  TypeOK'
  <2>1. containers' \in [Ids -> Container]
    BY <1>25, ContainerWrites DEF Teardown
  <2> QED
    BY <1>25, <2>1 DEF Teardown
<1>26. ASSUME NEW p \in Procs, Remove(p)
       PROVE  TypeOK'
  <2>1. containers' \in [Ids -> Container]
    BY <1>26, ContainerWrites DEF Remove
  <2> QED
    BY <1>26, <2>1 DEF Remove, AfterRemove
<1>27. ASSUME NEW p \in Procs, ClearRecord(p)
       PROVE  TypeOK'
  <2>1. Cleared(p) \in Record
    BY <1>27, RecordChanges DEF ClearRecord, Cleared
  <2>2. records' \in [Ids -> Record]
    BY <1>27, <2>1, SaveStateType DEF ClearRecord
  <2> QED
    BY <1>27, <2>1, <2>2 DEF ClearRecord
<1>28. ASSUME NEW p \in Procs, DeleteRead(p)
       PROVE  TypeOK'
  <2>1. GetByName(Env(p)) \in Record
    BY <1>28, GetByNameType DEF DeleteRead
  <2> QED
    BY <1>28, <2>1 DEF DeleteRead
<1>29. ASSUME NEW p \in Procs, DeleteContainer(p)
       PROVE  TypeOK'
  <2>1. containers' \in [Ids -> Container]
    BY <1>29, ContainerWrites DEF DeleteContainer
  <2> QED
    BY <1>29, <2>1 DEF DeleteContainer
<1>30. ASSUME NEW p \in Procs, DeleteNetwork(p)
       PROVE  TypeOK'
  BY <1>30 DEF DeleteNetwork
<1>31. ASSUME NEW p \in Procs, DeleteManifest(p)
       PROVE  TypeOK'
  BY <1>31 DEF DeleteManifest
<1>32. ASSUME NEW p \in Procs, PurgeHome(p)
       PROVE  TypeOK'
  BY <1>32 DEF PurgeHome
<1>33. ASSUME NEW p \in Procs, Forget(p)
       PROVE  TypeOK'
  BY <1>33 DEF Forget, Index
<1>34. ASSUME NEW p \in Procs, RawRun(p)
       PROVE  TypeOK'
  BY <1>34 DEF RawRun, FreshIds, Container
<1>35. ASSUME NEW p \in Procs, Invoke(p)
       PROVE  TypeOK'
  <2>1. PICK j \in Job : job' = [job EXCEPT ![p] = j]
    <3>1. PICK c \in Commands, n \in Names \cup {NoName}, over \in BOOLEAN, purge \in BOOLEAN :
            job' = [job EXCEPT ![p] = [cmd |-> c, name |-> n, overcommit |-> over, purge |-> purge]]
      BY <1>35, LifecycleAssumption DEF Invoke
    <3> QED
      BY <3>1, LifecycleAssumption DEF Job
  <2>2. PICK l \in {"read", "run", "lock"} : pc' = [pc EXCEPT ![p] = l]
    <3>1. PICK c \in Commands :
            pc' = [pc EXCEPT ![p] = CASE c = "delete" -> "read" [] c = "run" -> "run" [] OTHER -> "lock"]
      BY <1>35, Zenon DEF Invoke
    <3> QED
      BY <3>1, Zenon
  <2> QED
    BY <1>35, <2>1, <2>2 DEF Invoke
<1>36. ASSUME NEW p \in Procs, EndSession(p)
       PROVE  TypeOK'
  BY <1>36 DEF EndSession
<1>37. ASSUME NEW p \in Procs, EndRawRun(p)
       PROVE  TypeOK'
  BY <1>37 DEF EndRawRun, Container, NoContainer
<1>38. ASSUME NEW p \in Procs, Refuse(p) \/ Return(p) \/ Fail(p)
       PROVE  TypeOK'
  <2>1. Leave(p)
    BY <1>38 DEF Refuse, Return, Fail
  <2>2. faults' \in 0..MaxFaults
    BY <1>38, LifecycleAssumption DEF Refuse, Return, Fail
  <2> QED
    BY <2>1, <2>2, LeaveType
<1>39. ASSUME NEW i \in Ids, ContainerExits(i)
       PROVE  TypeOK'
  <2>1. containers' \in [Ids -> Container]
    BY <1>39, ContainerWrites DEF ContainerExits
  <2>2. faults' \in 0..MaxFaults
    BY <1>39, LifecycleAssumption DEF ContainerExits
  <2> QED
    BY <1>39, <2>1, <2>2 DEF ContainerExits
<1>40. ASSUME NEW n \in Names, EditManifest(n)
       PROVE  TypeOK'
  <2>1. edits' \in 0..MaxEdits
    BY <1>40, LifecycleAssumption DEF EditManifest
  <2> QED
    BY <1>40, <2>1 DEF EditManifest
<1>41. CASE UNCHANGED vars
  BY <1>41 DEF vars
<1> QED
  BY <1>1, <1>2, <1>3, <1>4, <1>5, <1>6, <1>7, <1>8, <1>9, <1>10, <1>11, <1>12, <1>13,
     <1>14, <1>15, <1>16, <1>17, <1>18, <1>19, <1>20, <1>21, <1>22, <1>23, <1>24, <1>25,
     <1>26, <1>27, <1>28, <1>29, <1>30, <1>31, <1>32, <1>33, <1>34, <1>35, <1>36, <1>37,
     <1>38, <1>39, <1>40, <1>41 DEF Next, Step, User, Environment, Registration,
     Activation, Removal

(* Every step keeps names and plans where they are called for.             *)
LEMMA JobStep ==
  ASSUME TypeOK, JobInv, [Next]_vars
  PROVE  JobInv'
<1> USE StoreAssumption
    DEF TypeOK, StoreTypeOK, JobInv, PlannedLabels, Cmd, Env, Goto,
        lockVars, storeVars, podmanVars, localVars, boundVars
<1>1. ASSUME NEW p \in Procs, AcquireGlobal(p)
      PROVE  JobInv'
  BY <1>1 DEF AcquireGlobal, AcquireGlobalLock
<1>2. ASSUME NEW p \in Procs, Load(p)
      PROVE  JobInv'
  BY <1>2 DEF Load, CanLoad
<1>3. ASSUME NEW p \in Procs, AcquireEnvironment(p)
      PROVE  JobInv'
  BY <1>3 DEF AcquireEnvironment, AcquireEnvironmentLock
<1>4. ASSUME NEW p \in Procs, InitManifest(p)
      PROVE  JobInv'
  BY <1>4 DEF InitManifest
<1>5. ASSUME NEW p \in Procs, ReuseRecord(p)
      PROVE  JobInv'
  BY <1>5 DEF ReuseRecord, AfterRegister
<1>6. ASSUME NEW p \in Procs, RegisterRecord(p)
      PROVE  JobInv'
  BY <1>6 DEF RegisterRecord
<1>7. ASSUME NEW p \in Procs, RegisterIndex(p)
      PROVE  JobInv'
  BY <1>7 DEF RegisterIndex, AfterRegister
<1>8. ASSUME NEW p \in Procs, BuildPlan(p)
      PROVE  JobInv'
  BY <1>8 DEF BuildPlan, CanPlan, Index
<1>9. ASSUME NEW p \in Procs, SkipProject(p)
      PROVE  JobInv'
  BY <1>9 DEF SkipProject
<1>10. ASSUME NEW p \in Procs, AcquireProject(p)
       PROVE  JobInv'
  BY <1>10 DEF AcquireProject, AcquireProjectLock
<1>11. ASSUME NEW p \in Procs, EnforceProjectConcurrency(p)
       PROVE  JobInv'
  BY <1>11 DEF EnforceProjectConcurrency
<1>12. ASSUME NEW p \in Procs, PrepareResources(p)
       PROVE  JobInv'
  BY <1>12 DEF PrepareResources
<1>13. ASSUME NEW p \in Procs, UseContainer(p)
       PROVE  JobInv'
  BY <1>13 DEF UseContainer
<1>14. ASSUME NEW p \in Procs, Create(p)
       PROVE  JobInv'
  BY <1>14 DEF Create
<1>15. ASSUME NEW p \in Procs, SkipStart(p)
       PROVE  JobInv'
  BY <1>15 DEF SkipStart
<1>16. ASSUME NEW p \in Procs, Start(p)
       PROVE  JobInv'
  BY <1>16 DEF Start
<1>17. ASSUME NEW p \in Procs, Save(p)
       PROVE  JobInv'
  BY <1>17 DEF Save
<1>18. ASSUME NEW p \in Procs, ReleaseShared(p)
       PROVE  JobInv'
  BY <1>18 DEF ReleaseShared, ReleaseSharedLocks, Dropped
<1>19. ASSUME NEW p \in Procs, SessionStop(p)
       PROVE  JobInv'
  BY <1>19 DEF SessionStop
<1>20. ASSUME NEW p \in Procs, StopNothing(p)
       PROVE  JobInv'
  BY <1>20 DEF StopNothing
<1>21. ASSUME NEW p \in Procs, Stop(p)
       PROVE  JobInv'
  BY <1>21 DEF Stop
<1>22. ASSUME NEW p \in Procs, List(p)
       PROVE  JobInv'
  BY <1>22 DEF List
<1>23. ASSUME NEW p \in Procs, StopEach(p)
       PROVE  JobInv'
  BY <1>23 DEF StopEach
<1>24. ASSUME NEW p \in Procs, StoppedAll(p)
       PROVE  JobInv'
  BY <1>24 DEF StoppedAll
<1>25. ASSUME NEW p \in Procs, Teardown(p)
       PROVE  JobInv'
  BY <1>25 DEF Teardown
<1>26. ASSUME NEW p \in Procs, Remove(p)
       PROVE  JobInv'
  BY <1>26 DEF Remove, AfterRemove
<1>27. ASSUME NEW p \in Procs, ClearRecord(p)
       PROVE  JobInv'
  BY <1>27 DEF ClearRecord
<1>28. ASSUME NEW p \in Procs, DeleteRead(p)
       PROVE  JobInv'
  BY <1>28 DEF DeleteRead
<1>29. ASSUME NEW p \in Procs, DeleteContainer(p)
       PROVE  JobInv'
  BY <1>29 DEF DeleteContainer
<1>30. ASSUME NEW p \in Procs, DeleteNetwork(p)
       PROVE  JobInv'
  BY <1>30 DEF DeleteNetwork
<1>31. ASSUME NEW p \in Procs, DeleteManifest(p)
       PROVE  JobInv'
  BY <1>31 DEF DeleteManifest
<1>32. ASSUME NEW p \in Procs, PurgeHome(p)
       PROVE  JobInv'
  BY <1>32 DEF PurgeHome
<1>33. ASSUME NEW p \in Procs, Forget(p)
       PROVE  JobInv'
  BY <1>33 DEF Forget
<1>34. ASSUME NEW p \in Procs, RawRun(p)
       PROVE  JobInv'
  BY <1>34 DEF RawRun
<1>35. ASSUME NEW p \in Procs, Invoke(p)
       PROVE  JobInv'
  BY <1>35 DEF Invoke, PlanCommands, ActivateCommands
<1>36. ASSUME NEW p \in Procs, EndSession(p)
       PROVE  JobInv'
  BY <1>36 DEF EndSession
<1>37. ASSUME NEW p \in Procs, EndRawRun(p)
       PROVE  JobInv'
  BY <1>37 DEF EndRawRun
<1>38. ASSUME NEW p \in Procs, Refuse(p) \/ Return(p) \/ Fail(p)
       PROVE  JobInv'
  <2>1. Leave(p)
    BY <1>38 DEF Refuse, Return, Fail
  <2> QED
    BY <2>1 DEF Leave, NoJob, NoPlan
<1>39. ASSUME NEW i \in Ids, ContainerExits(i)
       PROVE  JobInv'
  BY <1>39 DEF ContainerExits
<1>40. ASSUME NEW n \in Names, EditManifest(n)
       PROVE  JobInv'
  BY <1>40 DEF EditManifest
<1>41. CASE UNCHANGED vars
  BY <1>41 DEF vars
<1> QED
  BY <1>1, <1>2, <1>3, <1>4, <1>5, <1>6, <1>7, <1>8, <1>9, <1>10, <1>11, <1>12, <1>13,
     <1>14, <1>15, <1>16, <1>17, <1>18, <1>19, <1>20, <1>21, <1>22, <1>23, <1>24, <1>25,
     <1>26, <1>27, <1>28, <1>29, <1>30, <1>31, <1>32, <1>33, <1>34, <1>35, <1>36, <1>37,
     <1>38, <1>39, <1>40, <1>41 DEF Next, Step, User, Environment, Registration,
     Activation, Removal

(* Every step keeps the lock discipline.  A plan is of the locked          *)
(* environment because the index still has, under the global lock, what it *)
(* had when the state was read (RegistryInv).                              *)
LEMMA LockStep ==
  ASSUME TypeOK, JobInv, LockDiscipline, RegistryInv, [Next]_vars
  PROVE  LockDiscipline'
<1> USE StoreAssumption, NoProcAssumption
    DEF TypeOK, LocksTypeOK, StoreTypeOK, JobInv, LockDiscipline, RegistryInv,
        Registered, Loadable, PlannedLabels, PlanningLabels, EnvironmentLabels,
        GlobalLabels, Cmd, Env, Goto, lockVars, storeVars, podmanVars, localVars,
        boundVars
<1>1. ASSUME NEW p \in Procs, AcquireGlobal(p)
      PROVE  LockDiscipline'
  BY <1>1 DEF AcquireGlobal, AcquireGlobalLock
<1>2. ASSUME NEW p \in Procs, Load(p)
      PROVE  LockDiscipline'
  <2>1. Env(p) \in Names
    BY <1>2 DEF Load
  <2> DEFINE r == GetByName(Env(p))
  <2>2. /\ r \in Record
        /\ r.id = index[Env(p)]
        /\ r.id # NoId => r.id \in Ids /\ r = records[r.id] /\ r.name = Env(p)
    BY <2>1, GetByNameType, GetByNameAnswer
  <2>3. stored' = [stored EXCEPT ![p] = r]
    BY <1>2 DEF Load
  <2> HIDE DEF r
  <2> QED
    BY <1>2, <2>1, <2>2, <2>3 DEF Load, Record
<1>3. ASSUME NEW p \in Procs, AcquireEnvironment(p)
      PROVE  LockDiscipline'
  BY <1>3 DEF AcquireEnvironment, AcquireEnvironmentLock, AcquireEnvironmentLock, Record
<1>4. ASSUME NEW p \in Procs, InitManifest(p)
      PROVE  LockDiscipline'
  BY <1>4 DEF InitManifest
<1>5. ASSUME NEW p \in Procs, ReuseRecord(p)
      PROVE  LockDiscipline'
  <2>1. Env(p) \in Names
    BY <1>5 DEF ReuseRecord
  <2> DEFINE r == GetByName(Env(p))
  <2>2. /\ r \in Record
        /\ r.id = index[Env(p)]
        /\ r.id # NoId => r.id \in Ids /\ r = records[r.id] /\ r.name = Env(p)
    BY <2>1, GetByNameType, GetByNameAnswer
  <2>3. stored' = [stored EXCEPT ![p] = r]
    BY <1>5 DEF ReuseRecord
  <2> HIDE DEF r
  <2> QED
    BY <1>5, <2>1, <2>2, <2>3 DEF ReuseRecord, AfterRegister, Record
<1>6. ASSUME NEW p \in Procs, RegisterRecord(p)
      PROVE  LockDiscipline'
  BY <1>6 DEF RegisterRecord, FreshIds, NewRecord, SaveState, Record
<1>7. ASSUME NEW p \in Procs, RegisterIndex(p)
      PROVE  LockDiscipline'
  BY <1>7 DEF RegisterIndex, AfterRegister, Record
<1>8. ASSUME NEW p \in Procs, BuildPlan(p)
      PROVE  LockDiscipline'
  BY <1>8 DEF BuildPlan, CanPlan, Index, Plan
<1>9. ASSUME NEW p \in Procs, SkipProject(p)
      PROVE  LockDiscipline'
  BY <1>9 DEF SkipProject
<1>10. ASSUME NEW p \in Procs, AcquireProject(p)
       PROVE  LockDiscipline'
  BY <1>10 DEF AcquireProject, AcquireProjectLock
<1>11. ASSUME NEW p \in Procs, EnforceProjectConcurrency(p)
       PROVE  LockDiscipline'
  BY <1>11 DEF EnforceProjectConcurrency
<1>12. ASSUME NEW p \in Procs, PrepareResources(p)
       PROVE  LockDiscipline'
  BY <1>12 DEF PrepareResources
<1>13. ASSUME NEW p \in Procs, UseContainer(p)
       PROVE  LockDiscipline'
  BY <1>13 DEF UseContainer
<1>14. ASSUME NEW p \in Procs, Create(p)
       PROVE  LockDiscipline'
  BY <1>14 DEF Create, Record
<1>15. ASSUME NEW p \in Procs, SkipStart(p)
       PROVE  LockDiscipline'
  BY <1>15 DEF SkipStart
<1>16. ASSUME NEW p \in Procs, Start(p)
       PROVE  LockDiscipline'
  BY <1>16 DEF Start
<1>17. ASSUME NEW p \in Procs, Save(p)
       PROVE  LockDiscipline'
  BY <1>17 DEF Save, Applied, SaveState, Record
<1>18. ASSUME NEW p \in Procs, ReleaseShared(p)
       PROVE  LockDiscipline'
  BY <1>18 DEF ReleaseShared, ReleaseSharedLocks, Dropped
<1>19. ASSUME NEW p \in Procs, SessionStop(p)
       PROVE  LockDiscipline'
  BY <1>19 DEF SessionStop
<1>20. ASSUME NEW p \in Procs, StopNothing(p)
       PROVE  LockDiscipline'
  BY <1>20 DEF StopNothing
<1>21. ASSUME NEW p \in Procs, Stop(p)
       PROVE  LockDiscipline'
  BY <1>21 DEF Stop
<1>22. ASSUME NEW p \in Procs, List(p)
       PROVE  LockDiscipline'
  BY <1>22 DEF List
<1>23. ASSUME NEW p \in Procs, StopEach(p)
       PROVE  LockDiscipline'
  BY <1>23 DEF StopEach
<1>24. ASSUME NEW p \in Procs, StoppedAll(p)
       PROVE  LockDiscipline'
  BY <1>24 DEF StoppedAll
<1>25. ASSUME NEW p \in Procs, Teardown(p)
       PROVE  LockDiscipline'
  BY <1>25 DEF Teardown
<1>26. ASSUME NEW p \in Procs, Remove(p)
       PROVE  LockDiscipline'
  BY <1>26 DEF Remove, AfterRemove
<1>27. ASSUME NEW p \in Procs, ClearRecord(p)
       PROVE  LockDiscipline'
  BY <1>27 DEF ClearRecord, Cleared, SaveState, Record
<1>28. ASSUME NEW p \in Procs, DeleteRead(p)
       PROVE  LockDiscipline'
  <2>1. Env(p) \in Names
    BY <1>28 DEF DeleteRead
  <2> DEFINE r == GetByName(Env(p))
  <2>2. /\ r \in Record
        /\ r.id = index[Env(p)]
        /\ r.id # NoId => r.id \in Ids /\ r = records[r.id] /\ r.name = Env(p)
    BY <2>1, GetByNameType, GetByNameAnswer
  <2>3. stored' = [stored EXCEPT ![p] = r]
    BY <1>28 DEF DeleteRead
  <2> HIDE DEF r
  <2> QED
    BY <1>28, <2>1, <2>2, <2>3 DEF DeleteRead, Record
<1>29. ASSUME NEW p \in Procs, DeleteContainer(p)
       PROVE  LockDiscipline'
  BY <1>29 DEF DeleteContainer
<1>30. ASSUME NEW p \in Procs, DeleteNetwork(p)
       PROVE  LockDiscipline'
  BY <1>30 DEF DeleteNetwork
<1>31. ASSUME NEW p \in Procs, DeleteManifest(p)
       PROVE  LockDiscipline'
  BY <1>31 DEF DeleteManifest
<1>32. ASSUME NEW p \in Procs, PurgeHome(p)
       PROVE  LockDiscipline'
  BY <1>32 DEF PurgeHome
<1>33. ASSUME NEW p \in Procs, Forget(p)
       PROVE  LockDiscipline'
  BY <1>33 DEF Forget, Index
<1>34. ASSUME NEW p \in Procs, RawRun(p)
       PROVE  LockDiscipline'
  BY <1>34 DEF RawRun
<1>35. ASSUME NEW p \in Procs, Invoke(p)
       PROVE  LockDiscipline'
  BY <1>35 DEF Invoke
<1>36. ASSUME NEW p \in Procs, EndSession(p)
       PROVE  LockDiscipline'
  BY <1>36 DEF EndSession
<1>37. ASSUME NEW p \in Procs, EndRawRun(p)
       PROVE  LockDiscipline'
  BY <1>37 DEF EndRawRun
<1>38. ASSUME NEW p \in Procs, Refuse(p) \/ Return(p) \/ Fail(p)
       PROVE  LockDiscipline'
  <2>1. Leave(p)
    BY <1>38 DEF Refuse, Return, Fail
  <2>2. /\ pc'[p] = "idle"
        /\ stored'[p].id = NoId
        /\ plan'[p].id = NoId
    BY <2>1 DEF Leave, NoRecord, NewRecord, NoPlan
  <2>3. ASSUME NEW q \in Procs, q # p
        PROVE  /\ pc'[q] = pc[q] /\ stored'[q] = stored[q] /\ plan'[q] = plan[q]
               /\ globalLock = q => globalLock' = q
               /\ \A i \in Ids : envLock[i] = q => envLock'[i] = q
    BY <2>1, <2>3 DEF Leave, ReleaseAllLocks, Dropped
  <2> QED
    BY <2>2, <2>3 DEF Plan, Record
<1>39. ASSUME NEW i \in Ids, ContainerExits(i)
       PROVE  LockDiscipline'
  BY <1>39 DEF ContainerExits
<1>40. ASSUME NEW n \in Names, EditManifest(n)
       PROVE  LockDiscipline'
  BY <1>40 DEF EditManifest
<1>41. CASE UNCHANGED vars
  BY <1>41 DEF vars
<1> QED
  BY <1>1, <1>2, <1>3, <1>4, <1>5, <1>6, <1>7, <1>8, <1>9, <1>10, <1>11, <1>12, <1>13,
     <1>14, <1>15, <1>16, <1>17, <1>18, <1>19, <1>20, <1>21, <1>22, <1>23, <1>24, <1>25,
     <1>26, <1>27, <1>28, <1>29, <1>30, <1>31, <1>32, <1>33, <1>34, <1>35, <1>36, <1>37,
     <1>38, <1>39, <1>40, <1>41 DEF Next, Step, User, Environment, Registration,
     Activation, Removal

(* Every step keeps the registry.  Only a holder of the global lock writes *)
(* the index, and only a holder of the environment lock a state file that  *)
(* is in use.                                                              *)
LEMMA RegistryStep ==
  ASSUME TypeOK, JobInv, LockDiscipline, RegistryInv, [Next]_vars
  PROVE  RegistryInv'
<1> USE StoreAssumption, NoProcAssumption
    DEF TypeOK, LocksTypeOK, StoreTypeOK, JobInv, LockDiscipline, RegistryInv,
        RegistryIntegrity, Registered, Loadable, PlannedLabels, PlanningLabels,
        EnvironmentLabels, GlobalLabels, Cmd, Env, Goto, lockVars, storeVars,
        podmanVars, localVars, boundVars
<1>1. ASSUME NEW p \in Procs, AcquireGlobal(p)
      PROVE  RegistryInv'
  BY <1>1 DEF AcquireGlobal, AcquireGlobalLock
<1>2. ASSUME NEW p \in Procs, Load(p)
      PROVE  RegistryInv'
  <2>1. Env(p) \in Names
    BY <1>2 DEF Load
  <2> DEFINE r == GetByName(Env(p))
  <2>2. /\ r \in Record
        /\ r.id = index[Env(p)]
        /\ r.id # NoId => r.id \in Ids /\ r = records[r.id] /\ r.name = Env(p)
    BY <2>1, GetByNameType, GetByNameAnswer
  <2>3. stored' = [stored EXCEPT ![p] = r]
    BY <1>2 DEF Load
  <2> HIDE DEF r
  <2> QED
    BY <1>2, <2>1, <2>2, <2>3 DEF Load, Record
<1>3. ASSUME NEW p \in Procs, AcquireEnvironment(p)
      PROVE  RegistryInv'
  BY <1>3 DEF AcquireEnvironment, AcquireEnvironmentLock, AcquireEnvironmentLock, Record
<1>4. ASSUME NEW p \in Procs, InitManifest(p)
      PROVE  RegistryInv'
  BY <1>4 DEF InitManifest
<1>5. ASSUME NEW p \in Procs, ReuseRecord(p)
      PROVE  RegistryInv'
  <2>1. Env(p) \in Names
    BY <1>5 DEF ReuseRecord
  <2> DEFINE r == GetByName(Env(p))
  <2>2. /\ r \in Record
        /\ r.id = index[Env(p)]
        /\ r.id # NoId => r.id \in Ids /\ r = records[r.id] /\ r.name = Env(p)
    BY <2>1, GetByNameType, GetByNameAnswer
  <2>3. stored' = [stored EXCEPT ![p] = r]
    BY <1>5 DEF ReuseRecord
  <2> HIDE DEF r
  <2> QED
    BY <1>5, <2>1, <2>2, <2>3 DEF ReuseRecord, AfterRegister, Record
<1>6. ASSUME NEW p \in Procs, RegisterRecord(p)
      PROVE  RegistryInv'
  BY <1>6 DEF RegisterRecord, FreshIds, NewRecord, SaveState, Record
<1>7. ASSUME NEW p \in Procs, RegisterIndex(p)
      PROVE  RegistryInv'
  <2>1. indexCopy[p] = index /\ stored[p].id # NoId /\ stored[p] \in Record
    BY <1>7 DEF RegisterIndex
  <2>2. stored[p].id \in Ids /\ index' = [index EXCEPT ![Env(p)] = stored[p].id]
    BY <1>7, <2>1 DEF RegisterIndex, Record
  <2>3. \A n \in Names : index'[n] = IF n = Env(p) THEN stored[p].id ELSE index[n]
    BY <2>2 DEF Index
  <2>4. RegistryIntegrity'
    BY <1>7, <2>2, <2>3 DEF RegisterIndex
  <2>5. ASSUME NEW q \in Procs, q # p
        PROVE  pc[q] \notin GlobalLabels /\ pc'[q] = pc[q]
    BY <1>7, <2>5 DEF RegisterIndex
  <2>6. pc'[p] \in {"ok", "envLock"}
    BY <1>7 DEF RegisterIndex, AfterRegister
  <2> QED
    BY <1>7, <2>2, <2>3, <2>4, <2>5, <2>6 DEF RegisterIndex
<1>8. ASSUME NEW p \in Procs, BuildPlan(p)
      PROVE  RegistryInv'
  BY <1>8 DEF BuildPlan, CanPlan, Index, Plan
<1>9. ASSUME NEW p \in Procs, SkipProject(p)
      PROVE  RegistryInv'
  BY <1>9 DEF SkipProject
<1>10. ASSUME NEW p \in Procs, AcquireProject(p)
       PROVE  RegistryInv'
  BY <1>10 DEF AcquireProject, AcquireProjectLock
<1>11. ASSUME NEW p \in Procs, EnforceProjectConcurrency(p)
       PROVE  RegistryInv'
  BY <1>11 DEF EnforceProjectConcurrency
<1>12. ASSUME NEW p \in Procs, PrepareResources(p)
       PROVE  RegistryInv'
  BY <1>12 DEF PrepareResources
<1>13. ASSUME NEW p \in Procs, UseContainer(p)
       PROVE  RegistryInv'
  BY <1>13 DEF UseContainer
<1>14. ASSUME NEW p \in Procs, Create(p)
       PROVE  RegistryInv'
  BY <1>14 DEF Create, Record
<1>15. ASSUME NEW p \in Procs, SkipStart(p)
       PROVE  RegistryInv'
  BY <1>15 DEF SkipStart
<1>16. ASSUME NEW p \in Procs, Start(p)
       PROVE  RegistryInv'
  BY <1>16 DEF Start
<1>17. ASSUME NEW p \in Procs, Save(p)
       PROVE  RegistryInv'
  BY <1>17 DEF Save, Applied, SaveState, Record
<1>18. ASSUME NEW p \in Procs, ReleaseShared(p)
       PROVE  RegistryInv'
  BY <1>18 DEF ReleaseShared, ReleaseSharedLocks, Dropped
<1>19. ASSUME NEW p \in Procs, SessionStop(p)
       PROVE  RegistryInv'
  BY <1>19 DEF SessionStop
<1>20. ASSUME NEW p \in Procs, StopNothing(p)
       PROVE  RegistryInv'
  BY <1>20 DEF StopNothing
<1>21. ASSUME NEW p \in Procs, Stop(p)
       PROVE  RegistryInv'
  BY <1>21 DEF Stop
<1>22. ASSUME NEW p \in Procs, List(p)
       PROVE  RegistryInv'
  BY <1>22 DEF List
<1>23. ASSUME NEW p \in Procs, StopEach(p)
       PROVE  RegistryInv'
  BY <1>23 DEF StopEach
<1>24. ASSUME NEW p \in Procs, StoppedAll(p)
       PROVE  RegistryInv'
  BY <1>24 DEF StoppedAll
<1>25. ASSUME NEW p \in Procs, Teardown(p)
       PROVE  RegistryInv'
  BY <1>25 DEF Teardown
<1>26. ASSUME NEW p \in Procs, Remove(p)
       PROVE  RegistryInv'
  BY <1>26 DEF Remove, AfterRemove
<1>27. ASSUME NEW p \in Procs, ClearRecord(p)
       PROVE  RegistryInv'
  BY <1>27 DEF ClearRecord, Cleared, SaveState, Record
<1>28. ASSUME NEW p \in Procs, DeleteRead(p)
       PROVE  RegistryInv'
  <2>1. Env(p) \in Names
    BY <1>28 DEF DeleteRead
  <2> DEFINE r == GetByName(Env(p))
  <2>2. /\ r \in Record
        /\ r.id = index[Env(p)]
        /\ r.id # NoId => r.id \in Ids /\ r = records[r.id] /\ r.name = Env(p)
    BY <2>1, GetByNameType, GetByNameAnswer
  <2>3. stored' = [stored EXCEPT ![p] = r]
    BY <1>28 DEF DeleteRead
  <2> HIDE DEF r
  <2> QED
    BY <1>28, <2>1, <2>2, <2>3 DEF DeleteRead, Record
<1>29. ASSUME NEW p \in Procs, DeleteContainer(p)
       PROVE  RegistryInv'
  BY <1>29 DEF DeleteContainer
<1>30. ASSUME NEW p \in Procs, DeleteNetwork(p)
       PROVE  RegistryInv'
  BY <1>30 DEF DeleteNetwork
<1>31. ASSUME NEW p \in Procs, DeleteManifest(p)
       PROVE  RegistryInv'
  BY <1>31 DEF DeleteManifest
<1>32. ASSUME NEW p \in Procs, PurgeHome(p)
       PROVE  RegistryInv'
  BY <1>32 DEF PurgeHome
<1>33. ASSUME NEW p \in Procs, Forget(p)
       PROVE  RegistryInv'
  BY <1>33 DEF Forget, Index
<1>34. ASSUME NEW p \in Procs, RawRun(p)
       PROVE  RegistryInv'
  BY <1>34 DEF RawRun
<1>35. ASSUME NEW p \in Procs, Invoke(p)
       PROVE  RegistryInv'
  BY <1>35 DEF Invoke
<1>36. ASSUME NEW p \in Procs, EndSession(p)
       PROVE  RegistryInv'
  BY <1>36 DEF EndSession
<1>37. ASSUME NEW p \in Procs, EndRawRun(p)
       PROVE  RegistryInv'
  BY <1>37 DEF EndRawRun
<1>38. ASSUME NEW p \in Procs, Refuse(p) \/ Return(p) \/ Fail(p)
       PROVE  RegistryInv'
  <2>1. Leave(p)
    BY <1>38 DEF Refuse, Return, Fail
  <2> QED
    BY <2>1 DEF Leave, ReleaseAllLocks, Dropped, NoRecord, NewRecord, NoPlan, NoJob,
       NoIndex, Holder, Index
<1>39. ASSUME NEW i \in Ids, ContainerExits(i)
       PROVE  RegistryInv'
  BY <1>39 DEF ContainerExits
<1>40. ASSUME NEW n \in Names, EditManifest(n)
       PROVE  RegistryInv'
  BY <1>40 DEF EditManifest
<1>41. CASE UNCHANGED vars
  BY <1>41 DEF vars
<1> QED
  BY <1>1, <1>2, <1>3, <1>4, <1>5, <1>6, <1>7, <1>8, <1>9, <1>10, <1>11, <1>12, <1>13,
     <1>14, <1>15, <1>16, <1>17, <1>18, <1>19, <1>20, <1>21, <1>22, <1>23, <1>24, <1>25,
     <1>26, <1>27, <1>28, <1>29, <1>30, <1>31, <1>32, <1>33, <1>34, <1>35, <1>36, <1>37,
     <1>38, <1>39, <1>40, <1>41 DEF Next, Step, User, Environment, Registration,
     Activation, Removal

-----------------------------------------------------------------------------
(* The part of IInv that needs no look at the containers.                  *)
WorkInv == TypeOK /\ JobInv /\ LockDiscipline /\ RegistryInv

(* At the start no process works, no lock is held, nothing is registered.  *)
LEMMA WorkInit ==
  ASSUME Init
  PROVE  WorkInv
<1> USE StoreAssumption, LifecycleAssumption DEF Init, LocksInit, StoreInit, PodmanInit
<1>1. LocksTypeOK /\ StoreTypeOK /\ PodmanTypeOK
  <2>1. LocksTypeOK
    BY DEF LocksTypeOK, Holder
  <2>2. StoreTypeOK
    BY DEF StoreTypeOK, Index, NoRecord, NewRecord, Record
  <2>3. PodmanTypeOK
    BY DEF PodmanTypeOK, Container, NoContainer
  <2> QED
    BY <2>1, <2>2, <2>3
<1>2. TypeOK
  <2>1. pc \in [Procs -> Labels]
    BY DEF Labels
  <2>2. NoJob \in Job /\ NoRecord \in Record /\ NoPlan \in Plan /\ NoIndex \in Index
    BY DEF NoJob, Job, NoRecord, NewRecord, Record, NoPlan, Plan, NoIndex, Index
  <2>3. startedBy \in [Ids -> Holder]
    BY DEF Holder
  <2>4. faults \in 0..MaxFaults /\ edits \in 0..MaxEdits
    OBVIOUS
  <2> QED
    BY <1>1, <2>1, <2>2, <2>3, <2>4 DEF TypeOK
<1>3. JobInv
  BY DEF JobInv, PlannedLabels
<1>4. LockDiscipline
  BY DEF LockDiscipline, GlobalLabels, EnvironmentLabels, PlanningLabels,
         PlannedLabels, NoRecord, NewRecord, NoPlan
<1>5. RegistryInv
  BY DEF RegistryInv, RegistryIntegrity, Registered, Loadable, PlanningLabels,
         PlannedLabels, NoRecord, NewRecord, NoIndex
<1> QED
  BY <1>2, <1>3, <1>4, <1>5 DEF WorkInv

(* Every step of the system keeps types, names, locks and registry.        *)
LEMMA WorkStep ==
  ASSUME WorkInv, [Next]_vars
  PROVE  WorkInv'
BY TypeStep, JobStep, LockStep, RegistryStep DEF WorkInv

(* Types, command lines, lock discipline and registry hold at every        *)
(* instant of every behaviour, failures and deaths included.               *)
THEOREM WorkInvariant == Spec => []WorkInv
<1>1. Init => WorkInv
  BY WorkInit
<1>2. WorkInv /\ [Next]_vars => WorkInv'
  BY WorkStep
<1> QED
  BY <1>1, <1>2, PTL DEF Spec

(* The variables keep their types, whatever fails and however the commands *)
(* of the processes interleave.                                            *)
THEOREM TypeCorrect == Spec => []TypeOK
<1>1. WorkInv => TypeOK
  BY DEF WorkInv
<1> QED
  BY <1>1, WorkInvariant, PTL

(* The index never leads to a missing or foreign state file, whichever     *)
(* step of a registration or delete was the last before a failure.         *)
THEOREM RegistryCorrect == Spec => []RegistryIntegrity
<1>1. WorkInv => RegistryIntegrity
  BY DEF WorkInv, RegistryInv
<1> QED
  BY <1>1, WorkInvariant, PTL

(* No command acts by a plan of one environment under the lock and with    *)
(* the state file of another.                                              *)
THEOREM PlanLocked == Spec => []PlanIsOfLockedEnvironment
<1>1. WorkInv => PlanIsOfLockedEnvironment
  BY DEF WorkInv, LockDiscipline, PlanIsOfLockedEnvironment
<1> QED
  BY <1>1, WorkInvariant, PTL

(* The index changes in two steps only, and under the global lock the copy *)
(* that RegisterIndex writes back is the index as it is.                   *)
LEMMA IndexChange ==
  ASSUME WorkInv, Next, NEW n \in Names, index'[n] # index[n]
  PROVE  \E p \in Procs :
           /\ Env(p) = n
           /\ \/ pc[p] = "index" /\ index[n] = NoId
              \/ pc[p] = "forget" /\ index'[n] = NoId
<1>1. PICK p \in Procs : RegisterIndex(p) \/ Forget(p)
  <2> USE DEF storeVars
  <2>1. index' # index
    OBVIOUS
  <2>2. ASSUME NEW p \in Procs, Registration(p)
        PROVE  index' = index \/ RegisterIndex(p)
    BY <2>2 DEF Registration, InitManifest, ReuseRecord, RegisterRecord
  <2>3. ASSUME NEW p \in Procs, Activation(p)
        PROVE  index' = index
    BY <2>3 DEF Activation, BuildPlan, SkipProject, AcquireProject,
         EnforceProjectConcurrency, PrepareResources, UseContainer, Create,
         SkipStart, Start, Save, ReleaseShared
  <2>4. ASSUME NEW p \in Procs, Removal(p)
        PROVE  index' = index \/ Forget(p)
    BY <2>4 DEF Removal, SessionStop, StopNothing, Stop, List, StopEach, StoppedAll,
         Teardown, Remove, ClearRecord, DeleteRead, DeleteContainer, DeleteNetwork,
         DeleteManifest, PurgeHome
  <2>5. ASSUME NEW p \in Procs, Step(p)
        PROVE  index' = index \/ RegisterIndex(p) \/ Forget(p)
    BY <2>2, <2>3, <2>4, <2>5
       DEF Step, AcquireGlobal, Load, AcquireEnvironment, RawRun, Refuse, Return, Leave
  <2>6. ASSUME NEW p \in Procs, User(p) \/ Fail(p)
        PROVE  index' = index
    BY <2>6 DEF User, Invoke, EndSession, EndRawRun, Fail, Leave
  <2>7. ASSUME Environment
        PROVE  index' = index
    BY <2>7 DEF Environment, ContainerExits, EditManifest
  <2> QED
    BY <2>1, <2>5, <2>6, <2>7 DEF Next
<1>2. index \in Index
  BY DEF WorkInv, TypeOK, StoreTypeOK
<1>3. CASE RegisterIndex(p)
  <2>1. pc[p] = "index" /\ indexCopy[p] = index /\ index[Env(p)] = NoId
    BY <1>3 DEF RegisterIndex, WorkInv, RegistryInv
  <2>2. index' = [index EXCEPT ![Env(p)] = stored[p].id]
    BY <1>3, <2>1 DEF RegisterIndex
  <2>3. n = Env(p)
    BY <1>2, <2>2 DEF Index
  <2> QED
    BY <2>1, <2>3
<1>4. CASE Forget(p)
  <2>1. pc[p] = "forget" /\ index' = [index EXCEPT ![Env(p)] = NoId]
    BY <1>4 DEF Forget
  <2>2. n = Env(p)
    BY <1>2, <2>1 DEF Index
  <2> QED
    BY <1>2, <2>1, <2>2 DEF Index
<1> QED
  BY <1>1, <1>3, <1>4

(* No registration is lost to another command's copy of the index.         *)
THEOREM RegistrationKept == Spec => NoLostRegistration
<1>1. WorkInv /\ [Next]_vars =>
        [\A n \in Names : index'[n] # index[n] =>
           \E p \in Procs :
             /\ Env(p) = n
             /\ \/ pc[p] = "index" /\ index[n] = NoId
                \/ pc[p] = "forget" /\ index'[n] = NoId]_vars
  BY IndexChange
<1> QED
  BY <1>1, WorkInvariant, PTL DEF Spec, NoLostRegistration

-----------------------------------------------------------------------------
(***************************************************************************)
(* Plans and what comes of them: the rest of the inductive invariant, and  *)
(* the two promises of a start that it gives.                              *)
(***************************************************************************)

(* What stopping, starting and removing a container leaves of the others,  *)
(* and of itself.                                                          *)
LEMMA StopEffect ==
  ASSUME PodmanTypeOK, NEW i, Exists(i), StopContainer(i), NEW j \in Ids
  PROVE  /\ ~Running(j)' \/ Running(j)
         /\ Exists(j)' => Exists(j) /\ containers'[j].spec = containers[j].spec
         /\ Exists(j) /\ ~IsRawRun(j) => Exists(j)'
         /\ j # i => containers'[j] = containers[j]
<1> USE DEF PodmanTypeOK, Container, NoContainer, StopContainer, Running, Exists
<1>1. CASE j # i
  BY <1>1
<1>2. CASE j = i /\ IsRawRun(i)
  BY <1>2
<1>3. CASE j = i /\ ~IsRawRun(i)
  <2>1. containers'[j] = [containers[j] EXCEPT !.status = "stopped"]
    BY <1>3
  <2> QED
    BY <1>3, <2>1
<1> QED
  BY <1>1, <1>2, <1>3

(* Every step keeps raw runs to UUIDs that no environment has.             *)
LEMMA RawRunStep ==
  ASSUME WorkInv, RawRunInv, [Next]_vars
  PROVE  RawRunInv'
<1> USE StoreAssumption
    DEF WorkInv, TypeOK, StoreTypeOK, PodmanTypeOK, LockDiscipline, RegistryInv,
        RawRunInv, EnvironmentLabels, PlanningLabels, PlannedLabels, Loadable, Goto,
        lockVars, storeVars, podmanVars, localVars, boundVars
<1>1. ASSUME NEW i, Exists(i), StopContainer(i)
      PROVE  \A j \in Ids : Exists(j)' => Exists(j) /\ containers'[j].spec = containers[j].spec
  BY <1>1, StopEffect
<1>2. ASSUME NEW p \in Procs, Registration(p)
      PROVE  RawRunInv'
  <2>1. CASE RegisterRecord(p)
    BY <2>1 DEF RegisterRecord, FreshIds, Awaited, SaveState, NewRecord, Record, Exists, IsRawRun
  <2>2. CASE InitManifest(p) \/ ReuseRecord(p) \/ RegisterIndex(p)
    BY <2>2 DEF InitManifest, ReuseRecord, RegisterIndex, AfterRegister, Exists, IsRawRun
  <2> QED
    BY <1>2, <2>1, <2>2 DEF Registration
<1>3. ASSUME NEW p \in Procs, Activation(p)
      PROVE  RawRunInv'
  <2>1. CASE BuildPlan(p) \/ SkipProject(p) \/ AcquireProject(p)
    BY <2>1 DEF BuildPlan, SkipProject, AcquireProject, Exists, IsRawRun
  <2>2. CASE EnforceProjectConcurrency(p) \/ PrepareResources(p) \/ UseContainer(p)
    BY <2>2 DEF EnforceProjectConcurrency, PrepareResources, UseContainer, Exists, IsRawRun
  <2>3. CASE Create(p)
    BY <2>3 DEF Create, CreateContainer, JobInv, Exists, IsRawRun
  <2>4. CASE SkipStart(p) \/ ReleaseShared(p)
    BY <2>4 DEF SkipStart, ReleaseShared, Exists, IsRawRun
  <2>5. CASE Start(p)
    BY <2>5 DEF Start, StartContainer, JobInv, Container, Exists, IsRawRun
  <2>6. CASE Save(p)
    BY <2>6 DEF Save, Applied, SaveState, Record, Exists, IsRawRun
  <2> QED
    BY <1>3, <2>1, <2>2, <2>3, <2>4, <2>5, <2>6 DEF Activation
<1>4. ASSUME NEW p \in Procs, Removal(p)
      PROVE  RawRunInv'
  <2>1. CASE SessionStop(p) \/ Stop(p) \/ Teardown(p) \/ DeleteContainer(p)
    <3>1. \A j \in Ids : Exists(j)' => Exists(j) /\ containers'[j].spec = containers[j].spec
      BY <1>1, <2>1 DEF SessionStop, Stop, Teardown, DeleteContainer, HasContainer, Exists
    <3>2. pc'[p] # "attached" /\ \A q \in Procs : q # p => pc'[q] = pc[q]
      BY <2>1 DEF SessionStop, Stop, Teardown, DeleteContainer
    <3>3. UNCHANGED <<records, startedBy, todo>>
      BY <2>1 DEF SessionStop, Stop, Teardown, DeleteContainer
    <3> QED
      BY <3>1, <3>2, <3>3 DEF IsRawRun
  <2>2. CASE StopEach(p)
    <3>1. \A j \in Ids : Exists(j)' => Exists(j) /\ containers'[j].spec = containers[j].spec
      BY <1>1, <2>2 DEF StopEach, Exists
    <3> QED
      BY <2>2, <3>1 DEF StopEach, IsRawRun
  <2>3. CASE StopNothing(p) \/ List(p) \/ StoppedAll(p) \/ DeleteRead(p)
    BY <2>3 DEF StopNothing, List, StoppedAll, DeleteRead, Exists, IsRawRun
  <2>4. CASE Remove(p)
    BY <2>4 DEF Remove, RemoveContainer, AfterRemove, NoContainer, Exists, IsRawRun
  <2>5. CASE ClearRecord(p)
    BY <2>5 DEF ClearRecord, Cleared, SaveState, Record, Exists, IsRawRun
  <2>6. CASE DeleteNetwork(p) \/ DeleteManifest(p) \/ PurgeHome(p) \/ Forget(p)
    BY <2>6 DEF DeleteNetwork, DeleteManifest, PurgeHome, Forget, Exists, IsRawRun
  <2> QED
    BY <1>4, <2>1, <2>2, <2>3, <2>4, <2>5, <2>6 DEF Removal
<1>5. ASSUME NEW p \in Procs, AcquireGlobal(p) \/ Load(p) \/ AcquireEnvironment(p)
      PROVE  RawRunInv'
  <2>1. CASE AcquireGlobal(p)
    BY <2>1 DEF AcquireGlobal, Exists, IsRawRun
  <2>2. CASE Load(p)
    BY <2>2 DEF Load, Exists, IsRawRun
  <2>3. CASE AcquireEnvironment(p)
    BY <2>3 DEF AcquireEnvironment, Exists, IsRawRun
  <2> QED
    BY <1>5, <2>1, <2>2, <2>3
<1>6. ASSUME NEW p \in Procs, RawRun(p)
      PROVE  RawRunInv'
  BY <1>6 DEF RawRun, FreshIds, Exists, IsRawRun
<1>7. ASSUME NEW p \in Procs, Refuse(p) \/ Return(p) \/ Fail(p)
      PROVE  RawRunInv'
  <2>1. Leave(p)
    BY <1>7 DEF Refuse, Return, Fail
  <2> QED
    BY <2>1 DEF Leave, Dropped, Exists, IsRawRun
<1>8. ASSUME NEW p \in Procs, User(p)
      PROVE  RawRunInv'
  <2>1. CASE Invoke(p)
    BY <2>1 DEF Invoke, Exists, IsRawRun
  <2>2. CASE EndSession(p)
    BY <2>2 DEF EndSession, Exists, IsRawRun
  <2>3. CASE EndRawRun(p)
    BY <2>3 DEF EndRawRun, NoContainer, Exists, IsRawRun
  <2> QED
    BY <1>8, <2>1, <2>2, <2>3 DEF User
<1>9. ASSUME Environment
      PROVE  RawRunInv'
  <2>1. ASSUME NEW i \in Ids, ContainerExits(i)
        PROVE  RawRunInv'
    <3>1. \A j \in Ids : Exists(j)' => Exists(j) /\ containers'[j].spec = containers[j].spec
      BY <1>1, <2>1 DEF ContainerExits, Running, Exists
    <3> QED
      BY <2>1, <3>1 DEF ContainerExits, IsRawRun
  <2>2. ASSUME NEW n \in Names, EditManifest(n)
        PROVE  RawRunInv'
    BY <2>2 DEF EditManifest, Exists, IsRawRun
  <2> QED
    BY <1>9, <2>1, <2>2 DEF Environment
<1>10. CASE UNCHANGED vars
  BY <1>10 DEF vars, Exists, IsRawRun
<1> QED
  BY <1>2, <1>3, <1>4, <1>5, <1>6, <1>7, <1>8, <1>9, <1>10 DEF Next, Step

-----------------------------------------------------------------------------
(* Where what a plan says still matters.                                   *)
Applying == {"project", "enforce", "apply", "create", "start"}

(* The step leaves process q alone, and, while q applies its plan, its     *)
(* container too; and it starts no container on a project.                 *)
Undisturbed(q) ==
  /\ pc'[q] = pc[q] /\ plan'[q] = plan[q] /\ job'[q] = job[q]
  /\ pc[q] \in Applying =>
       LET i == plan[q].id
       IN  /\ Exists(i)' = Exists(i)
           /\ Exists(i)' => containers'[i].spec = containers[i].spec
           /\ \A j \in Ids : Running(j)' =>
                \/ containers'[j].spec.project = NoProject
                \/ Running(j) /\ containers'[j].spec = containers[j].spec

(* A step that leaves containers, records and q's own memory alone keeps   *)
(* what q has planned and checked.                                         *)
LEMMA PlanFrame ==
  ASSUME WorkInv, NEW q \in Procs, Undisturbed(q)
  PROVE  /\ ExistsAsPlanned(q) => ExistsAsPlanned(q)'
         /\ SpecAsPlanned(q) => SpecAsPlanned(q)'
         /\ ProjectAsChecked(q) => ProjectAsChecked(q)'
<1>1. ExistsAsPlanned(q) => ExistsAsPlanned(q)'
  BY DEF Undisturbed, ExistsAsPlanned, Applying, Exists
<1>2. SpecAsPlanned(q) => SpecAsPlanned(q)'
  BY DEF Undisturbed, SpecAsPlanned, Applying, Exists
<1>3. ProjectAsChecked(q) => ProjectAsChecked(q)'
  BY DEF Undisturbed, ProjectAsChecked, Applying, Shares, Cmd
<1> QED
  BY <1>1, <1>2, <1>3

(* A step that stops or removes a container at most, and not that of q's   *)
(* plan, disturbs no q.                                                    *)
LEMMA StopFrame ==
  ASSUME WorkInv, RawRunInv, NEW q \in Procs, NEW i \in Ids, Exists(i), StopContainer(i),
         pc'[q] = pc[q], plan'[q] = plan[q], job'[q] = job[q],
         pc[q] \in Applying => plan[q].id # i \/ ~IsRawRun(i)
  PROVE  Undisturbed(q)
<1>1. PodmanTypeOK
  BY DEF WorkInv, TypeOK
<1>2. pc[q] \in Applying => plan[q].id \in Ids
  BY DEF WorkInv, JobInv, Applying, PlannedLabels
<1>3. \A j \in Ids : /\ ~Running(j)' \/ Running(j)
                     /\ Exists(j)' => Exists(j) /\ containers'[j].spec = containers[j].spec
                     /\ Exists(j) /\ ~IsRawRun(j) => Exists(j)'
                     /\ j # i => containers'[j] = containers[j]
  BY <1>1, StopEffect
<1> QED
  BY <1>2, <1>3 DEF Undisturbed, Running, Exists

(* No step of another process disturbs q while it applies its plan: most   *)
(* steps that touch a container are made under the global lock, which q    *)
(* has; a session's end touches the container of its own environment, of   *)
(* which it has the lock; a raw run has a UUID of its own.                 *)
LEMMA OthersUndisturbed ==
  ASSUME WorkInv, RawRunInv, NEW p \in Procs, NEW q \in Procs, q # p,
         Step(p) \/ User(p) \/ Fail(p)
  PROVE  Undisturbed(q)
<1> USE DEF Goto, lockVars, storeVars, podmanVars, localVars, boundVars
<1>1. /\ pc \in [Procs -> Labels] /\ job \in [Procs -> Job] /\ plan \in [Procs -> Plan]
      /\ containers \in [Ids -> Container]
  BY DEF WorkInv, TypeOK, PodmanTypeOK
<1>2. ASSUME pc[q] \in Applying
      PROVE  /\ globalLock = q
             /\ plan[q].id \in Ids
             /\ envLock[plan[q].id] = q
             /\ records[plan[q].id].id # NoId
  <2>1. pc[q] \in GlobalLabels /\ pc[q] \in PlannedLabels
    BY <1>2 DEF Applying, GlobalLabels, PlanningLabels, PlannedLabels
  <2>2. globalLock = q /\ plan[q].id \in Ids /\ plan[q].id # NoId
    BY <2>1, StoreAssumption DEF WorkInv, LockDiscipline, JobInv
  <2>3. plan[q].id = stored[q].id /\ envLock[plan[q].id] = q
    BY <2>2 DEF WorkInv, LockDiscipline
  <2> QED
    BY <2>2, <2>3 DEF WorkInv, RegistryInv, Loadable
<1>3. ASSUME pc'[q] = pc[q], plan'[q] = plan[q], job'[q] = job[q], containers' = containers
      PROVE  Undisturbed(q)
  BY <1>3 DEF Undisturbed, Exists, Running
<1>4. ASSUME pc'[q] = pc[q], plan'[q] = plan[q], job'[q] = job[q], pc[p] \in GlobalLabels
      PROVE  Undisturbed(q)
  <2>1. globalLock = p
    BY <1>4 DEF WorkInv, LockDiscipline
  <2> QED
    BY <1>2, <1>4, <2>1 DEF Undisturbed
<1>5. CASE Registration(p)
  BY <1>1, <1>3, <1>5
     DEF Registration, InitManifest, ReuseRecord, RegisterRecord, RegisterIndex
<1>6. CASE Activation(p)
  <2>1. CASE Create(p)
    BY <1>1, <1>4, <2>1 DEF Create, GlobalLabels, PlanningLabels, PlannedLabels
  <2>2. CASE Start(p)
    BY <1>1, <1>4, <2>2 DEF Start, GlobalLabels, PlanningLabels, PlannedLabels
  <2>3. CASE BuildPlan(p)
    BY <1>1, <1>3, <2>3 DEF BuildPlan
  <2>4. CASE ~(Create(p) \/ Start(p) \/ BuildPlan(p))
    BY <1>1, <1>3, <1>6, <2>4
       DEF Activation, SkipProject, AcquireProject, EnforceProjectConcurrency,
           PrepareResources, UseContainer, SkipStart, Save, ReleaseShared
  <2> QED
    BY <2>1, <2>2, <2>3, <2>4
<1>7. CASE Removal(p)
  <2>1. CASE SessionStop(p)
    <3>1. plan[p].id \in Ids
      BY <2>1 DEF SessionStop, WorkInv, JobInv
    <3>2. pc[q] \in Applying => plan[q].id # plan[p].id
      BY <1>2, <3>1, StoreAssumption, NoProcAssumption DEF WorkInv, LockDiscipline
    <3> QED
      BY <1>1, <2>1, <3>1, <3>2, StopFrame DEF SessionStop
  <2>2. CASE Stop(p) \/ StopEach(p) \/ Teardown(p) \/ DeleteContainer(p)
    <3>1. pc[p] \in GlobalLabels
      BY <2>2 DEF Stop, StopEach, Teardown, DeleteContainer, GlobalLabels, PlanningLabels
    <3>2. pc'[q] = pc[q] /\ plan'[q] = plan[q] /\ job'[q] = job[q]
      BY <1>1, <2>2 DEF Stop, StopEach, Teardown, DeleteContainer
    <3> QED
      BY <1>4, <3>1, <3>2
  <2>3. CASE Remove(p)
    <3>1. pc'[q] = pc[q] /\ plan'[q] = plan[q] /\ job'[q] = job[q]
      BY <1>1, <2>3 DEF Remove
    <3>2. CASE pc[p] # "sessionRemove"
      <4>1. pc[p] \in GlobalLabels
        BY <2>3, <3>2 DEF Remove, AfterRemove, GlobalLabels, PlanningLabels
      <4> QED
        BY <1>4, <3>1, <4>1
    <3>3. CASE pc[p] = "sessionRemove"
      <4>1. containers' = [containers EXCEPT ![plan[p].id] = NoContainer]
        BY <2>3, <3>3 DEF Remove, RemoveContainer, Target
      <4>2. pc[q] \in Applying => plan[q].id # plan[p].id
        BY <1>2, StoreAssumption, NoProcAssumption DEF WorkInv, LockDiscipline
      <4> QED
        BY <1>1, <1>2, <3>1, <4>1, <4>2 DEF Undisturbed, Exists, Running, NoContainer
    <3> QED
      BY <3>2, <3>3
  <2>4. CASE ~(SessionStop(p) \/ Stop(p) \/ StopEach(p) \/ Teardown(p)
               \/ DeleteContainer(p) \/ Remove(p))
    BY <1>1, <1>3, <1>7, <2>4
       DEF Removal, StopNothing, List, StoppedAll, ClearRecord, DeleteRead,
           DeleteNetwork, DeleteManifest, PurgeHome, Forget
  <2> QED
    BY <2>1, <2>2, <2>3, <2>4
<1>8. CASE RawRun(p)
  <2>1. PICK i \in FreshIds :
          containers' = [containers EXCEPT ![i] = [status |-> "running", spec |-> RawSpec]]
    BY <1>8 DEF RawRun
  <2>2. i \in Ids /\ records[i].id = NoId
    BY <2>1 DEF FreshIds
  <2>3. pc'[q] = pc[q] /\ plan'[q] = plan[q] /\ job'[q] = job[q]
    BY <1>1, <1>8 DEF RawRun
  <2>4. pc[q] \in Applying => plan[q].id # i
    BY <1>2, <2>2
  <2> QED
    BY <1>1, <1>2, <2>1, <2>2, <2>3, <2>4, StoreAssumption
       DEF Undisturbed, Exists, Running
<1>9. CASE EndRawRun(p)
  <2>1. \A i \in todo[p] : records[i].id = NoId
    BY <1>9 DEF EndRawRun, RawRunInv
  <2>2. pc[q] \in Applying => plan[q].id \notin todo[p]
    BY <1>2, <2>1
  <2>3. pc'[q] = pc[q] /\ plan'[q] = plan[q] /\ job'[q] = job[q]
    BY <1>1, <1>9 DEF EndRawRun
  <2>4. \A j \in Ids : containers'[j] = IF j \in todo[p] THEN NoContainer ELSE containers[j]
    BY <1>9 DEF EndRawRun
  <2> QED
    BY <1>2, <2>2, <2>3, <2>4 DEF Undisturbed, Exists, Running, NoContainer
<1>10. CASE AcquireGlobal(p) \/ Load(p) \/ AcquireEnvironment(p)
  <2>1. pc'[q] = pc[q]
    BY <1>1, <1>10, Zenon DEF AcquireGlobal, Load, AcquireEnvironment
  <2> QED
    BY <1>3, <1>10, <2>1 DEF AcquireGlobal, Load, AcquireEnvironment
<1>11. CASE Invoke(p) \/ EndSession(p)
  BY <1>1, <1>3, <1>11 DEF Invoke, EndSession
<1>12. CASE Refuse(p) \/ Return(p) \/ Fail(p)
  <2>1. Leave(p)
    BY <1>12 DEF Refuse, Return, Fail
  <2> QED
    BY <1>1, <1>3, <2>1 DEF Leave
<1> QED
  BY <1>5, <1>6, <1>7, <1>8, <1>9, <1>10, <1>11, <1>12 DEF Step, User

(* Neither a container that exits nor a manifest edit disturbs q's plan.   *)
LEMMA EnvironmentUndisturbs ==
  ASSUME WorkInv, RawRunInv, NEW q \in Procs, Environment
  PROVE  Undisturbed(q)
<1> USE DEF storeVars, podmanVars, localVars
<1>1. ASSUME NEW i \in Ids, ContainerExits(i)
      PROVE  Undisturbed(q)
  <2>1. ASSUME pc[q] \in Applying
        PROVE  ~IsRawRun(plan[q].id)  \/ ~Exists(plan[q].id)
    <3>1. pc[q] \in EnvironmentLabels /\ pc[q] \in PlannedLabels
      BY <2>1 DEF Applying, EnvironmentLabels, PlanningLabels, PlannedLabels
    <3>2. plan[q].id \in Ids /\ plan[q].id # NoId
      BY <3>1, StoreAssumption DEF WorkInv, JobInv
    <3>3. records[plan[q].id].id # NoId
      BY <3>2 DEF WorkInv, LockDiscipline, RegistryInv, Loadable
    <3> QED
      BY <3>2, <3>3 DEF RawRunInv
  <2>2. Exists(i) /\ StopContainer(i)
    BY <1>1 DEF ContainerExits, Running, Exists
  <2>3. pc'[q] = pc[q] /\ plan'[q] = plan[q] /\ job'[q] = job[q]
    BY <1>1 DEF ContainerExits
  <2> QED
    BY <2>1, <2>2, <2>3, StopFrame
<1>2. ASSUME NEW n \in Names, EditManifest(n)
      PROVE  Undisturbed(q)
  BY <1>2 DEF EditManifest, Undisturbed, Exists, Running
<1> QED
  BY <1>1, <1>2 DEF Environment

(* What a process makes of its own plan.                                   *)
LEMMA OwnPlanStep ==
  ASSUME WorkInv, NEW p \in Procs, SpecAsPlanned(p), ProjectAsChecked(p),
         Step(p) \/ User(p) \/ Fail(p)
  PROVE  SpecAsPlanned(p)' /\ ProjectAsChecked(p)'
<1> USE DEF Goto, lockVars, storeVars, podmanVars, localVars, boundVars
<1>1. /\ pc \in [Procs -> Labels] /\ job \in [Procs -> Job] /\ plan \in [Procs -> Plan]
      /\ containers \in [Ids -> Container] /\ index \in Index
  BY DEF WorkInv, TypeOK, StoreTypeOK, PodmanTypeOK
<1>2. ASSUME pc'[p] \notin Applying
      PROVE  SpecAsPlanned(p)' /\ ProjectAsChecked(p)'
  BY <1>2 DEF Applying, SpecAsPlanned, ProjectAsChecked
<1>3. CASE BuildPlan(p)
  <2> DEFINE m == manifests[Env(p)]
             i == index[Env(p)]
  <2>1. /\ plan'[p].id = i /\ plan'[p].spec = m
        /\ plan'[p].drifted = Drifted(i, m)
        /\ containers' = containers
    BY <1>1, <1>3 DEF BuildPlan
  <2>2. SpecAsPlanned(p)'
    <3>1. pc'[p] \in {"project", "teardown", "apply"}
      BY <1>1, <1>3 DEF BuildPlan
    <3> QED
      BY <2>1, <3>1 DEF SpecAsPlanned, Drifted, Exists
  <2>3. pc'[p] = "apply" => Cmd(p)' = "recreate"
    BY <1>1, <1>3 DEF BuildPlan, Cmd
  <2>4. pc'[p] \in {"project", "teardown", "apply"}
    BY <1>1, <1>3 DEF BuildPlan
  <2>5. ProjectAsChecked(p)'
    BY <2>3, <2>4 DEF ProjectAsChecked, ActivateCommands
  <2> QED
    BY <2>2, <2>5
<1>4. CASE SkipProject(p)
  BY <1>1, <1>4 DEF SkipProject, UsesProjectLock, Admits, SpecAsPlanned,
     ProjectAsChecked, Exists
<1>5. CASE AcquireProject(p)
  BY <1>1, <1>5 DEF AcquireProject, SpecAsPlanned, ProjectAsChecked, Exists
<1>6. CASE EnforceProjectConcurrency(p)
  <2>1. pc'[p] = "apply" /\ UNCHANGED <<plan, job, containers>> /\ pc[p] = "enforce"
    BY <1>1, <1>6 DEF EnforceProjectConcurrency
  <2>2. SpecAsPlanned(p)'
    BY <2>1 DEF SpecAsPlanned, Exists
  <2>3. ProjectAsChecked(p)'
    BY <1>6, <2>1 DEF EnforceProjectConcurrency, ProjectConflict, ProjectAsChecked, Shares,
       Running
  <2> QED
    BY <2>2, <2>3
<1>7. CASE PrepareResources(p)
  <2>1. /\ pc'[p] = "create" /\ UNCHANGED <<plan, job, containers>>
        /\ pc[p] = "apply" /\ ~plan[p].drifted
    BY <1>1, <1>7 DEF PrepareResources
  <2>2. SpecAsPlanned(p)'
    BY <2>1 DEF SpecAsPlanned, Exists
  <2>3. ProjectAsChecked(p)'
    BY <2>1 DEF ProjectAsChecked, Shares, Running, Cmd
  <2> QED
    BY <2>2, <2>3
<1>8. CASE UseContainer(p)
  <2>1. pc'[p] = "start" /\ UNCHANGED <<plan, job, containers>> /\ pc[p] = "create"
    BY <1>1, <1>8 DEF UseContainer
  <2>2. SpecAsPlanned(p)'
    BY <2>1 DEF SpecAsPlanned, Exists
  <2>3. ProjectAsChecked(p)'
    BY <2>1 DEF ProjectAsChecked, Shares, Running, Cmd
  <2> QED
    BY <2>2, <2>3
<1>9. CASE Create(p)
  <2>1. /\ pc'[p] = "start" /\ pc[p] = "create" /\ UNCHANGED <<plan, job>>
        /\ containers' = [containers EXCEPT
             ![plan[p].id] = [status |-> "stopped", spec |-> plan[p].spec]]
    BY <1>1, <1>9 DEF Create, CreateContainer
  <2>2. plan[p].id \in Ids
    BY <2>1 DEF WorkInv, JobInv, PlannedLabels
  <2>3. SpecAsPlanned(p)'
    BY <1>1, <2>1, <2>2 DEF SpecAsPlanned, Exists
  <2>4. \A j \in Ids : Running(j)' => Running(j) /\ containers'[j] = containers[j]
    BY <1>1, <2>1, <2>2 DEF Running
  <2>5. ProjectAsChecked(p)'
    BY <2>1, <2>4 DEF ProjectAsChecked, Shares, Cmd
  <2> QED
    BY <2>3, <2>5
<1>10. CASE SkipStart(p) \/ Start(p) \/ Save(p) \/ ReleaseShared(p)
  BY <1>1, <1>2, <1>10 DEF SkipStart, Start, Save, ReleaseShared, Applying
<1>11. CASE Registration(p)
  BY <1>1, <1>2, <1>11 DEF Registration, InitManifest, ReuseRecord, RegisterRecord,
     RegisterIndex, AfterRegister, Applying
<1>12. CASE Removal(p)
  <2>1. pc'[p] \notin Applying
    <3>1. CASE Remove(p)
      BY <1>1, <3>1 DEF Remove, AfterRemove, Applying
    <3>2. CASE ~Remove(p)
      BY <1>1, <1>12, <3>2
         DEF Removal, SessionStop, StopNothing, Stop, List, StopEach, StoppedAll,
             Teardown, ClearRecord, DeleteRead, DeleteContainer, DeleteNetwork,
             DeleteManifest, PurgeHome, Forget, Applying
    <3> QED
      BY <3>1, <3>2
  <2> QED
    BY <1>2, <2>1
<1>13. CASE AcquireGlobal(p) \/ Load(p) \/ AcquireEnvironment(p)
  <2>1. CASE AcquireGlobal(p)
    BY <1>1, <1>2, <2>1 DEF AcquireGlobal, Applying
  <2>2. CASE Load(p)
    BY <1>1, <1>2, <2>2 DEF Load, Applying
  <2>3. CASE AcquireEnvironment(p)
    BY <1>1, <1>2, <2>3 DEF AcquireEnvironment, Applying
  <2> QED
    BY <1>13, <2>1, <2>2, <2>3
<1>14. CASE RawRun(p) \/ EndRawRun(p) \/ EndSession(p)
  BY <1>1, <1>2, <1>14 DEF RawRun, EndRawRun, EndSession, Applying
<1>15. CASE Invoke(p)
  BY <1>1, <1>2, <1>15 DEF Invoke, Applying
<1>16. CASE Refuse(p) \/ Return(p) \/ Fail(p)
  BY <1>1, <1>2, <1>16 DEF Refuse, Return, Fail, Leave, Applying
<1> QED
  BY <1>3, <1>4, <1>5, <1>6, <1>7, <1>8, <1>9, <1>10, <1>11, <1>12, <1>13, <1>14,
     <1>15, <1>16 DEF Step, User, Activation

(* A process looks whether there is a container when it plans, and makes   *)
(* one only where there was none.                                          *)
LEMMA OwnExistsStep ==
  ASSUME WorkInv, NEW p \in Procs, ExistsAsPlanned(p), Step(p) \/ User(p) \/ Fail(p)
  PROVE  ExistsAsPlanned(p)'
<1> USE DEF Goto, lockVars, storeVars, podmanVars, localVars, boundVars
<1> DEFINE sure == {"project", "enforce", "apply", "create"}
<1>1. /\ pc \in [Procs -> Labels] /\ plan \in [Procs -> Plan]
      /\ containers \in [Ids -> Container] /\ index \in Index
  BY DEF WorkInv, TypeOK, StoreTypeOK, PodmanTypeOK
<1>2. ASSUME pc'[p] \notin sure PROVE ExistsAsPlanned(p)'
  BY <1>2 DEF ExistsAsPlanned
<1>3. CASE BuildPlan(p)
  <2>1. plan'[p].exists = Exists(plan'[p].id) /\ containers' = containers
    BY <1>1, <1>3 DEF BuildPlan
  <2> QED
    BY <2>1 DEF ExistsAsPlanned, Exists
<1>4. ASSUME pc[p] \in sure, UNCHANGED <<plan, containers>> PROVE ExistsAsPlanned(p)'
  BY <1>4 DEF ExistsAsPlanned, Exists
<1>5. CASE SkipProject(p) \/ EnforceProjectConcurrency(p) \/ PrepareResources(p)
  BY <1>4, <1>5 DEF SkipProject, EnforceProjectConcurrency, PrepareResources
<1>6. CASE AcquireProject(p)
  BY <1>4, <1>6 DEF AcquireProject
<1>7. CASE UseContainer(p) \/ Create(p) \/ SkipStart(p) \/ Start(p) \/ Save(p) \/ ReleaseShared(p)
  BY <1>1, <1>2, <1>7 DEF UseContainer, Create, SkipStart, Start, Save, ReleaseShared
<1>8. CASE Registration(p)
  BY <1>1, <1>2, <1>8
     DEF Registration, InitManifest, ReuseRecord, RegisterRecord, RegisterIndex, AfterRegister
<1>9. CASE Removal(p)
  <2>1. CASE Remove(p)
    BY <1>1, <1>2, <2>1 DEF Remove, AfterRemove
  <2>2. CASE ~Remove(p)
    BY <1>1, <1>2, <1>9, <2>2
       DEF Removal, SessionStop, StopNothing, Stop, List, StopEach, StoppedAll,
           Teardown, ClearRecord, DeleteRead, DeleteContainer, DeleteNetwork,
           DeleteManifest, PurgeHome, Forget
  <2> QED
    BY <2>1, <2>2
<1>10. CASE AcquireGlobal(p)
  BY <1>1, <1>2, <1>10 DEF AcquireGlobal
<1>11. CASE Load(p)
  BY <1>1, <1>2, <1>11 DEF Load
<1>12. CASE AcquireEnvironment(p)
  BY <1>1, <1>2, <1>12 DEF AcquireEnvironment
<1>13. CASE RawRun(p) \/ EndRawRun(p) \/ EndSession(p) \/ Invoke(p)
  BY <1>1, <1>2, <1>13 DEF RawRun, EndRawRun, EndSession, Invoke
<1>14. CASE Refuse(p) \/ Return(p) \/ Fail(p)
  BY <1>1, <1>2, <1>14 DEF Refuse, Return, Fail, Leave
<1> QED
  BY <1>3, <1>5, <1>6, <1>7, <1>8, <1>9, <1>10, <1>11, <1>12, <1>13, <1>14
     DEF Step, User, Activation

(* Every step keeps what plans say and what the checks found.              *)
LEMMA PlanStep ==
  ASSUME WorkInv, RawRunInv, PlanInv, [Next]_vars
  PROVE  PlanInv'
<1> DEFINE Kept(q) == ExistsAsPlanned(q) /\ SpecAsPlanned(q) /\ ProjectAsChecked(q)
<1> SUFFICES ASSUME NEW q \in Procs
             PROVE  Kept(q)'
  BY DEF PlanInv
<1>1. Kept(q)
  BY DEF PlanInv
<1>2. ASSUME NEW p \in Procs, Step(p) \/ User(p) \/ Fail(p)
      PROVE  Kept(q)'
  <2>1. CASE p = q
    BY <1>1, <1>2, <2>1, OwnPlanStep, OwnExistsStep
  <2>2. CASE p # q
    <3>1. Undisturbed(q)
      BY <1>2, <2>2, OthersUndisturbed
    <3> QED
      BY <1>1, <3>1, PlanFrame
  <2> QED
    BY <2>1, <2>2
<1>3. CASE Environment
  BY <1>1, <1>3, EnvironmentUndisturbs, PlanFrame
<1>4. CASE UNCHANGED vars
  <2>1. Undisturbed(q)
    BY <1>4 DEF vars, podmanVars, localVars, Undisturbed, Exists, Running
  <2> QED
    BY <1>1, <2>1, PlanFrame
<1> QED
  BY <1>2, <1>3, <1>4 DEF Next

(* The inductive invariant, as the runs check it.                          *)
THEOREM InductiveInvariant == Spec => []IInv
<1>1. Init => IInv
  <2> SUFFICES ASSUME Init
               PROVE  IInv
    OBVIOUS
  <2>1. WorkInv
    BY WorkInit
  <2>2. RawRunInv
    BY DEF Init, PodmanInit, RawRunInv, Exists, NoContainer
  <2>3. PlanInv
    BY DEF Init, PlanInv, ExistsAsPlanned, SpecAsPlanned, ProjectAsChecked
  <2> QED
    BY <2>1, <2>2, <2>3 DEF IInv, WorkInv
<1>2. IInv /\ [Next]_vars => IInv'
  <2> SUFFICES ASSUME IInv, [Next]_vars
               PROVE  IInv'
    OBVIOUS
  <2>1. WorkInv /\ RawRunInv /\ PlanInv
    BY DEF IInv, WorkInv
  <2>2. WorkInv' /\ RawRunInv' /\ PlanInv'
    BY <2>1, WorkStep, RawRunStep, PlanStep
  <2> QED
    BY <2>2 DEF IInv, WorkInv
<1> QED
  BY <1>1, <1>2, PTL DEF Spec

-----------------------------------------------------------------------------
(* The only steps after which a container runs that did not: the start of  *)
(* the container of a plan, and a raw run.                                 *)
LEMMA RunsByStart ==
  ASSUME WorkInv, NEW q \in Procs, Step(q) \/ User(q) \/ Fail(q),
         NEW i \in Ids, ~Running(i), Running(i)'
  PROVE  \/ Start(q) /\ i = plan[q].id /\ startedBy'[i] = q
         \/ RawRun(q) /\ i \in FreshIds /\ IsRawRun(i)' /\ startedBy' = startedBy
<1> USE DEF storeVars, podmanVars, localVars
<1>1. /\ containers \in [Ids -> Container] /\ startedBy \in [Ids -> Holder]
      /\ PodmanTypeOK
  BY DEF WorkInv, TypeOK, PodmanTypeOK
<1>2. containers' # containers
  BY DEF Running
<1>3. ~\E k \in Ids : Exists(k) /\ StopContainer(k)
  BY <1>1, StopEffect
<1>4. ASSUME NEW k, RemoveContainer(k)
      PROVE  FALSE
  BY <1>1, <1>4 DEF RemoveContainer, NoContainer, Running
<1>5. CASE Registration(q)
  BY <1>2, <1>5 DEF Registration, InitManifest, ReuseRecord, RegisterRecord, RegisterIndex
<1>6. CASE Activation(q)
  <2>1. CASE Start(q)
    <3>1. i = plan[q].id
      BY <1>1, <2>1 DEF Start, StartContainer, Running
    <3> QED
      BY <1>1, <2>1, <3>1 DEF Start
  <2>2. CASE Create(q)
    BY <1>1, <2>2 DEF Create, CreateContainer, Running
  <2>3. CASE ~Start(q) /\ ~Create(q)
    BY <1>2, <1>6, <2>3
       DEF Activation, BuildPlan, SkipProject, AcquireProject,
           EnforceProjectConcurrency, PrepareResources, UseContainer, SkipStart,
           Save, ReleaseShared
  <2> QED
    BY <2>1, <2>2, <2>3
<1>7. CASE Removal(q)
  <2>1. \E k : RemoveContainer(k) \/ (Exists(k) /\ StopContainer(k))
    BY <1>2, <1>7
       DEF Removal, SessionStop, StopNothing, Stop, List, StopEach, StoppedAll,
           Teardown, Remove, ClearRecord, DeleteRead, DeleteContainer, HasContainer,
           DeleteNetwork, DeleteManifest, PurgeHome, Forget
  <2> QED
    BY <1>1, <1>4, <2>1, StopEffect
<1>8. CASE AcquireGlobal(q) \/ Load(q) \/ AcquireEnvironment(q)
  BY <1>2, <1>8 DEF AcquireGlobal, Load, AcquireEnvironment
<1>9. CASE RawRun(q)
  <2>1. PICK k \in FreshIds :
          containers' = [containers EXCEPT ![k] = [status |-> "running", spec |-> RawSpec]]
    BY <1>9 DEF RawRun
  <2>2. i = k
    BY <1>1, <2>1 DEF Running
  <2>3. containers'[i] = [status |-> "running", spec |-> RawSpec]
    BY <1>1, <2>1, <2>2
  <2>4. startedBy' = startedBy
    BY <1>9 DEF RawRun
  <2> QED
    BY <1>9, <2>1, <2>2, <2>3, <2>4 DEF IsRawRun
<1>10. CASE Refuse(q) \/ Return(q) \/ Fail(q)
  BY <1>2, <1>10 DEF Refuse, Return, Fail, Leave
<1>11. CASE User(q)
  <2>1. CASE Invoke(q) \/ EndSession(q)
    BY <1>2, <2>1 DEF Invoke, EndSession
  <2>2. CASE EndRawRun(q)
    BY <1>1, <2>2 DEF EndRawRun, NoContainer, Running
  <2> QED
    BY <1>11, <2>1, <2>2 DEF User
<1> QED
  BY <1>5, <1>6, <1>7, <1>8, <1>9, <1>10, <1>11 DEF Step

(* So a container started on behalf of a process is that of its plan.      *)
LEMMA StartsByStart ==
  ASSUME WorkInv, RawRunInv, Next, NEW p \in Procs, NEW i \in Ids, Starts(p, i)
  PROVE  Start(p) /\ i = plan[p].id
<1>1. ~Running(i) /\ Running(i)' /\ startedBy'[i] = p
  BY DEF Starts
<1>2. ~Environment
  <2>1. PodmanTypeOK
    BY DEF WorkInv, TypeOK
  <2>2. containers' # containers /\ ~\E k \in Ids : Exists(k) /\ StopContainer(k)
    BY <1>1, <2>1, StopEffect DEF Running
  <2> QED
    BY <2>2 DEF Environment, ContainerExits, EditManifest, Running, Exists, podmanVars
<1>3. PICK q \in Procs : Step(q) \/ User(q) \/ Fail(q)
  BY <1>2 DEF Next
<1>4. CASE Start(q) /\ i = plan[q].id /\ startedBy'[i] = q
  BY <1>1, <1>4
<1>5. CASE i \in FreshIds /\ startedBy' = startedBy
  BY <1>1, <1>5, NoProcAssumption DEF FreshIds, RawRunInv
<1> QED
  BY <1>1, <1>3, <1>4, <1>5, RunsByStart

(* What starts is the container of the plan, made from the planned         *)
(* specification.                                                          *)
THEOREM StartIsPlanned == Spec => StartsWhatWasPlanned
<1>1. ASSUME IInv, Next, NEW p \in Procs, NEW i \in Ids, Starts(p, i)
      PROVE  plan[p].id = i /\ containers[i].spec = plan[p].spec
  <2>1. Start(p) /\ i = plan[p].id
    BY <1>1, StartsByStart DEF IInv, WorkInv
  <2>2. pc[p] = "start" /\ Exists(plan[p].id)
    BY <2>1 DEF Start
  <2> QED
    BY <1>1, <2>1, <2>2 DEF IInv, PlanInv, SpecAsPlanned
<1>2. IInv /\ [Next]_vars =>
        [\A p \in Procs, i \in Ids :
           Starts(p, i) => plan[p].id = i /\ containers[i].spec = plan[p].spec]_vars
  BY <1>1
<1> QED
  BY <1>2, InductiveInvariant, PTL DEF Spec, StartsWhatWasPlanned

(* No activation starts a container beside another environment's on the    *)
(* same project unless its mode admits that.                               *)
THEOREM StartIsAdmitted == Spec => StartRespectsProject
<1>1. ASSUME IInv, Next, NEW p \in Procs, NEW i \in Ids,
             Starts(p, i), Cmd(p) \in ActivateCommands
      PROVE  LET m == containers[i].spec
             IN  \/ m.project = NoProject
                 \/ Admits(m)
                 \/ ~\E j \in Ids : Shares(i, j, m)
  <2>1. Start(p) /\ i = plan[p].id
    BY <1>1, StartsByStart DEF IInv, WorkInv
  <2>2. pc[p] = "start" /\ Exists(i)
    BY <2>1 DEF Start
  <2>3. containers[i].spec = plan[p].spec
    BY <1>1, <2>1, <2>2 DEF IInv, PlanInv, SpecAsPlanned
  <2> QED
    BY <1>1, <2>1, <2>2, <2>3 DEF IInv, PlanInv, ProjectAsChecked
<1>2. IInv /\ [Next]_vars =>
        [\A p \in Procs, i \in Ids :
           Starts(p, i) /\ Cmd(p) \in ActivateCommands =>
             LET m == containers[i].spec
             IN  \/ m.project = NoProject
                 \/ Admits(m)
                 \/ ~\E j \in Ids : Shares(i, j, m)]_vars
  BY <1>1
<1> QED
  BY <1>2, InductiveInvariant, PTL DEF Spec, StartRespectsProject
===============================================================================
