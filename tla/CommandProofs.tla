----------------------------- MODULE CommandProofs -----------------------------
(***************************************************************************)
(* Theorems of Lifecycle about what the commands promise: sessions are     *)
(* left alone and stop only what they started, stop and recreate do what   *)
(* they report, and the state files are true.                              *)
(***************************************************************************)
EXTENDS LifecycleProofs

-----------------------------------------------------------------------------
(***************************************************************************)
(* Sessions: nothing disturbs an open one, and one that ends stops only    *)
(* what it started.                                                        *)
(***************************************************************************)

(* A session stops at its end what its plan found stopped, so that must    *)
(* stay stopped until the session starts it, and whatever runs then is     *)
(* what it started.                                                        *)
SessionAsPlanned(p) ==
  /\ pc[p] \in {"project", "enforce", "apply", "create", "start"} /\ ~plan[p].running =>
       ~Running(plan[p].id)
  /\ pc[p] \in {"save", "release", "exec", "sessionStop"} /\ ~plan[p].running
       /\ Running(plan[p].id) => startedBy[plan[p].id] = p
  /\ pc[p] = "sessionStop" => ~plan[p].running

SessionInv == \A p \in Procs : SessionAsPlanned(p)

(* What the steps of others do to the container of an environment that p   *)
(* has locked: nothing, but that `stop --all` may stop it.                 *)
Spared(p, i) ==
  /\ Running(i)' => Running(i)
  /\ Exists(i) => Exists(i)'
  /\ Exists(i)' => Exists(i) /\ containers'[i].spec = containers[i].spec
  /\ startedBy[i] = p => startedBy'[i] = p

LEMMA OthersLeaveLocals ==
  ASSUME IInv, NEW p \in Procs, NEW q \in Procs \ {p}, Step(q) \/ User(q) \/ Fail(q)
  PROVE  /\ pc'[p] = pc[p] /\ plan'[p] = plan[p]
         /\ job'[p] = job[p] /\ stored'[p] = stored[p] /\ todo'[p] = todo[p]
<1> USE DEF Goto, storeVars, podmanVars, localVars, boundVars
<1>0. /\ pc \in [Procs -> Labels] /\ plan \in [Procs -> Plan] /\ job \in [Procs -> Job]
      /\ stored \in [Procs -> Record] /\ todo \in [Procs -> SUBSET Ids]
  BY DEF IInv, TypeOK
<1>1. CASE Registration(q) \/ AcquireGlobal(q) \/ Load(q) \/ AcquireEnvironment(q)
  BY <1>0, <1>1 DEF Registration, InitManifest, ReuseRecord, RegisterRecord, RegisterIndex,
                    AcquireGlobal, Load, AcquireEnvironment
<1>2. CASE Activation(q)
  BY <1>0, <1>2
     DEF Activation, BuildPlan, SkipProject, AcquireProject, EnforceProjectConcurrency,
         PrepareResources, UseContainer, Create, SkipStart, Start, Save, ReleaseShared
<1>3. CASE Removal(q)
  BY <1>0, <1>3
     DEF Removal, SessionStop, StopNothing, Stop, List, StopEach, StoppedAll, Teardown,
         Remove, ClearRecord, DeleteRead, DeleteContainer, DeleteNetwork, DeleteManifest,
         PurgeHome, Forget
<1>4. CASE RawRun(q) \/ User(q)
  BY <1>0, <1>4 DEF RawRun, User, Invoke, EndSession, EndRawRun
<1>5. CASE Refuse(q) \/ Return(q) \/ Fail(q)
  BY <1>0, <1>5 DEF Refuse, Return, Fail, Leave
<1> QED
  BY <1>1, <1>2, <1>3, <1>4, <1>5 DEF Step

LEMMA OthersSpare ==
  ASSUME IInv, NEW p \in Procs, NEW q \in Procs \ {p}, NEW i \in Ids,
         envLock[i] = p, records[i].id # NoId, Step(q) \/ User(q) \/ Fail(q)
  PROVE  /\ pc'[p] = pc[p] /\ plan'[p] = plan[p]
         /\ Spared(p, i)
         /\ Running(i) /\ ~Running(i)' => pc[q] = "stopEach"
<1> USE StoreAssumption DEF Goto, lockVars, storeVars, podmanVars, localVars, boundVars
<1>1. /\ pc \in [Procs -> Labels] /\ plan \in [Procs -> Plan]
      /\ PodmanTypeOK /\ containers \in [Ids -> Container] /\ startedBy \in [Ids -> Holder]
      /\ Exists(i) => ~IsRawRun(i)
  BY DEF IInv, TypeOK, PodmanTypeOK, RawRunInv
<1>2. /\ pc[q] \in EnvironmentLabels => stored[q].id # i
      /\ plan[q].id # i
  BY NoProcAssumption DEF IInv, LockDiscipline
<1>3. pc'[p] = pc[p] /\ plan'[p] = plan[p]
  BY OthersLeaveLocals
<1>4. ASSUME containers'[i] = containers[i], startedBy[i] = p => startedBy'[i] = p
      PROVE  Spared(p, i) /\ ~(Running(i) /\ ~Running(i)')
  BY <1>4 DEF Spared, Running, Exists
<1>5. ASSUME NEW k \in Ids, Exists(k), StopContainer(k), UNCHANGED startedBy
      PROVE  Spared(p, i) /\ (k # i => ~(Running(i) /\ ~Running(i)'))
  BY <1>1, <1>5, StopEffect DEF Spared, Running
<1>6. CASE Registration(q) \/ AcquireGlobal(q) \/ Load(q) \/ AcquireEnvironment(q)
  BY <1>3, <1>4, <1>6 DEF Registration, InitManifest, ReuseRecord, RegisterRecord,
                          RegisterIndex, AcquireGlobal, Load, AcquireEnvironment
<1>7. CASE Activation(q)
  <2>1. CASE Create(q)
    <3>1. containers'[i] = containers[i]
      BY <1>1, <1>2, <2>1 DEF Create, CreateContainer
    <3> QED
      BY <1>3, <1>4, <2>1, <3>1 DEF Create
  <2>2. CASE Start(q)
    <3>1. containers'[i] = containers[i] /\ startedBy'[i] = startedBy[i]
      BY <1>1, <1>2, <2>2 DEF Start, StartContainer
    <3> QED
      BY <1>3, <1>4, <3>1
  <2>3. CASE ~Create(q) /\ ~Start(q)
    BY <1>3, <1>4, <1>7, <2>3
       DEF Activation, BuildPlan, SkipProject, AcquireProject, EnforceProjectConcurrency,
           PrepareResources, UseContainer, SkipStart, Save, ReleaseShared
  <2> QED
    BY <2>1, <2>2, <2>3
<1>8. CASE Removal(q)
  <2>1. CASE SessionStop(q) \/ Stop(q) \/ Teardown(q) \/ DeleteContainer(q)
    <3>1. /\ UNCHANGED startedBy
          /\ \/ UNCHANGED containers
             \/ \E k \in {plan[q].id, stored[q].id} :
                  k # i /\ k \in Ids /\ Exists(k) /\ StopContainer(k)
      BY <1>2, <2>1
         DEF SessionStop, Stop, Teardown, DeleteContainer, HasContainer, IInv, JobInv,
             LockDiscipline, PlannedLabels, PlanningLabels, EnvironmentLabels
    <3> QED
      BY <1>3, <1>4, <1>5, <3>1
  <2>2. CASE StopEach(q)
    <3>1. pc[q] = "stopEach" /\ UNCHANGED startedBy
      BY <2>2 DEF StopEach
    <3>2. PICK k \in todo[q] : IF Exists(k) THEN StopContainer(k) ELSE UNCHANGED containers
      BY <2>2 DEF StopEach
    <3>3. k \in Ids
      BY <3>2 DEF IInv, TypeOK
    <3> QED
      BY <1>3, <1>4, <1>5, <3>1, <3>2, <3>3
  <2>3. CASE Remove(q)
    <3>1. Target(q) # i /\ RemoveContainer(Target(q)) /\ UNCHANGED startedBy
      BY <1>2, <2>3 DEF Remove, AfterRemove, Target, PlanningLabels, EnvironmentLabels
    <3>2. containers'[i] = containers[i]
      BY <1>1, <3>1 DEF RemoveContainer
    <3> QED
      BY <1>3, <1>4, <3>1, <3>2
  <2>4. CASE \/ StopNothing(q) \/ List(q) \/ StoppedAll(q) \/ ClearRecord(q) \/ DeleteRead(q)
             \/ DeleteNetwork(q) \/ DeleteManifest(q) \/ PurgeHome(q) \/ Forget(q)
    BY <1>3, <1>4, <2>4
       DEF StopNothing, List, StoppedAll, ClearRecord, DeleteRead, DeleteNetwork,
           DeleteManifest, PurgeHome, Forget
  <2> QED
    BY <1>8, <2>1, <2>2, <2>3, <2>4 DEF Removal
<1>9. CASE RawRun(q)
  <2>1. containers'[i] = containers[i] /\ UNCHANGED startedBy
    BY <1>1, <1>9 DEF RawRun, FreshIds
  <2> QED
    BY <1>3, <1>4, <2>1
<1>10. CASE User(q)
  <2>1. CASE Invoke(q) \/ EndSession(q)
    BY <1>3, <1>4, <2>1 DEF Invoke, EndSession
  <2>2. CASE EndRawRun(q)
    <3>1. containers'[i] = containers[i] /\ UNCHANGED startedBy
      BY <2>2 DEF EndRawRun, IInv, RawRunInv
    <3> QED
      BY <1>3, <1>4, <3>1
  <2> QED
    BY <1>10, <2>1, <2>2 DEF User
<1>11. CASE Refuse(q) \/ Return(q) \/ Fail(q)
  <2>1. containers' = containers /\ (startedBy[i] = p => startedBy'[i] = p)
    BY <1>1, <1>11 DEF Refuse, Return, Fail, Leave, Dropped
  <2> QED
    BY <1>3, <1>4, <2>1
<1> QED
  BY <1>6, <1>7, <1>8, <1>9, <1>10, <1>11 DEF Step

(* Containers that end by themselves, and edits.                           *)
LEMMA EnvironmentSpares ==
  ASSUME IInv, NEW p \in Procs, NEW i \in Ids, records[i].id # NoId, Environment
  PROVE  /\ pc'[p] = pc[p] /\ plan'[p] = plan[p]
         /\ Spared(p, i)
         /\ Running(i) /\ ~Running(i)' => faults' # faults
<1> USE DEF storeVars, podmanVars, localVars
<1>1. /\ PodmanTypeOK /\ faults \in Nat
      /\ Exists(i) => ~IsRawRun(i)
  BY LifecycleAssumption DEF IInv, TypeOK, RawRunInv
<1>2. ASSUME NEW k \in Ids, ContainerExits(k)
      PROVE  /\ pc' = pc /\ plan' = plan
             /\ Spared(p, i)
             /\ faults' # faults
  <2>1. Exists(k) /\ StopContainer(k) /\ UNCHANGED <<pc, plan, startedBy>> /\ faults' = faults + 1
    BY <1>2 DEF ContainerExits, Running, Exists
  <2>2. faults' # faults
    BY <1>1, <2>1, SMT
  <2> QED
    BY <1>1, <2>1, <2>2, StopEffect DEF Spared
<1>3. ASSUME NEW n \in Names, EditManifest(n)
      PROVE  pc' = pc /\ plan' = plan /\ containers' = containers /\ startedBy' = startedBy
  BY <1>3 DEF EditManifest
<1> QED
  BY <1>2, <1>3 DEF Environment, Spared, Running, Exists

(* A process that has planned holds the lock of an environment that has a  *)
(* state file.                                                             *)
LEMMA PlannedIsLocked ==
  ASSUME IInv, NEW p \in Procs, plan[p].id \in Ids
  PROVE  envLock[plan[p].id] = p /\ records[plan[p].id].id # NoId
BY StoreAssumption DEF IInv, LockDiscipline, RegistryInv, Loadable

-----------------------------------------------------------------------------
(* A process in a session that takes a step leaves the session.            *)
LEMMA SessionOwnStep ==
  ASSUME IInv, NEW p \in Procs, pc[p] = "exec", Step(p) \/ User(p) \/ Fail(p)
  PROVE  pc'[p] # "exec"
<1> USE DEF Goto
<1>1. pc \in [Procs -> Labels]
  BY DEF IInv, TypeOK
<1>2. ~Registration(p) /\ ~AcquireGlobal(p) /\ ~Load(p) /\ ~AcquireEnvironment(p)
      /\ ~RawRun(p) /\ ~Invoke(p) /\ ~EndRawRun(p)
  BY DEF Registration, InitManifest, ReuseRecord, RegisterRecord, RegisterIndex,
         AcquireGlobal, Load, AcquireEnvironment, RawRun, Invoke, EndRawRun
<1>3. ~Activation(p)
  BY DEF Activation, BuildPlan, SkipProject, AcquireProject, EnforceProjectConcurrency,
         PrepareResources, UseContainer, Create, SkipStart, Start, Save, ReleaseShared
<1>4. ~Removal(p)
  BY DEF Removal, SessionStop, StopNothing, Stop, List, StopEach, StoppedAll, Teardown,
         Remove, AfterRemove, ClearRecord, DeleteRead, DeleteContainer, DeleteNetwork,
         DeleteManifest, PurgeHome, Forget
<1>5. CASE EndSession(p)
  BY <1>1, <1>5 DEF EndSession
<1>6. CASE Refuse(p) \/ Return(p) \/ Fail(p)
  BY <1>1, <1>6 DEF Refuse, Return, Fail, Leave
<1> QED
  BY <1>2, <1>3, <1>4, <1>5, <1>6 DEF Step, User

(* While a session is open nothing removes its container, and nothing but  *)
(* `stop --all` and the container itself stops it.                         *)
THEOREM SessionsUndisturbed == Spec => SessionUndisturbed
<1>1. ASSUME IInv, Next, NEW p \in Procs, NEW i \in Ids, InSession(p, i), InSession(p, i)'
      PROVE  /\ Exists(i) => Exists(i)'
             /\ Running(i) /\ ~Running(i)' =>
                  faults' # faults \/ \E q \in Procs : pc[q] = "stopEach"
  <2>1. pc[p] = "exec" /\ pc'[p] = "exec" /\ plan[p].id = i
    BY <1>1 DEF InSession
  <2>2. envLock[i] = p /\ records[i].id # NoId
    BY <1>1, <2>1, PlannedIsLocked
  <2>3. CASE Environment
    BY <1>1, <2>2, <2>3, EnvironmentSpares DEF Spared
  <2>4. ASSUME NEW q \in Procs, Step(q) \/ User(q) \/ Fail(q)
        PROVE  /\ Exists(i) => Exists(i)'
               /\ Running(i) /\ ~Running(i)' => pc[q] = "stopEach"
    <3>1. q # p
      BY <1>1, <2>1, <2>4, SessionOwnStep
    <3> QED
      BY <1>1, <2>2, <2>4, <3>1, OthersSpare DEF Spared
  <2> QED
    BY <1>1, <2>3, <2>4 DEF Next
<1>2. IInv /\ [Next]_vars =>
        [\A p \in Procs, i \in Ids :
           InSession(p, i) /\ InSession(p, i)' =>
             /\ Exists(i) => Exists(i)'
             /\ Running(i) /\ ~Running(i)' =>
                  faults' # faults \/ \E q \in Procs : pc[q] = "stopEach"]_vars
  BY <1>1
<1> QED
  BY <1>2, InductiveInvariant, PTL DEF Spec, SessionUndisturbed

-----------------------------------------------------------------------------
Planned == {"project", "enforce", "apply", "create", "start", "save", "release", "exec",
            "sessionStop"}

LEMMA SessionOwnWork ==
  ASSUME IInv, SessionInv, NEW p \in Procs, Step(p) \/ User(p) \/ Fail(p)
  PROVE  SessionAsPlanned(p)'
<1> USE DEF Goto, lockVars, storeVars, podmanVars, localVars, boundVars
<1>1. /\ pc \in [Procs -> Labels] /\ plan \in [Procs -> Plan]
      /\ containers \in [Ids -> Container] /\ startedBy \in [Ids -> Holder]
      /\ index \in Index
  BY DEF IInv, TypeOK, StoreTypeOK, PodmanTypeOK
<1>2. ASSUME pc'[p] \notin Planned
      PROVE  SessionAsPlanned(p)'
  BY <1>2 DEF Planned, SessionAsPlanned
<1>3. CASE Registration(p) \/ AcquireGlobal(p) \/ Load(p) \/ AcquireEnvironment(p)
  <2>1. pc'[p] \notin Planned
    BY <1>1, <1>3 DEF Planned, Registration, InitManifest, ReuseRecord, RegisterRecord,
                      RegisterIndex, AfterRegister, AcquireGlobal, Load, AcquireEnvironment
  <2> QED
    BY <1>2, <2>1
<1>4. CASE BuildPlan(p)
  <2>1. plan'[p].running = Running(index[Env(p)]) /\ plan'[p].id = index[Env(p)]
    BY <1>1, <1>4 DEF BuildPlan
  <2>2. UNCHANGED containers /\ pc'[p] \in {"project", "teardown", "apply"}
    BY <1>1, <1>4 DEF BuildPlan
  <2> QED
    BY <2>1, <2>2 DEF SessionAsPlanned, Running
<1>5. CASE \/ SkipProject(p) \/ AcquireProject(p) \/ EnforceProjectConcurrency(p)
           \/ PrepareResources(p) \/ UseContainer(p)
  <2>1. UNCHANGED <<containers, plan>>
        /\ pc[p] \in {"project", "enforce", "apply", "create"}
        /\ pc'[p] \in {"enforce", "apply", "create", "start"}
    BY <1>1, <1>5 DEF SkipProject, AcquireProject, EnforceProjectConcurrency,
                      PrepareResources, UseContainer
  <2> QED
    BY <2>1 DEF SessionInv, SessionAsPlanned, Running
<1>6. CASE Create(p)
  <2>1. plan[p].id \in Ids
    BY <1>6 DEF Create, IInv, JobInv, PlannedLabels
  <2>2. pc'[p] = "start" /\ plan'[p] = plan[p] /\ containers'[plan[p].id].status = "stopped"
    BY <1>1, <1>6, <2>1 DEF Create, CreateContainer
  <2> QED
    BY <2>2 DEF SessionAsPlanned, Running
<1>7. CASE SkipStart(p)
  <2>1. pc[p] = "start" /\ pc'[p] = "save" /\ UNCHANGED <<containers, plan>>
    BY <1>1, <1>7 DEF SkipStart
  <2> QED
    BY <2>1 DEF SessionInv, SessionAsPlanned, Running
<1>8. CASE Start(p)
  <2>1. plan[p].id \in Ids
    BY <1>8 DEF Start, IInv, JobInv, PlannedLabels
  <2>2. pc[p] = "start" /\ pc'[p] = "save" /\ UNCHANGED plan /\ ~plan[p].running
    BY <1>1, <1>8 DEF Start, WantsStart
  <2>3. ~Running(plan[p].id)
    BY <2>2 DEF SessionInv, SessionAsPlanned
  <2>4. startedBy'[plan[p].id] = p
    BY <1>1, <1>8, <2>1, <2>3 DEF Start
  <2> QED
    BY <2>2, <2>4 DEF SessionAsPlanned
<1>9. CASE Save(p) \/ ReleaseShared(p)
  <2>1. /\ UNCHANGED <<containers, plan, startedBy>>
        /\ pc[p] \in {"save", "release"} /\ pc'[p] \in {"release", "exec", "ok"}
    BY <1>1, <1>9 DEF Save, ReleaseShared
  <2> QED
    BY <2>1 DEF SessionInv, SessionAsPlanned, Running
<1>10. CASE Removal(p)
  <2>1. pc'[p] \notin Planned
    <3>1. CASE SessionStop(p) \/ Stop(p) \/ Teardown(p) \/ DeleteContainer(p)
      BY <1>1, <3>1 DEF Planned, SessionStop, Stop, Teardown, DeleteContainer
    <3>2. CASE Remove(p)
      BY <1>1, <3>2 DEF Planned, Remove, AfterRemove
    <3>3. CASE ~Remove(p) /\ ~(SessionStop(p) \/ Stop(p) \/ Teardown(p) \/ DeleteContainer(p))
      BY <1>1, <1>10, <3>3
         DEF Planned, Removal, StopNothing, List, StopEach, StoppedAll, ClearRecord,
             DeleteRead, DeleteNetwork, DeleteManifest, PurgeHome, Forget
    <3> QED
      BY <3>1, <3>2, <3>3
  <2> QED
    BY <1>2, <2>1
<1>11. CASE EndSession(p)
  <2>1. /\ UNCHANGED <<containers, plan, startedBy>>
        /\ pc[p] = "exec" /\ pc'[p] \in {"sessionStop", "ok"}
        /\ pc'[p] = "sessionStop" => ~plan[p].running
    BY <1>1, <1>11 DEF EndSession, StopsAtEnd
  <2> QED
    BY <2>1 DEF SessionInv, SessionAsPlanned, Running
<1>12. CASE RawRun(p) \/ Invoke(p) \/ EndRawRun(p)
  <2>1. pc'[p] \notin Planned
    BY <1>1, <1>12 DEF Planned, RawRun, Invoke, EndRawRun
  <2> QED
    BY <1>2, <2>1
<1>13. CASE Refuse(p) \/ Return(p) \/ Fail(p)
  <2>1. pc'[p] = "idle"
    BY <1>1, <1>13 DEF Refuse, Return, Fail, Leave
  <2> QED
    BY <1>2, <2>1 DEF Planned
<1> QED
  BY <1>3, <1>4, <1>5, <1>6, <1>7, <1>8, <1>9, <1>10, <1>11, <1>12, <1>13
     DEF Step, User, Activation

LEMMA SessionStep ==
  ASSUME IInv, SessionInv, [Next]_vars
  PROVE  SessionInv'
<1> SUFFICES ASSUME NEW p \in Procs PROVE SessionAsPlanned(p)'
  BY DEF SessionInv
<1>1. CASE Step(p) \/ User(p) \/ Fail(p)
  BY <1>1, SessionOwnWork
<1>2. ASSUME pc'[p] = pc[p], plan'[p] = plan[p],
             plan[p].id \in Ids => Spared(p, plan[p].id)
      PROVE  SessionAsPlanned(p)'
  <2>1. pc[p] \in Planned => plan[p].id \in Ids
    BY DEF Planned, IInv, JobInv, PlannedLabels
  <2> QED
    BY <1>2, <2>1 DEF SessionInv, SessionAsPlanned, Spared, Planned, Running
<1>3. ASSUME NEW q \in Procs \ {p}, Step(q) \/ User(q) \/ Fail(q)
      PROVE  SessionAsPlanned(p)'
  <2>1. pc'[p] = pc[p] /\ plan'[p] = plan[p]
    BY <1>3, OthersLeaveLocals
  <2>2. ASSUME plan[p].id \in Ids
        PROVE  Spared(p, plan[p].id)
    BY <1>3, <2>2, PlannedIsLocked, OthersSpare
  <2> QED
    BY <1>2, <2>1, <2>2
<1>4. CASE Environment
  <2>1. pc'[p] = pc[p] /\ plan'[p] = plan[p]
    BY <1>4 DEF Environment, ContainerExits, EditManifest, localVars
  <2>2. ASSUME plan[p].id \in Ids
        PROVE  Spared(p, plan[p].id)
    BY <1>4, <2>2, PlannedIsLocked, EnvironmentSpares
  <2> QED
    BY <1>2, <2>1, <2>2
<1>5. CASE UNCHANGED vars
  BY <1>2, <1>5 DEF vars, podmanVars, localVars, Spared, Running, Exists
<1> QED
  BY <1>1, <1>3, <1>4, <1>5 DEF Next

THEOREM SessionInvariant == Spec => []SessionInv
<1>1. Init => SessionInv
  BY DEF Init, SessionInv, SessionAsPlanned
<1>2. IInv /\ SessionInv /\ [Next]_vars => SessionInv'
  BY SessionStep
<1> QED
  BY <1>1, <1>2, InductiveInvariant, PTL DEF Spec

(* A session that ends stops a container only if it started that container *)
(* itself.                                                                 *)
THEOREM SessionsStopTheirOwn == Spec => SessionStopsOwnStart
<1>1. ASSUME IInv, SessionInv, Next, NEW p \in Procs, NEW i \in Ids,
             pc[p] = "sessionStop", pc'[p] # "sessionStop", Running(i), ~Running(i)'
      PROVE  startedBy[i] = p
  <2>1. plan[p].id \in Ids /\ ~plan[p].running
    BY <1>1 DEF IInv, JobInv, SessionInv, SessionAsPlanned
  <2>2. Step(p) \/ User(p) \/ Fail(p)
    <3>1. ~Environment
      BY <1>1, <2>1, PlannedIsLocked, EnvironmentSpares
    <3>2. ASSUME NEW q \in Procs \ {p}
          PROVE  ~(Step(q) \/ User(q) \/ Fail(q))
      BY <1>1, <2>1, PlannedIsLocked, OthersSpare
    <3> QED
      BY <1>1, <3>1, <3>2 DEF Next
  <2>3. CASE SessionStop(p)
    <3>1. Exists(plan[p].id) /\ StopContainer(plan[p].id) /\ PodmanTypeOK
      BY <1>1, <2>3 DEF SessionStop, IInv, TypeOK
    <3>2. i = plan[p].id
      BY <1>1, <2>1, <3>1, StopEffect DEF Running
    <3> QED
      BY <1>1, <2>1, <3>2 DEF SessionInv, SessionAsPlanned
  <2>4. CASE ~SessionStop(p)
    <3>1. containers' = containers
      <4> USE DEF storeVars, podmanVars
      <4>1. CASE Refuse(p) \/ Return(p) \/ Fail(p)
        BY <4>1 DEF Refuse, Return, Fail, Leave
      <4>2. ~Registration(p) /\ ~AcquireGlobal(p) /\ ~Load(p) /\ ~AcquireEnvironment(p)
            /\ ~RawRun(p) /\ ~User(p)
        BY <1>1 DEF Registration, InitManifest, ReuseRecord, RegisterRecord, RegisterIndex,
                    AcquireGlobal, Load, AcquireEnvironment, RawRun, User, Invoke, EndSession,
                    EndRawRun
      <4>3. ~Activation(p)
        BY <1>1
           DEF Activation, BuildPlan, SkipProject, AcquireProject, EnforceProjectConcurrency,
               PrepareResources, UseContainer, Create, SkipStart, Start, Save, ReleaseShared
      <4>4. ~Removal(p)
        BY <1>1, <2>4
           DEF Removal, StopNothing, Stop, List, StopEach, StoppedAll, Teardown, Remove,
               AfterRemove, ClearRecord, DeleteRead, DeleteContainer, DeleteNetwork,
               DeleteManifest, PurgeHome, Forget
      <4> QED
        BY <2>2, <4>1, <4>2, <4>3, <4>4 DEF Step
    <3> QED
      BY <1>1, <3>1 DEF Running
  <2> QED
    BY <2>3, <2>4
<1>2. IInv /\ SessionInv /\ [Next]_vars =>
        [\A p \in Procs, i \in Ids :
           /\ pc[p] = "sessionStop" /\ pc'[p] # "sessionStop"
           /\ Running(i) /\ ~Running(i)'
           => startedBy[i] = p]_vars
  BY <1>1
<1> QED
  BY <1>2, InductiveInvariant, SessionInvariant, PTL DEF Spec, SessionStopsOwnStart

-----------------------------------------------------------------------------
(***************************************************************************)
(* Commands that report success: what `stop --all` has stopped and what    *)
(* recreate has left.                                                      *)
(***************************************************************************)

(* The command a label belongs to, where the proofs need it, and the       *)
(* global lock that these two commands keep to their end.                  *)
CommandAsked(p) ==
  /\ pc[p] = "read" => Cmd(p) = "delete"
  /\ pc[p] = "lock" => Cmd(p) \notin {"run", "none"}
  /\ pc[p] = "load" => Cmd(p) \notin {"stopAll", "init", "delete"}
  /\ pc[p] \in {"init", "record", "index"} => Cmd(p) \notin {"recreate", "stopAll"}
  /\ pc[p] \in {"list", "stopEach"} => Cmd(p) = "stopAll"
  /\ pc[p] \in {"project", "enforce", "release"} => Cmd(p) \notin {"recreate", "stopAll"}
  /\ pc[p] \in {"teardown", "teardownRemove", "teardownSave", "replan"} => Cmd(p) = "recreate"
  /\ pc[p] \in {"exec", "sessionStop", "sessionRemove", "sessionSave",
                "stop", "stopRemove", "stopSave",
                "deleteContainer", "deleteRemove", "deleteNetwork", "unlink", "purge", "forget",
                "run", "attached"} => Cmd(p) \notin {"recreate", "stopAll"}
  /\ pc[p] \in {"envLock", "plan", "apply", "create", "start", "save"} => Cmd(p) # "stopAll"
  /\ pc[p] = "ok" /\ Cmd(p) \in {"recreate", "stopAll"} => globalLock = p

CommandInv == \A p \in Procs : CommandAsked(p)

(* `stop --all` has every running container on its list, and later none.   *)
StopAllAsListed(p) ==
  /\ pc[p] = "stopEach" => \A i \in RunningIds : IsRawRun(i) \/ i \in todo[p]
  /\ pc[p] = "ok" /\ Cmd(p) = "stopAll" => \A i \in RunningIds : IsRawRun(i)

(* recreate finds no container when it plans again, makes one that does    *)
(* not run, and starts it if the old one ran.                              *)
RecreateAsPlanned(p) ==
  LET i == plan[p].id
  IN  /\ pc[p] = "teardown" => plan[p].exists = Exists(i)
      /\ pc[p] \in {"teardownSave", "replan"} => ~Exists(stored[p].id)
      /\ pc[p] \in {"apply", "create"} /\ Cmd(p) = "recreate" =>
           ~plan[p].exists /\ ~plan[p].running /\ ~Exists(i)
      /\ pc[p] = "start" /\ Cmd(p) = "recreate" =>
           ~plan[p].running /\ Exists(i) /\ ~Running(i)
      /\ pc[p] \in {"save", "ok"} /\ Cmd(p) = "recreate" =>
           /\ i \in Ids
           /\ Exists(i)
           /\ containers[i].spec = plan[p].spec
           /\ Running(i) => plan[p].restart
           /\ plan[p].restart /\ faults = 0 => Running(i)

-----------------------------------------------------------------------------
(* The global lock of a process is its own until it lets go of it.         *)
LEMMA GlobalLockKept ==
  ASSUME IInv, NEW p \in Procs, globalLock = p, NEW q \in Procs \ {p},
         Step(q) \/ User(q) \/ Fail(q)
  PROVE  globalLock' = p
<1> USE NoProcAssumption DEF lockVars
<1>1. CASE Registration(q) \/ Load(q) \/ AcquireEnvironment(q)
  BY <1>1 DEF Registration, InitManifest, ReuseRecord, RegisterRecord, RegisterIndex, Load,
              AcquireEnvironment, AcquireEnvironmentLock
<1>2. CASE AcquireGlobal(q)
  BY <1>2 DEF AcquireGlobal, AcquireGlobalLock
<1>3. CASE Activation(q)
  BY <1>3
     DEF Activation, BuildPlan, SkipProject, AcquireProject, AcquireProjectLock,
         EnforceProjectConcurrency, PrepareResources, UseContainer, Create, SkipStart, Start,
         Save, ReleaseShared, ReleaseSharedLocks
<1>4. CASE Removal(q)
  BY <1>4
     DEF Removal, SessionStop, StopNothing, Stop, List, StopEach, StoppedAll, Teardown, Remove,
         ClearRecord, DeleteRead, DeleteContainer, DeleteNetwork, DeleteManifest, PurgeHome,
         Forget
<1>5. CASE RawRun(q) \/ User(q)
  BY <1>5 DEF RawRun, User, Invoke, EndSession, EndRawRun
<1>6. CASE Refuse(q) \/ Return(q) \/ Fail(q)
  BY <1>6 DEF Refuse, Return, Fail, Leave, ReleaseAllLocks
<1> QED
  BY <1>1, <1>2, <1>3, <1>4, <1>5, <1>6 DEF Step

LEMMA CommandOwn ==
  ASSUME IInv, NEW p \in Procs, CommandAsked(p), Step(p) \/ User(p) \/ Fail(p)
  PROVE  CommandAsked(p)'
<1> USE DEF Goto, Cmd, lockVars, localVars
<1>1. /\ pc \in [Procs -> Labels] /\ job \in [Procs -> Job]
      /\ pc[p] \in GlobalLabels => globalLock = p
  BY DEF IInv, TypeOK, LockDiscipline
<1>2. CASE Registration(p) \/ Load(p)
  <2>1. job'[p] = job[p] /\ pc[p] \in {"init", "record", "index", "load"}
    BY <1>1, <1>2 DEF Registration, InitManifest, ReuseRecord, RegisterRecord, RegisterIndex, Load
  <2>2. \/ pc'[p] \in {"record", "index", "envLock"}
        \/ pc'[p] = "ok" /\ Cmd(p) = "init"
    <3>1. \/ AfterRegister(p) = "ok" /\ Cmd(p) = "init"
          \/ AfterRegister(p) = "envLock"
      BY DEF AfterRegister
    <3>2. CASE InitManifest(p) \/ RegisterRecord(p) \/ Load(p)
      BY <1>1, <3>2 DEF InitManifest, RegisterRecord, Load
    <3>3. CASE ReuseRecord(p) \/ RegisterIndex(p)
      <4>1. pc'[p] = AfterRegister(p)
        BY <1>1, <3>3 DEF ReuseRecord, RegisterIndex
      <4> QED
        BY <3>1, <4>1
    <3> QED
      BY <1>2, <3>2, <3>3 DEF Registration
  <2>3. pc[p] = "load" /\ Cmd(p) = "recreate" => pc'[p] = "envLock"
    BY <1>1, <1>2
       DEF Registration, InitManifest, ReuseRecord, RegisterRecord, RegisterIndex, Load, CanLoad,
           ActivateCommands
  <2> QED
    BY <2>1, <2>2, <2>3 DEF CommandAsked
<1>3. CASE AcquireGlobal(p)
  <2>1. job'[p] = job[p] /\ pc[p] = "lock"
    BY <1>1, <1>3 DEF AcquireGlobal
  <2>2. \/ pc'[p] = "init" /\ Cmd(p) = "init"
        \/ pc'[p] = "list" /\ Cmd(p) = "stopAll"
        \/ pc'[p] \in {"unlink", "envLock"} /\ Cmd(p) = "delete"
        \/ pc'[p] = "load" /\ Cmd(p) \notin {"init", "stopAll", "delete"}
    <3>1. CASE Cmd(p) = "init"
      BY <1>1, <1>3, <3>1 DEF AcquireGlobal
    <3>2. CASE Cmd(p) = "stopAll"
      BY <1>1, <1>3, <3>2 DEF AcquireGlobal
    <3>3. CASE Cmd(p) = "delete"
      BY <1>1, <1>3, <3>3 DEF AcquireGlobal
    <3>4. CASE Cmd(p) \notin {"init", "stopAll", "delete"}
      BY <1>1, <1>3, <3>4 DEF AcquireGlobal
    <3> QED
      BY <3>1, <3>2, <3>3, <3>4
  <2> QED
    BY <2>1, <2>2 DEF CommandAsked
<1>4. CASE AcquireEnvironment(p)
  <2>1. job'[p] = job[p] /\ pc[p] = "envLock"
    BY <1>1, <1>4 DEF AcquireEnvironment
  <2>2. \/ pc'[p] = "stop" /\ Cmd(p) = "stop"
        \/ pc'[p] = "deleteContainer" /\ Cmd(p) = "delete"
        \/ pc'[p] = "plan"
    BY <1>1, <1>4, Zenon DEF AcquireEnvironment
  <2> QED
    BY <2>1, <2>2 DEF CommandAsked
<1>5. CASE Activation(p)
  <2>1. CASE BuildPlan(p)
    <3>1. job'[p] = job[p] /\ pc[p] \in {"plan", "replan"}
      BY <1>1, <2>1 DEF BuildPlan
    <3>2. \/ pc'[p] = "project" /\ Cmd(p) # "recreate"
          \/ pc'[p] = "teardown" /\ Cmd(p) = "recreate"
          \/ pc'[p] = "apply" /\ Cmd(p) = "recreate"
      BY <1>1, <2>1 DEF BuildPlan
    <3> QED
      BY <3>1, <3>2 DEF CommandAsked
  <2>2. CASE \/ SkipProject(p) \/ AcquireProject(p) \/ EnforceProjectConcurrency(p)
             \/ PrepareResources(p)
    BY <1>1, <2>2
       DEF CommandAsked, SkipProject, AcquireProject, EnforceProjectConcurrency,
           PrepareResources
  <2>3. CASE UseContainer(p) \/ Create(p) \/ SkipStart(p) \/ Start(p)
    BY <1>1, <2>3 DEF CommandAsked, UseContainer, Create, SkipStart, Start
  <2>4. CASE Save(p)
    BY <1>1, <2>4 DEF CommandAsked, Save, GlobalLabels, PlanningLabels, PlannedLabels
  <2>5. CASE ReleaseShared(p)
    BY <1>1, <2>5 DEF CommandAsked, ReleaseShared
  <2> QED
    BY <1>5, <2>1, <2>2, <2>3, <2>4, <2>5 DEF Activation
<1>6. CASE Removal(p)
  <2>1. CASE List(p) \/ StopEach(p) \/ StoppedAll(p) \/ DeleteRead(p)
    <3>1. job'[p] = job[p] /\ (pc[p] \in {"list", "stopEach"} => globalLock' = p)
      BY <1>1, <2>1 DEF GlobalLabels, List, StopEach, StoppedAll, DeleteRead
    <3>2. \/ pc[p] \in {"list", "stopEach"} /\ pc'[p] \in {"stopEach", "ok"}
          \/ pc[p] = "read" /\ pc'[p] = "lock" /\ Cmd(p) = "delete"
      BY <1>1, <2>1 DEF CommandAsked, List, StopEach, StoppedAll, DeleteRead
    <3> QED
      BY <3>1, <3>2 DEF CommandAsked
  <2>2. CASE SessionStop(p)
    BY <1>1, <2>2 DEF CommandAsked, SessionStop
  <2>3. CASE StopNothing(p)
    BY <1>1, <2>3 DEF CommandAsked, StopNothing
  <2>4. CASE Stop(p)
    BY <1>1, <2>4 DEF CommandAsked, Stop
  <2>5. CASE Teardown(p)
    BY <1>1, <2>5 DEF CommandAsked, Teardown
  <2>6. CASE DeleteContainer(p)
    BY <1>1, <2>6 DEF CommandAsked, DeleteContainer
  <2>7. CASE Remove(p)
    BY <1>1, <2>7 DEF CommandAsked, Remove, AfterRemove
  <2>8. CASE ClearRecord(p) \/ DeleteNetwork(p) \/ DeleteManifest(p) \/ PurgeHome(p) \/ Forget(p)
    BY <1>1, <2>8
       DEF CommandAsked, ClearRecord, DeleteNetwork, DeleteManifest, PurgeHome, Forget
  <2> QED
    BY <1>6, <2>1, <2>2, <2>3, <2>4, <2>5, <2>6, <2>7, <2>8 DEF Removal
<1>7. CASE RawRun(p) \/ EndSession(p) \/ EndRawRun(p)
  BY <1>1, <1>7 DEF CommandAsked, RawRun, EndSession, EndRawRun
<1>8. CASE Invoke(p)
  BY <1>1, <1>8, LifecycleAssumption
     DEF CommandAsked, Invoke, AllCommands, PlanCommands, ActivateCommands
<1>9. CASE Refuse(p) \/ Return(p) \/ Fail(p)
  BY <1>1, <1>9 DEF CommandAsked, Refuse, Return, Fail, Leave
<1> QED
  BY <1>2, <1>3, <1>4, <1>5, <1>6, <1>7, <1>8, <1>9 DEF Step, User

LEMMA CommandStep ==
  ASSUME IInv, CommandInv, [Next]_vars
  PROVE  CommandInv'
<1> SUFFICES ASSUME NEW p \in Procs PROVE CommandAsked(p)'
  BY DEF CommandInv
<1>1. CASE Step(p) \/ User(p) \/ Fail(p)
  BY <1>1, CommandOwn DEF CommandInv
<1>2. ASSUME pc'[p] = pc[p], job'[p] = job[p], globalLock = p => globalLock' = p
      PROVE  CommandAsked(p)'
  BY <1>2 DEF CommandInv, CommandAsked, Cmd
<1>3. ASSUME NEW q \in Procs \ {p}, Step(q) \/ User(q) \/ Fail(q)
      PROVE  CommandAsked(p)'
  <2>1. pc'[p] = pc[p] /\ job'[p] = job[p]
    BY <1>3, OthersLeaveLocals
  <2>2. globalLock = p => globalLock' = p
    BY <1>3, GlobalLockKept
  <2> QED
    BY <1>2, <2>1, <2>2
<1>4. CASE Environment
  BY <1>2, <1>4 DEF Environment, ContainerExits, EditManifest, localVars, lockVars
<1>5. CASE UNCHANGED vars
  BY <1>2, <1>5 DEF vars, localVars, lockVars
<1> QED
  BY <1>1, <1>3, <1>4, <1>5 DEF Next

THEOREM CommandInvariant == Spec => []CommandInv
<1>1. Init => CommandInv
  BY DEF Init, CommandInv, CommandAsked
<1>2. IInv /\ CommandInv /\ [Next]_vars => CommandInv'
  BY CommandStep
<1> QED
  BY <1>1, <1>2, InductiveInvariant, PTL DEF Spec

-----------------------------------------------------------------------------
LEMMA StopLeaves ==
  ASSUME PodmanTypeOK, NEW k \in Ids, StopContainer(k),
         NEW i \in Ids, Running(i)', ~IsRawRun(i)'
  PROVE  Running(i) /\ ~IsRawRun(i) /\ i # k
<1> USE DEF PodmanTypeOK, Container, StopContainer, Running, IsRawRun
<1>1. CASE i # k
  BY <1>1
<1>2. CASE i = k /\ IsRawRun(k)
  BY <1>2 DEF NoContainer
<1>3. CASE i = k /\ ~IsRawRun(k)
  <2>1. containers'[k] = [containers[k] EXCEPT !.status = "stopped"]
    BY <1>3
  <2> QED
    BY <1>3, <2>1
<1> QED
  BY <1>1, <1>2, <1>3

(* While p holds the global lock only raw runs start.                      *)
LEMMA OthersStartNothing ==
  ASSUME IInv, NEW p \in Procs, globalLock = p, NEW q \in Procs \ {p},
         Step(q) \/ User(q) \/ Fail(q),
         NEW i \in Ids, Running(i)', ~IsRawRun(i)'
  PROVE  Running(i) /\ ~IsRawRun(i)
<1> USE DEF storeVars, podmanVars
<1>1. /\ PodmanTypeOK /\ containers \in [Ids -> Container]
      /\ pc[q] \notin GlobalLabels
  BY DEF IInv, TypeOK, PodmanTypeOK, LockDiscipline
<1>2. ASSUME containers'[i] = containers[i]
      PROVE  Running(i) /\ ~IsRawRun(i)
  BY <1>2 DEF Running, IsRawRun
<1>3. CASE Registration(q) \/ AcquireGlobal(q) \/ Load(q) \/ AcquireEnvironment(q)
  BY <1>2, <1>3 DEF Registration, InitManifest, ReuseRecord, RegisterRecord, RegisterIndex,
                    AcquireGlobal, Load, AcquireEnvironment
<1>4. ~Activation(q)
  BY <1>1 DEF GlobalLabels, PlanningLabels, PlannedLabels, Activation, BuildPlan, SkipProject,
              AcquireProject, EnforceProjectConcurrency, PrepareResources, UseContainer,
              Create, SkipStart, Start, Save, ReleaseShared
<1>5. CASE Removal(q)
  <2>1. CASE SessionStop(q)
    <3>1. Exists(plan[q].id) /\ StopContainer(plan[q].id) /\ plan[q].id \in Ids
      BY <2>1 DEF SessionStop, IInv, JobInv
    <3> QED
      BY <1>1, <3>1, StopLeaves
  <2>2. CASE Remove(q)
    <3>1. RemoveContainer(Target(q))
      BY <2>2 DEF Remove
    <3> QED
      BY <1>1, <3>1 DEF RemoveContainer, NoContainer, Running, IsRawRun
  <2>3. CASE ~SessionStop(q) /\ ~Remove(q)
    <3>1. containers' = containers
      BY <1>1, <1>5, <2>3
         DEF GlobalLabels, PlanningLabels, Removal, StopNothing, Stop, List, StopEach,
             StoppedAll, Teardown, ClearRecord, DeleteRead, DeleteContainer, DeleteNetwork,
             DeleteManifest, PurgeHome, Forget
    <3> QED
      BY <1>2, <3>1
  <2> QED
    BY <2>1, <2>2, <2>3
<1>6. CASE RawRun(q)
  <2>1. PICK k \in Ids :
          containers' = [containers EXCEPT ![k] = [status |-> "running", spec |-> RawSpec]]
    BY <1>6 DEF RawRun, FreshIds
  <2>2. k # i
    BY <1>1, <2>1 DEF IsRawRun
  <2> QED
    BY <1>1, <1>2, <2>1, <2>2
<1>7. CASE User(q)
  <2>1. CASE Invoke(q) \/ EndSession(q)
    BY <1>2, <2>1 DEF Invoke, EndSession
  <2>2. CASE EndRawRun(q)
    BY <1>2, <2>2 DEF EndRawRun, NoContainer, Running
  <2> QED
    BY <1>7, <2>1, <2>2 DEF User
<1>8. CASE Refuse(q) \/ Return(q) \/ Fail(q)
  BY <1>2, <1>8 DEF Refuse, Return, Fail, Leave
<1> QED
  BY <1>3, <1>4, <1>5, <1>6, <1>7, <1>8 DEF Step

(* Where a step may bring `stop --all`.                                    *)
LEMMA StopAllOwn ==
  ASSUME IInv, NEW p \in Procs, CommandAsked(p), StopAllAsListed(p),
         Step(p) \/ User(p) \/ Fail(p)
  PROVE  StopAllAsListed(p)'
<1> USE DEF Goto, storeVars, podmanVars, localVars
<1>1. /\ pc \in [Procs -> Labels] /\ job \in [Procs -> Job] /\ todo \in [Procs -> SUBSET Ids]
      /\ PodmanTypeOK /\ containers \in [Ids -> Container]
  BY DEF IInv, TypeOK, PodmanTypeOK
<1>2. CASE List(p)
  <2>1. pc'[p] = "stopEach" /\ todo'[p] = RunningIds /\ containers' = containers
    BY <1>1, <1>2 DEF List
  <2> QED
    BY <2>1 DEF StopAllAsListed, RunningIds, Running, IsRawRun
<1>3. CASE StopEach(p)
  <2>1. pc[p] = "stopEach" /\ pc'[p] = "stopEach"
    BY <1>3 DEF StopEach
  <2>2. PICK k \in todo[p] :
          /\ todo' = [todo EXCEPT ![p] = @ \ {k}]
          /\ IF Exists(k) THEN StopContainer(k) ELSE UNCHANGED containers
    BY <1>3 DEF StopEach
  <2>3. k \in Ids /\ todo'[p] = todo[p] \ {k}
    BY <1>1, <2>2
  <2>4. ASSUME NEW i \in Ids, Running(i)', ~IsRawRun(i)'
        PROVE  i \in todo'[p]
    <3>1. Running(i) /\ ~IsRawRun(i) /\ i # k
      <4>1. CASE Exists(k)
        BY <1>1, <2>2, <2>3, <2>4, <4>1, StopLeaves
      <4>2. CASE ~Exists(k)
        BY <2>2, <2>4, <4>2 DEF Running, Exists, IsRawRun
      <4> QED
        BY <4>1, <4>2
    <3> QED
      BY <2>1, <2>3, <3>1 DEF StopAllAsListed, RunningIds
  <2> QED
    BY <2>1, <2>4 DEF StopAllAsListed, RunningIds
<1>4. CASE StoppedAll(p)
  <2>1. pc[p] = "stopEach" /\ pc'[p] = "ok" /\ todo[p] = {} /\ containers' = containers
    BY <1>1, <1>4 DEF StoppedAll
  <2> QED
    BY <2>1 DEF StopAllAsListed, RunningIds, Running, IsRawRun
<1>5. ASSUME pc'[p] # "stopEach", pc'[p] = "ok" => Cmd(p)' # "stopAll"
      PROVE  StopAllAsListed(p)'
  BY <1>5 DEF StopAllAsListed
<1>6. CASE Invoke(p) \/ Refuse(p) \/ Return(p) \/ Fail(p)
  <2>1. pc'[p] \in {"idle", "read", "run", "lock"}
    BY <1>1, <1>6 DEF Invoke, Refuse, Return, Fail, Leave
  <2> QED
    BY <1>5, <2>1
<1>7. CASE EndSession(p) \/ EndRawRun(p) \/ RawRun(p)
  <2>1. /\ job' = job /\ pc'[p] # "stopEach"
        /\ pc[p] \in {"exec", "attached", "run"}
    BY <1>1, <1>7 DEF EndSession, EndRawRun, RawRun
  <2> QED
    BY <1>5, <2>1 DEF CommandAsked, Cmd
<1>8. CASE Registration(p) \/ AcquireGlobal(p) \/ Load(p) \/ AcquireEnvironment(p)
  <2>1. /\ job' = job /\ pc'[p] # "stopEach"
        /\ pc'[p] = "ok" => pc[p] \in {"record", "index"}
    BY <1>1, <1>8 DEF Registration, InitManifest, ReuseRecord, RegisterRecord, RegisterIndex,
                      AfterRegister, AcquireGlobal, Load, AcquireEnvironment
  <2> QED
    BY <1>5, <2>1 DEF CommandAsked, Cmd
<1>9. CASE Activation(p)
  <2>1. /\ job' = job /\ pc'[p] # "stopEach"
        /\ pc'[p] = "ok" => pc[p] \in {"save", "release"}
    BY <1>1, <1>9
       DEF Activation, BuildPlan, SkipProject, AcquireProject, EnforceProjectConcurrency,
           PrepareResources, UseContainer, Create, SkipStart, Start, Save, ReleaseShared
  <2> QED
    BY <1>5, <2>1 DEF CommandAsked, Cmd
<1>10. CASE Removal(p) /\ ~List(p) /\ ~StopEach(p) /\ ~StoppedAll(p)
  <2>1. /\ job' = job /\ pc'[p] # "stopEach"
        /\ pc'[p] = "ok" => pc[p] \in {"sessionStop", "sessionSave", "stop", "stopSave",
                                       "unlink", "forget"}
    <3>1. CASE SessionStop(p) \/ StopNothing(p) \/ Stop(p) \/ Teardown(p) \/ DeleteContainer(p)
      BY <1>1, <3>1 DEF SessionStop, StopNothing, Stop, Teardown, DeleteContainer
    <3>2. CASE Remove(p)
      BY <1>1, <3>2 DEF Remove, AfterRemove
    <3>3. CASE ClearRecord(p) \/ DeleteRead(p) \/ DeleteNetwork(p) \/ DeleteManifest(p)
      BY <1>1, <3>3 DEF ClearRecord, DeleteRead, DeleteNetwork, DeleteManifest
    <3>4. CASE PurgeHome(p) \/ Forget(p)
      BY <1>1, <3>4 DEF PurgeHome, Forget
    <3> QED
      BY <1>10, <3>1, <3>2, <3>3, <3>4 DEF Removal
  <2> QED
    BY <1>5, <2>1 DEF CommandAsked, Cmd
<1> QED
  BY <1>2, <1>3, <1>4, <1>6, <1>7, <1>8, <1>9, <1>10 DEF Step, User

LEMMA StopAllStep ==
  ASSUME IInv, CommandInv, NEW p \in Procs, StopAllAsListed(p), [Next]_vars
  PROVE  StopAllAsListed(p)'
<1>1. CASE Step(p) \/ User(p) \/ Fail(p)
  BY <1>1, StopAllOwn DEF CommandInv
<1>2. ASSUME pc'[p] = pc[p], job'[p] = job[p], todo'[p] = todo[p],
             globalLock = p =>
               \A i \in Ids : Running(i)' /\ ~IsRawRun(i)' => Running(i) /\ ~IsRawRun(i)
      PROVE  StopAllAsListed(p)'
  <2>1. pc[p] = "stopEach" \/ (pc[p] = "ok" /\ Cmd(p) = "stopAll") => globalLock = p
    BY DEF CommandInv, CommandAsked, IInv, LockDiscipline, GlobalLabels
  <2> QED
    BY <1>2, <2>1 DEF StopAllAsListed, RunningIds, Cmd
<1>3. ASSUME NEW q \in Procs \ {p}, Step(q) \/ User(q) \/ Fail(q)
      PROVE  StopAllAsListed(p)'
  <2>1. pc'[p] = pc[p] /\ job'[p] = job[p] /\ todo'[p] = todo[p]
    BY <1>3, OthersLeaveLocals
  <2>2. ASSUME globalLock = p, NEW i \in Ids, Running(i)', ~IsRawRun(i)'
        PROVE  Running(i) /\ ~IsRawRun(i)
    BY <1>3, <2>2, OthersStartNothing
  <2> QED
    BY <1>2, <2>1, <2>2
<1>4. CASE Environment
  <2>1. ASSUME NEW k \in Ids, ContainerExits(k)
        PROVE  StopAllAsListed(p)'
    <3>1. Running(k) /\ Exists(k) /\ StopContainer(k) /\ PodmanTypeOK
      BY <2>1 DEF ContainerExits, Running, Exists, IInv, TypeOK
    <3>2. \A i \in Ids : Running(i)' /\ ~IsRawRun(i)' => Running(i) /\ ~IsRawRun(i)
      BY <3>1, StopLeaves
    <3> QED
      BY <1>2, <2>1, <3>2 DEF ContainerExits, localVars
  <2>2. ASSUME NEW n \in Names, EditManifest(n)
        PROVE  StopAllAsListed(p)'
    BY <1>2, <2>2 DEF EditManifest, localVars, podmanVars, Running, IsRawRun
  <2> QED
    BY <1>4, <2>1, <2>2 DEF Environment
<1>5. CASE UNCHANGED vars
  BY <1>2, <1>5 DEF vars, podmanVars, localVars, Running, IsRawRun
<1> QED
  BY <1>1, <1>3, <1>4, <1>5 DEF Next

StopAllInv == \A p \in Procs : StopAllAsListed(p)

(* `stop --all` that reports success leaves no environment running.        *)
THEOREM StopAllStops == Spec => []StopAllLeavesOnlyRawRuns
<1>1. Init => StopAllInv
  BY DEF Init, StopAllInv, StopAllAsListed
<1>2. IInv /\ CommandInv /\ StopAllInv /\ [Next]_vars => StopAllInv'
  BY StopAllStep DEF StopAllInv
<1>3. StopAllInv => StopAllLeavesOnlyRawRuns
  BY DEF StopAllInv, StopAllAsListed, StopAllLeavesOnlyRawRuns
<1> QED
  BY <1>1, <1>2, <1>3, InductiveInvariant, CommandInvariant, PTL DEF Spec

-----------------------------------------------------------------------------
(* The environment a recreate works on: its UUID and its lock.             *)
LEMMA RecreateLocked ==
  ASSUME IInv, NEW p \in Procs
  PROVE  /\ pc[p] \in PlanningLabels =>
              /\ stored[p].id \in Ids /\ envLock[stored[p].id] = p
              /\ records[stored[p].id].id # NoId /\ index[Env(p)] = stored[p].id
         /\ pc[p] \in PlannedLabels \cup {"teardown", "teardownRemove"} =>
              plan[p].id \in Ids /\ plan[p].id = stored[p].id
<1>1. pc[p] \in PlanningLabels =>
        stored[p].id \in Ids /\ envLock[stored[p].id] = p /\ index[Env(p)] = stored[p].id
  BY DEF IInv, LockDiscipline, RegistryInv, EnvironmentLabels
<1>2. stored[p].id \in Ids => records[stored[p].id].id = stored[p].id
  BY StoreAssumption DEF IInv, RegistryInv, Loadable
<1>3. pc[p] \in PlannedLabels \cup {"teardown", "teardownRemove"} => plan[p].id \in Ids
  BY DEF IInv, JobInv
<1>4. plan[p].id \in Ids => plan[p].id = stored[p].id
  BY StoreAssumption DEF IInv, LockDiscipline
<1> QED
  BY <1>1, <1>2, <1>3, <1>4, StoreAssumption

LEMMA RecreateOwn ==
  ASSUME IInv, NEW p \in Procs, CommandAsked(p), CommandAsked(p)', RecreateAsPlanned(p),
         Step(p) \/ User(p) \/ Fail(p)
  PROVE  RecreateAsPlanned(p)'
<1> USE DEF Goto, storeVars, podmanVars, localVars, boundVars
<1> DEFINE here == {"teardown", "teardownSave", "replan"}
           work == {"apply", "create", "start", "save", "ok"}
<1>1. /\ pc \in [Procs -> Labels] /\ job \in [Procs -> Job]
      /\ plan \in [Procs -> Plan] /\ stored \in [Procs -> Record]
      /\ PodmanTypeOK /\ containers \in [Ids -> Container]
  BY DEF IInv, TypeOK, PodmanTypeOK
<1>2. ASSUME pc'[p] \notin here, pc'[p] \in work => Cmd(p)' # "recreate"
      PROVE  RecreateAsPlanned(p)'
  BY <1>2 DEF RecreateAsPlanned
<1>3. CASE BuildPlan(p)
  <2>1. /\ plan'[p].id = stored[p].id /\ containers' = containers
        /\ plan'[p].exists = Exists(stored[p].id) /\ plan'[p].running = Running(stored[p].id)
    BY <1>1, <1>3, RecreateLocked DEF BuildPlan, PlanningLabels
  <2>2. \/ pc'[p] = "project"
        \/ pc'[p] = "teardown"
        \/ pc'[p] = "apply" /\ pc[p] = "replan"
    BY <1>1, <1>3 DEF BuildPlan
  <2>3. pc'[p] = "apply" => ~Exists(stored[p].id) /\ ~Running(stored[p].id)
    BY <2>2 DEF RecreateAsPlanned, Exists, Running
  <2> QED
    BY <2>1, <2>2, <2>3 DEF RecreateAsPlanned, Exists, Running
<1>4. CASE Teardown(p)
  <2>1. pc[p] = "teardown" /\ plan[p].exists = Exists(plan[p].id) /\ stored'[p] = stored[p]
        /\ plan[p].id = stored[p].id
    BY <1>1, <1>4, RecreateLocked DEF Teardown, RecreateAsPlanned
  <2>2. CASE Exists(plan[p].id)
    BY <1>1, <1>2, <1>4, <2>1, <2>2 DEF Teardown
  <2>3. CASE ~Exists(plan[p].id)
    <3>1. pc'[p] = "teardownSave" /\ containers' = containers
      BY <1>1, <1>4, <2>1, <2>3 DEF Teardown
    <3> QED
      BY <2>1, <2>3, <3>1 DEF RecreateAsPlanned, Exists
  <2> QED
    BY <2>2, <2>3
<1>5. CASE Remove(p)
  <2>1. /\ pc'[p] \in {"sessionSave", "stopSave", "teardownSave", "deleteNetwork"}
        /\ pc'[p] = "teardownSave" => pc[p] = "teardownRemove"
        /\ stored' = stored
    BY <1>1, <1>5 DEF Remove, AfterRemove
  <2>2. ASSUME pc[p] = "teardownRemove"
        PROVE  ~Exists(stored[p].id)'
    <3>1. plan[p].id = stored[p].id /\ stored[p].id \in Ids
      BY <2>2, RecreateLocked DEF PlanningLabels
    <3> QED
      BY <1>1, <1>5, <2>1, <2>2, <3>1 DEF Remove, RemoveContainer, Target, NoContainer, Exists
  <2> QED
    BY <2>1, <2>2 DEF RecreateAsPlanned
<1>6. CASE ClearRecord(p)
  <2>1. /\ pc'[p] \in {"replan", "ok"} /\ (pc'[p] = "replan" => pc[p] = "teardownSave")
        /\ pc'[p] = "ok" => pc[p] \in {"sessionSave", "stopSave"}
        /\ job' = job /\ containers' = containers
    BY <1>1, <1>6 DEF ClearRecord
  <2>2. stored'[p].id = stored[p].id
    BY <1>1, <1>6 DEF ClearRecord, Cleared, Record
  <2> QED
    BY <2>1, <2>2 DEF RecreateAsPlanned, CommandAsked, Cmd, Exists
<1>7. CASE PrepareResources(p)
  BY <1>1, <1>7 DEF PrepareResources, RecreateAsPlanned, Cmd, Exists, Running
<1>8. CASE UseContainer(p)
  <2>1. pc[p] = "create" /\ plan[p].exists /\ pc'[p] = "start" /\ job' = job
    BY <1>1, <1>8 DEF UseContainer
  <2> QED
    BY <2>1 DEF RecreateAsPlanned, Cmd
<1>9. CASE Create(p)
  <2>1. pc[p] = "create" /\ pc'[p] = "start" /\ job' = job /\ plan' = plan
    BY <1>1, <1>9 DEF Create
  <2>2. containers'[plan[p].id].status = "stopped"
    BY <1>1, <1>9, <2>1, RecreateLocked DEF Create, CreateContainer, PlannedLabels
  <2> QED
    BY <2>1, <2>2 DEF RecreateAsPlanned, Cmd, Exists, Running
<1>10. CASE SkipStart(p) \/ Start(p)
  <2>1. pc[p] = "start" /\ pc'[p] = "save" /\ job' = job /\ plan' = plan /\ faults' = faults
    BY <1>1, <1>10 DEF SkipStart, Start
  <2>2. plan[p].id \in Ids
    BY <2>1, RecreateLocked DEF PlannedLabels
  <2>3. ASSUME Cmd(p) = "recreate"
        PROVE  /\ Exists(plan[p].id)' /\ containers'[plan[p].id].spec = plan[p].spec
               /\ Running(plan[p].id)' <=> plan[p].restart
    <3>1. /\ ~plan[p].running /\ Exists(plan[p].id) /\ ~Running(plan[p].id)
          /\ containers[plan[p].id].spec = plan[p].spec
      BY <2>1, <2>3 DEF RecreateAsPlanned, IInv, PlanInv, SpecAsPlanned
    <3>2. WantsStart(p) <=> plan[p].restart
      BY <2>3, <3>1 DEF WantsStart
    <3>3. CASE SkipStart(p)
      <4>1. containers' = containers /\ ~plan[p].restart
        BY <3>2, <3>3 DEF SkipStart
      <4> QED
        BY <2>1, <3>1, <4>1 DEF Exists, Running
    <3>4. CASE Start(p)
      <4>1. plan[p].restart /\ StartContainer(plan[p].id)
        BY <3>2, <3>4 DEF Start
      <4>2. containers'[plan[p].id] = [containers[plan[p].id] EXCEPT !.status = "running"]
        BY <1>1, <2>2, <4>1 DEF StartContainer
      <4>3. /\ containers'[plan[p].id].status = "running"
            /\ containers'[plan[p].id].spec = containers[plan[p].id].spec
        BY <1>1, <2>2, <4>2 DEF Container
      <4> QED
        BY <2>1, <3>1, <4>1, <4>3 DEF Exists, Running
    <3> QED
      BY <1>10, <3>3, <3>4
  <2> QED
    BY <2>1, <2>2, <2>3 DEF RecreateAsPlanned, Cmd
<1>11. CASE Save(p)
  <2>1. /\ pc[p] = "save" /\ pc'[p] \in {"ok", "release"}
        /\ job' = job /\ plan' = plan /\ containers' = containers /\ faults' = faults
    BY <1>1, <1>11 DEF Save
  <2> QED
    BY <2>1 DEF RecreateAsPlanned, Cmd, Exists, Running
<1>12. CASE \/ SkipProject(p) \/ AcquireProject(p) \/ EnforceProjectConcurrency(p)
            \/ ReleaseShared(p)
  <2>1. /\ pc[p] \in {"project", "enforce", "release"} /\ job' = job
        /\ pc'[p] \notin here
    BY <1>1, <1>12 DEF SkipProject, AcquireProject, EnforceProjectConcurrency, ReleaseShared
  <2> QED
    BY <1>2, <2>1 DEF CommandAsked, Cmd
<1>13. CASE Registration(p)
  <2>1. pc[p] \in {"init", "record", "index"} /\ job' = job /\ pc'[p] \notin here
    BY <1>1, <1>13
       DEF Registration, InitManifest, ReuseRecord, RegisterRecord, RegisterIndex, AfterRegister
  <2> QED
    BY <1>2, <2>1 DEF CommandAsked, Cmd
<1>14. CASE \/ AcquireGlobal(p) \/ Load(p) \/ AcquireEnvironment(p) \/ RawRun(p)
            \/ Invoke(p) \/ Refuse(p) \/ Return(p) \/ Fail(p)
  <2>1. CASE AcquireGlobal(p) \/ Load(p) \/ AcquireEnvironment(p) \/ RawRun(p)
    <3>1. pc'[p] \notin here \cup work
      BY <1>1, <2>1 DEF AcquireGlobal, Load, AcquireEnvironment, RawRun
    <3> QED
      BY <1>2, <3>1
  <2>2. CASE Invoke(p) \/ Refuse(p) \/ Return(p) \/ Fail(p)
    <3>1. pc'[p] \in {"idle", "read", "run", "lock"}
      BY <1>1, <2>2 DEF Invoke, Refuse, Return, Fail, Leave
    <3> QED
      BY <1>2, <3>1
  <2> QED
    BY <1>14, <2>1, <2>2
<1>15. CASE EndSession(p) \/ EndRawRun(p)
  <2>1. pc[p] \in {"exec", "attached"} /\ job' = job /\ pc'[p] \notin here
    BY <1>1, <1>15 DEF EndSession, EndRawRun
  <2> QED
    BY <1>2, <2>1 DEF CommandAsked, Cmd
<1>16. CASE \/ SessionStop(p) \/ StopNothing(p) \/ Stop(p) \/ DeleteRead(p)
            \/ DeleteContainer(p) \/ DeleteNetwork(p) \/ DeleteManifest(p) \/ PurgeHome(p)
            \/ Forget(p)
  <2>1. /\ pc[p] \in {"sessionStop", "stop", "read", "deleteContainer", "deleteNetwork",
                      "unlink", "purge", "forget"}
        /\ job' = job /\ pc'[p] \notin here
    <3>1. CASE SessionStop(p) \/ StopNothing(p) \/ Stop(p) \/ DeleteContainer(p)
      BY <1>1, <3>1 DEF SessionStop, StopNothing, Stop, DeleteContainer
    <3>2. CASE \/ DeleteRead(p) \/ DeleteNetwork(p) \/ DeleteManifest(p) \/ PurgeHome(p)
               \/ Forget(p)
      BY <1>1, <3>2 DEF DeleteRead, DeleteNetwork, DeleteManifest, PurgeHome, Forget
    <3> QED
      BY <1>16, <3>1, <3>2
  <2> QED
    BY <1>2, <2>1 DEF CommandAsked, Cmd
<1>17. CASE List(p) \/ StopEach(p) \/ StoppedAll(p)
  <2>1. pc[p] \in {"list", "stopEach"} /\ job' = job /\ pc'[p] \in {"stopEach", "ok"}
    BY <1>1, <1>17 DEF List, StopEach, StoppedAll
  <2> QED
    BY <1>2, <2>1 DEF CommandAsked, Cmd
<1> QED
  BY <1>3, <1>4, <1>5, <1>6, <1>7, <1>8, <1>9, <1>10, <1>11, <1>12, <1>13, <1>14, <1>15,
     <1>16, <1>17
     DEF Step, User, Activation, Removal

(* What others leave of an environment while p has it and the global lock. *)
RecreateSpared(p, i) ==
  /\ Exists(i)' = Exists(i)
  /\ Exists(i) => containers'[i].spec = containers[i].spec
  /\ Running(i)' => Running(i)
  /\ faults' = 0 => faults = 0 /\ (Running(i) => Running(i)')

LEMMA RecreateFrame ==
  ASSUME IInv, CommandInv, NEW p \in Procs, RecreateAsPlanned(p),
         pc'[p] = pc[p], plan'[p] = plan[p], job'[p] = job[p], stored'[p] = stored[p],
         \A i \in Ids : globalLock = p /\ envLock[i] = p /\ records[i].id # NoId
                          => RecreateSpared(p, i)
  PROVE  RecreateAsPlanned(p)'
<1>1. CASE pc[p] \in {"teardown", "teardownSave", "replan"}
  <2>1. globalLock = p
    BY <1>1 DEF IInv, LockDiscipline, GlobalLabels, PlanningLabels
  <2>2. RecreateSpared(p, stored[p].id)
    BY <1>1, <2>1, RecreateLocked DEF PlanningLabels
  <2>3. pc[p] = "teardown" => plan[p].id = stored[p].id
    BY RecreateLocked
  <2> QED
    BY <1>1, <2>2, <2>3 DEF RecreateAsPlanned, RecreateSpared, Cmd, Exists
<1>2. CASE pc[p] \in {"apply", "create", "start", "save"} /\ Cmd(p) = "recreate"
  <2>1. globalLock = p
    BY <1>2 DEF IInv, LockDiscipline, GlobalLabels, PlanningLabels, PlannedLabels
  <2>2. RecreateSpared(p, plan[p].id)
    BY <1>2, <2>1, RecreateLocked DEF PlanningLabels, PlannedLabels
  <2> QED
    BY <1>2, <2>2 DEF RecreateAsPlanned, RecreateSpared, Cmd, Exists, Running
<1>3. CASE pc[p] = "ok" /\ Cmd(p) = "recreate"
  <2>1. globalLock = p /\ plan[p].id \in Ids
    BY <1>3 DEF CommandInv, CommandAsked, RecreateAsPlanned
  <2>2. RecreateSpared(p, plan[p].id)
    BY <2>1, PlannedIsLocked
  <2> QED
    BY <1>3, <2>1, <2>2 DEF RecreateAsPlanned, RecreateSpared, Cmd, Exists, Running
<1>4. CASE /\ pc[p] \notin {"teardown", "teardownSave", "replan"}
           /\ ~(pc[p] \in {"apply", "create", "start", "save", "ok"} /\ Cmd(p) = "recreate")
  BY <1>4 DEF RecreateAsPlanned, Cmd
<1> QED
  BY <1>1, <1>2, <1>3, <1>4

(* Nothing undoes a failure.                                               *)
LEMMA FaultsStay ==
  ASSUME IInv, [Next]_vars
  PROVE  /\ faults' = faults \/ faults' = faults + 1
         /\ faults' = 0 => faults = 0
<1> USE DEF boundVars
<1>1. faults \in Nat
  BY LifecycleAssumption DEF IInv, TypeOK
<1>2. faults' = faults \/ faults' = faults + 1
  <2>1. ASSUME NEW q \in Procs, Step(q)
        PROVE  faults' = faults
    <3>1. CASE Registration(q) \/ AcquireGlobal(q) \/ Load(q) \/ AcquireEnvironment(q)
      BY <3>1 DEF Registration, InitManifest, ReuseRecord, RegisterRecord, RegisterIndex,
                  AcquireGlobal, Load, AcquireEnvironment
    <3>2. CASE Activation(q)
      BY <3>2
         DEF Activation, BuildPlan, SkipProject, AcquireProject, EnforceProjectConcurrency,
             PrepareResources, UseContainer, Create, SkipStart, Start, Save, ReleaseShared
    <3>3. CASE Removal(q)
      BY <3>3
         DEF Removal, SessionStop, StopNothing, Stop, List, StopEach, StoppedAll, Teardown,
             Remove, ClearRecord, DeleteRead, DeleteContainer, DeleteNetwork, DeleteManifest,
             PurgeHome, Forget
    <3>4. CASE RawRun(q) \/ Refuse(q) \/ Return(q)
      BY <3>4 DEF RawRun, Refuse, Return
    <3> QED
      BY <2>1, <3>1, <3>2, <3>3, <3>4 DEF Step
  <2>2. ASSUME NEW q \in Procs, User(q)
        PROVE  faults' = faults
    BY <2>2 DEF User, Invoke, EndSession, EndRawRun
  <2>3. ASSUME NEW q \in Procs, Fail(q)
        PROVE  faults' = faults + 1
    BY <2>3 DEF Fail
  <2>4. CASE Environment
    BY <2>4 DEF Environment, ContainerExits, EditManifest
  <2>5. CASE UNCHANGED vars
    BY <2>5 DEF vars
  <2> QED
    BY <2>1, <2>2, <2>3, <2>4, <2>5 DEF Next
<1> QED
  BY <1>1, <1>2

LEMMA RecreateStep ==
  ASSUME IInv, CommandInv, NEW p \in Procs, RecreateAsPlanned(p), [Next]_vars
  PROVE  RecreateAsPlanned(p)'
<1>1. CASE Step(p) \/ User(p) \/ Fail(p)
  <2>1. CommandAsked(p) /\ CommandAsked(p)'
    BY CommandStep DEF CommandInv
  <2> QED
    BY <1>1, <2>1, RecreateOwn
<1>2. faults' = 0 => faults = 0
  BY FaultsStay
<1>3. ASSUME NEW q \in Procs \ {p}, Step(q) \/ User(q) \/ Fail(q)
      PROVE  RecreateAsPlanned(p)'
  <2>1. /\ pc'[p] = pc[p] /\ plan'[p] = plan[p]
        /\ job'[p] = job[p] /\ stored'[p] = stored[p]
    BY <1>3, OthersLeaveLocals
  <2>2. ASSUME NEW i \in Ids, globalLock = p, envLock[i] = p, records[i].id # NoId
        PROVE  RecreateSpared(p, i)
    <3>1. Spared(p, i) /\ (Running(i) /\ ~Running(i)' => pc[q] = "stopEach")
      BY <1>3, <2>2, OthersSpare
    <3>2. pc[q] # "stopEach"
      BY <2>2 DEF IInv, LockDiscipline, GlobalLabels
    <3> QED
      BY <1>2, <3>1, <3>2 DEF Spared, RecreateSpared, Exists
  <2> QED
    BY <2>1, <2>2, RecreateFrame
<1>4. CASE Environment
  <2>1. /\ pc'[p] = pc[p] /\ plan'[p] = plan[p]
        /\ job'[p] = job[p] /\ stored'[p] = stored[p]
    BY <1>4 DEF Environment, ContainerExits, EditManifest, localVars
  <2>2. ASSUME NEW i \in Ids, records[i].id # NoId
        PROVE  RecreateSpared(p, i)
    <3>1. Spared(p, i) /\ (Running(i) /\ ~Running(i)' => faults' # faults)
      BY <1>4, <2>2, EnvironmentSpares
    <3> QED
      BY <1>2, <3>1 DEF Spared, RecreateSpared, Exists
  <2> QED
    BY <2>1, <2>2, RecreateFrame
<1>5. CASE UNCHANGED vars
  <2>1. ASSUME NEW i \in Ids
        PROVE  RecreateSpared(p, i)
    BY <1>5 DEF vars, podmanVars, boundVars, RecreateSpared, Exists, Running
  <2> QED
    BY <1>5, <2>1, RecreateFrame DEF vars, localVars
<1> QED
  BY <1>1, <1>3, <1>4, <1>5 DEF Next

RecreateInv == \A p \in Procs : RecreateAsPlanned(p)

(* What recreate planned holds on its way.                                 *)
THEOREM RecreateInvariant == Spec => []RecreateInv
<1>1. Init => RecreateInv
  BY DEF Init, RecreateInv, RecreateAsPlanned
<1>2. IInv /\ CommandInv /\ RecreateInv /\ [Next]_vars => RecreateInv'
  BY RecreateStep DEF RecreateInv
<1> QED
  BY <1>1, <1>2, InductiveInvariant, CommandInvariant, PTL DEF Spec

(* A recreate that succeeds leaves a container of the new plan, running if *)
(* and only if the old one ran (if only, where something failed).          *)
THEOREM RecreateCorrect == Spec => []RecreateKeepsRunState
<1>1. RecreateInv => RecreateKeepsRunState
  BY DEF RecreateInv, RecreateAsPlanned, RecreateKeepsRunState
<1> QED
  BY <1>1, RecreateInvariant, PTL

-----------------------------------------------------------------------------
(***************************************************************************)
(* State files: as long as nothing fails, the state file of an environment *)
(* nobody works on is true of its container.                               *)
(***************************************************************************)

(* From podman create to the save of the state file a container is ahead   *)
(* of it.                                                                  *)
Ahead(p, i) == pc[p] \in {"start", "save"} /\ plan[p].id = i

Settled(i) ==
  Exists(i) /\ ~IsRawRun(i) =>
    records[i].container /\ records[i].spec = containers[i].spec

(* The copy of the state file that a command is to write back: it knows    *)
(* of the container there is, except in a delete, which may hold one that  *)
(* is older and never writes it.                                           *)
CopyKept(p) ==
  LET i == stored[p].id
  IN  /\ pc[p] \in {"start", "save"} =>
           Exists(i) /\ containers[i].spec = plan[p].spec /\ stored[p].container
      /\ pc[p] \in {"sessionSave", "stopSave", "teardownSave"} => ~Exists(i)
      /\ \/ pc[p] \in {"index", "plan", "replan", "project", "enforce", "apply", "create",
                      "stop"}
         \/ pc[p] = "envLock" /\ Cmd(p) # "delete"
         => (Exists(i) => stored[p].container)

RecordInv ==
  faults = 0 =>
    /\ \A i \in Ids : Settled(i) \/ \E p \in Procs : Ahead(p, i)
    /\ \A p \in Procs : CopyKept(p)
-----------------------------------------------------------------------------
(* A step makes no container appear or change what it was made from.       *)
MadeNothing(i) == Exists(i)' => Exists(i) /\ containers'[i].spec = containers[i].spec

(* The steps that make one: podman create, and a raw run under a UUID that *)
(* no state file has.                                                      *)
LEMMA ContainerStep ==
  ASSUME IInv, NEW q \in Procs, Step(q) \/ User(q) \/ Fail(q), NEW i \in Ids
  PROVE  \/ MadeNothing(i)
         \/ Create(q) /\ plan[q].id = i
         \/ IsRawRun(i)' /\ records[i].id = NoId /\ pc[q] = "run"
<1> USE DEF storeVars, podmanVars
<1>1. PodmanTypeOK /\ containers \in [Ids -> Container] /\ todo \in [Procs -> SUBSET Ids]
  BY DEF IInv, TypeOK, PodmanTypeOK
<1>2. ASSUME containers'[i] = containers[i]
      PROVE  MadeNothing(i)
  BY <1>2 DEF MadeNothing, Exists
<1>3. ASSUME NEW k, Exists(k), StopContainer(k)
      PROVE  MadeNothing(i)
  BY <1>1, <1>3, StopEffect DEF MadeNothing
<1>4. CASE Registration(q) \/ AcquireGlobal(q) \/ Load(q) \/ AcquireEnvironment(q)
  BY <1>2, <1>4
     DEF Registration, InitManifest, ReuseRecord, RegisterRecord, RegisterIndex,
         AcquireGlobal, Load, AcquireEnvironment
<1>5. CASE Activation(q)
  <2>1. CASE Create(q)
    BY <1>1, <1>2, <2>1 DEF Create, CreateContainer
  <2>2. CASE Start(q)
    BY <1>1, <1>2, <2>2 DEF Start, StartContainer, MadeNothing, Exists, Container
  <2>3. CASE ~Create(q) /\ ~Start(q)
    BY <1>2, <1>5, <2>3
       DEF Activation, BuildPlan, SkipProject, AcquireProject, EnforceProjectConcurrency,
           PrepareResources, UseContainer, SkipStart, Save, ReleaseShared
  <2> QED
    BY <2>1, <2>2, <2>3
<1>6. CASE Removal(q)
  <2>1. CASE SessionStop(q) \/ Stop(q) \/ Teardown(q) \/ DeleteContainer(q)
    <3>1. \/ UNCHANGED containers
          \/ \E k : Exists(k) /\ StopContainer(k)
      BY <2>1 DEF SessionStop, Stop, Teardown, DeleteContainer, HasContainer
    <3> QED
      BY <1>2, <1>3, <3>1
  <2>2. CASE StopEach(q)
    BY <1>2, <1>3, <2>2 DEF StopEach
  <2>3. CASE Remove(q)
    BY <1>1, <1>2, <2>3 DEF Remove, RemoveContainer, NoContainer, MadeNothing, Exists
  <2>4. CASE \/ StopNothing(q) \/ List(q) \/ StoppedAll(q) \/ ClearRecord(q) \/ DeleteRead(q)
             \/ DeleteNetwork(q) \/ DeleteManifest(q) \/ PurgeHome(q) \/ Forget(q)
    BY <1>2, <2>4
       DEF StopNothing, List, StoppedAll, ClearRecord, DeleteRead, DeleteNetwork,
           DeleteManifest, PurgeHome, Forget
  <2> QED
    BY <1>6, <2>1, <2>2, <2>3, <2>4 DEF Removal
<1>7. CASE RawRun(q)
  <2>1. pc[q] = "run"
    BY <1>7 DEF RawRun
  <2>2. PICK k \in FreshIds :
          containers' = [containers EXCEPT ![k] = [status |-> "running", spec |-> RawSpec]]
    BY <1>7 DEF RawRun
  <2>3. CASE k = i
    BY <1>1, <2>1, <2>2, <2>3 DEF FreshIds, IsRawRun
  <2>4. CASE k # i
    BY <1>1, <1>2, <2>2, <2>4
  <2> QED
    BY <2>3, <2>4
<1>8. CASE User(q)
  <2>1. CASE Invoke(q) \/ EndSession(q)
    BY <1>2, <2>1 DEF Invoke, EndSession
  <2>2. CASE EndRawRun(q)
    BY <2>2 DEF EndRawRun, NoContainer, MadeNothing, Exists
  <2> QED
    BY <1>8, <2>1, <2>2 DEF User
<1>9. CASE Refuse(q) \/ Return(q) \/ Fail(q)
  BY <1>2, <1>9 DEF Refuse, Return, Fail, Leave
<1> QED
  BY <1>4, <1>5, <1>6, <1>7, <1>8, <1>9 DEF Step

(* The steps that write a state file.                                      *)
LEMMA RecordStep ==
  ASSUME IInv, NEW q \in Procs, Step(q) \/ User(q) \/ Fail(q), NEW i \in Ids
  PROVE  \/ records'[i] = records[i]
         \/ RegisterRecord(q) /\ ~Exists(i)
         \/ Save(q) /\ stored[q].id = i
         \/ ClearRecord(q) /\ stored[q].id = i
<1> USE DEF storeVars
<1>1. records \in [Ids -> Record] /\ stored \in [Procs -> Record]
  BY DEF IInv, TypeOK, StoreTypeOK
<1>2. CASE Registration(q) \/ AcquireGlobal(q) \/ Load(q) \/ AcquireEnvironment(q)
  <2>1. CASE RegisterRecord(q)
    <3>1. PICK k \in FreshIds : SaveState(NewRecord(k, Env(q)))
      BY <2>1 DEF RegisterRecord
    <3>2. CASE k = i
      BY <2>1, <3>2 DEF FreshIds
    <3>3. CASE k # i
      BY <1>1, <3>1, <3>3 DEF SaveState, NewRecord
    <3> QED
      BY <3>2, <3>3
  <2>2. CASE ~RegisterRecord(q)
    BY <1>2, <2>2
       DEF Registration, InitManifest, ReuseRecord, RegisterIndex, AcquireGlobal, Load,
           AcquireEnvironment
  <2> QED
    BY <2>1, <2>2
<1>3. CASE Activation(q)
  <2>1. CASE Save(q)
    <3>1. Applied(q).id = stored[q].id /\ SaveState(Applied(q))
      BY <1>1, <2>1 DEF Save, Applied, Record
    <3> QED
      BY <1>1, <2>1, <3>1 DEF SaveState
  <2>2. CASE ~Save(q)
    BY <1>3, <2>2
       DEF Activation, BuildPlan, SkipProject, AcquireProject, EnforceProjectConcurrency,
           PrepareResources, UseContainer, Create, SkipStart, Start, ReleaseShared
  <2> QED
    BY <2>1, <2>2
<1>4. CASE Removal(q)
  <2>1. CASE ClearRecord(q)
    <3>1. Cleared(q).id = stored[q].id /\ SaveState(Cleared(q))
      BY <1>1, <2>1 DEF ClearRecord, Cleared, Record
    <3> QED
      BY <1>1, <2>1, <3>1 DEF SaveState
  <2>2. CASE ~ClearRecord(q)
    BY <1>4, <2>2
       DEF Removal, SessionStop, StopNothing, Stop, List, StopEach, StoppedAll, Teardown,
           Remove, DeleteRead, DeleteContainer, DeleteNetwork, DeleteManifest, PurgeHome,
           Forget
  <2> QED
    BY <2>1, <2>2
<1>5. CASE RawRun(q) \/ User(q)
  BY <1>5 DEF RawRun, User, Invoke, EndSession, EndRawRun
<1>6. CASE Refuse(q) \/ Return(q) \/ Fail(q)
  BY <1>6 DEF Refuse, Return, Fail, Leave
<1> QED
  BY <1>2, <1>3, <1>4, <1>5, <1>6 DEF Step
-----------------------------------------------------------------------------
(* A container that is neither settled nor ahead of its file is one that a *)
(* failure left behind.                                                    *)
Recorded(i) == Settled(i) \/ \E p \in Procs : Ahead(p, i)

LEMMA AheadEnds ==
  ASSUME IInv, NEW p \in Procs, NEW i \in Ids, Ahead(p, i), CopyKept(p),
         Step(p) \/ User(p) \/ Fail(p), faults' = faults
  PROVE  Settled(i)' \/ Ahead(p, i)'
<1> USE DEF Goto, storeVars, podmanVars, localVars, boundVars
<1>1. /\ pc \in [Procs -> Labels] /\ records \in [Ids -> Record] /\ stored \in [Procs -> Record]
      /\ pc[p] \in {"start", "save"} /\ plan[p].id = i
  BY DEF IInv, TypeOK, StoreTypeOK, Ahead
<1>2. /\ stored[p].id = i
      /\ Exists(i) /\ containers[i].spec = plan[p].spec /\ stored[p].container
  BY <1>1, RecreateLocked DEF CopyKept, PlannedLabels
<1>3. CASE SkipStart(p) \/ Start(p)
  BY <1>1, <1>3 DEF SkipStart, Start, Ahead
<1>4. CASE Save(p)
  <2>1. records'[i] = [stored[p] EXCEPT !.spec = plan[p].spec] /\ containers' = containers
    BY <1>1, <1>2, <1>4 DEF Save, SaveState, Applied, Record
  <2>2. records'[i].container /\ records'[i].spec = plan[p].spec
    BY <1>1, <1>2, <2>1 DEF Record
  <2> QED
    BY <1>2, <2>1, <2>2 DEF Settled
<1>5. ~Refuse(p) /\ ~Return(p) /\ ~Fail(p)
  <2>1. ~Refused(p)
    BY <1>1, <1>2 DEF Refused, AfterRemove
  <2>2. faults \in Nat
    BY LifecycleAssumption DEF IInv, TypeOK
  <2>3. ~Fail(p)
    BY <2>2, SMT DEF Fail
  <2> QED
    BY <1>1, <2>1, <2>3 DEF Refuse, Return
<1>6. ~Registration(p) /\ ~AcquireGlobal(p) /\ ~Load(p) /\ ~AcquireEnvironment(p)
      /\ ~RawRun(p) /\ ~User(p)
  BY <1>1 DEF Registration, InitManifest, ReuseRecord, RegisterRecord, RegisterIndex,
              AcquireGlobal, Load, AcquireEnvironment, RawRun, User, Invoke, EndSession,
              EndRawRun
<1>7. ~Removal(p)
  BY <1>1 DEF Removal, SessionStop, StopNothing, Stop, List, StopEach, StoppedAll, Teardown,
              Remove, AfterRemove, ClearRecord, DeleteRead, DeleteContainer, DeleteNetwork,
              DeleteManifest, PurgeHome, Forget
<1>8. CASE Activation(p) /\ ~SkipStart(p) /\ ~Start(p) /\ ~Save(p)
  BY <1>1, <1>8
     DEF Activation, BuildPlan, SkipProject, AcquireProject, EnforceProjectConcurrency,
         PrepareResources, UseContainer, Create, ReleaseShared
<1> QED
  BY <1>3, <1>4, <1>5, <1>6, <1>7, <1>8 DEF Step

LEMMA RecordedStep ==
  ASSUME IInv, NEW q \in Procs, Step(q) \/ User(q) \/ Fail(q), faults' = faults,
         CopyKept(q), NEW i \in Ids, Recorded(i)
  PROVE  Recorded(i)'
<1> USE DEF Recorded
<1>1. CASE Ahead(q, i)
  BY <1>1, AheadEnds
<1>2. ASSUME NEW p \in Procs \ {q}, Ahead(p, i)
      PROVE  Recorded(i)'
  BY <1>2, OthersLeaveLocals DEF Ahead
<1>3. CASE Settled(i) /\ ~Ahead(q, i)
  <2>1. CASE Create(q) /\ plan[q].id = i
    <3>1. pc'[q] = "start" /\ plan' = plan
      BY <2>1 DEF Create, Goto, IInv, TypeOK
    <3> QED
      BY <2>1, <3>1 DEF Ahead
  <2>2. CASE IsRawRun(i)'
    BY <2>2 DEF Settled
  <2>3. CASE MadeNothing(i)
    <3>1. ~Save(q) \/ stored[q].id # i
      <4>1. pc[q] = "save" => plan[q].id = stored[q].id
        BY RecreateLocked DEF PlannedLabels
      <4> QED
        BY <1>3, <4>1 DEF Save, Ahead
    <3>2. CASE records'[i] = records[i]
      BY <1>3, <2>3, <3>2 DEF Settled, MadeNothing, IsRawRun
    <3>3. CASE RegisterRecord(q) /\ ~Exists(i)
      BY <2>3, <3>3 DEF Settled, MadeNothing
    <3>4. CASE ClearRecord(q) /\ stored[q].id = i
      BY <2>3, <3>4 DEF ClearRecord, CopyKept, Settled, MadeNothing
    <3> QED
      BY <3>1, <3>2, <3>3, <3>4, RecordStep
  <2> QED
    BY <2>1, <2>2, <2>3, ContainerStep
<1> QED
  BY <1>1, <1>2, <1>3
-----------------------------------------------------------------------------
(* The labels at which CopyKept has something to say.                      *)
CopyLabels ==
  {"start", "save", "sessionSave", "stopSave", "teardownSave", "index", "plan", "replan",
   "project", "enforce", "apply", "create", "stop", "envLock"}

(* What GetByName reads under the global lock knows of the container.      *)
LEMMA ReadUnderLock ==
  ASSUME IInv, NEW p \in Procs, pc[p] \in {"load", "record"},
         Registered(Env(p)), \A i \in Ids : Recorded(i)
  PROVE  LET i == GetByName(Env(p)).id
         IN  i \in Ids /\ (Exists(i) => GetByName(Env(p)).container)
<1> DEFINE i == index[Env(p)]
<1>1. globalLock = p /\ Env(p) \in Names
  BY DEF IInv, LockDiscipline, GlobalLabels, JobInv
<1>2. i \in Ids /\ records[i].id = i /\ GetByName(Env(p)) = records[i]
  <2>1. index \in Index
    BY DEF IInv, TypeOK, StoreTypeOK
  <2> QED
    BY <1>1, <2>1 DEF Registered, GetByName, Index, IInv, RegistryInv, RegistryIntegrity, Loadable
<1>3. Exists(i) => ~IsRawRun(i)
  BY <1>2, StoreAssumption DEF IInv, RawRunInv
<1>4. ~\E q \in Procs : Ahead(q, i)
  BY <1>1 DEF Ahead, IInv, LockDiscipline, GlobalLabels, PlanningLabels, PlannedLabels
<1>5. Exists(i) => records[i].container
  BY <1>2, <1>3, <1>4 DEF Recorded, Settled
<1> QED
  BY <1>2, <1>5

LEMMA CopyOwn ==
  ASSUME IInv, NEW p \in Procs, RecreateAsPlanned(p), CopyKept(p), \A i \in Ids : Recorded(i),
         Step(p) \/ User(p) \/ Fail(p)
  PROVE  CopyKept(p)'
<1> USE DEF Goto, storeVars, podmanVars, localVars, boundVars
<1>1. /\ pc \in [Procs -> Labels] /\ job \in [Procs -> Job]
      /\ plan \in [Procs -> Plan] /\ stored \in [Procs -> Record]
      /\ containers \in [Ids -> Container]
  BY DEF IInv, TypeOK, PodmanTypeOK
<1>2. ASSUME pc'[p] \notin CopyLabels
      PROVE  CopyKept(p)'
  BY <1>2 DEF CopyLabels, CopyKept
<1>3. CASE Load(p) \/ ReuseRecord(p)
  <2>1. /\ pc[p] \in {"load", "record"} /\ containers' = containers
        /\ stored'[p] = GetByName(Env(p))
        /\ pc'[p] \in {"record", "envLock", "ok"}
        /\ pc'[p] = "envLock" => Registered(Env(p))
    BY <1>1, <1>3 DEF Load, ReuseRecord, AfterRegister
  <2>2. CASE pc'[p] = "envLock"
    BY <2>1, <2>2, ReadUnderLock DEF CopyKept, Exists
  <2> QED
    BY <1>2, <2>1, <2>2 DEF CopyLabels
<1>4. CASE RegisterRecord(p)
  <2>1. PICK k \in FreshIds : stored' = [stored EXCEPT ![p] = NewRecord(k, Env(p))]
    BY <1>4 DEF RegisterRecord
  <2>2. pc'[p] = "index" /\ containers' = containers /\ stored'[p].id = k /\ ~Exists(k)
    BY <1>1, <1>4, <2>1 DEF RegisterRecord, NewRecord, FreshIds
  <2> QED
    BY <2>2 DEF CopyKept, Exists
<1>5. CASE RegisterIndex(p)
  <2>1. pc[p] = "index" /\ pc'[p] \in {"ok", "envLock"} /\ UNCHANGED <<containers, stored>>
    BY <1>1, <1>5 DEF RegisterIndex, AfterRegister
  <2> QED
    BY <2>1 DEF CopyKept, Exists
<1>6. CASE AcquireGlobal(p)
  <2>1. pc'[p] \in {"init", "list", "unlink", "load"} \/ (pc'[p] = "envLock" /\ Cmd(p)' = "delete")
    BY <1>1, <1>6 DEF AcquireGlobal, Cmd
  <2> QED
    BY <1>2, <2>1 DEF CopyKept, CopyLabels
<1>7. CASE AcquireEnvironment(p)
  <2>1. /\ pc[p] = "envLock" /\ UNCHANGED <<containers, stored>>
        /\ pc'[p] \in {"stop", "deleteContainer", "plan"}
        /\ pc'[p] \in {"plan", "stop"} => Cmd(p) # "delete"
    BY <1>1, <1>7 DEF AcquireEnvironment
  <2> QED
    BY <1>2, <2>1 DEF CopyKept, CopyLabels, Exists
<1>8. CASE \/ BuildPlan(p) \/ SkipProject(p) \/ AcquireProject(p)
           \/ EnforceProjectConcurrency(p) \/ PrepareResources(p)
  <2>1. /\ pc[p] \in {"plan", "replan", "project", "enforce", "apply"}
        /\ UNCHANGED <<containers, stored>>
        /\ pc'[p] \in {"project", "teardown", "apply", "enforce", "create"}
    BY <1>1, <1>8 DEF BuildPlan, SkipProject, AcquireProject, EnforceProjectConcurrency,
                      PrepareResources
  <2> QED
    BY <2>1 DEF CopyKept, Exists
<1>9. CASE UseContainer(p)
  <2>1. pc[p] = "create" /\ plan[p].exists /\ pc'[p] = "start"
        /\ UNCHANGED <<containers, stored, plan>>
    BY <1>1, <1>9 DEF UseContainer
  <2>2. plan[p].id = stored[p].id
    BY <2>1, RecreateLocked DEF PlannedLabels
  <2>3. Exists(stored[p].id) /\ containers[stored[p].id].spec = plan[p].spec
    BY <2>1, <2>2 DEF IInv, PlanInv, ExistsAsPlanned, SpecAsPlanned
  <2> QED
    BY <2>1, <2>3 DEF CopyKept, Exists
<1>10. CASE Create(p)
  <2>1. pc[p] = "create" /\ pc'[p] = "start" /\ plan' = plan
    BY <1>1, <1>10 DEF Create
  <2>2. stored'[p].id = stored[p].id /\ stored'[p].container
    BY <1>1, <1>10 DEF Create, Record
  <2>3. plan[p].id = stored[p].id /\ plan[p].id \in Ids
    BY <2>1, RecreateLocked DEF PlannedLabels
  <2>4. containers'[plan[p].id] = [status |-> "stopped", spec |-> plan[p].spec]
    BY <1>1, <1>10, <2>3 DEF Create, CreateContainer
  <2> QED
    BY <2>1, <2>2, <2>3, <2>4 DEF CopyKept, Exists
<1>11. CASE SkipStart(p) \/ Start(p)
  <2>1. pc[p] = "start" /\ pc'[p] = "save" /\ stored' = stored /\ plan' = plan
    BY <1>1, <1>11 DEF SkipStart, Start
  <2>2. plan[p].id = stored[p].id /\ plan[p].id \in Ids
    BY <2>1, RecreateLocked DEF PlannedLabels
  <2>3. Exists(plan[p].id)' /\ containers'[plan[p].id].spec = containers[plan[p].id].spec
    <3>1. Exists(plan[p].id)
      BY <2>1, <2>2 DEF CopyKept
    <3>2. CASE SkipStart(p)
      BY <2>1, <3>1, <3>2 DEF SkipStart, Exists
    <3>3. CASE Start(p)
      BY <1>1, <2>1, <2>2, <3>3 DEF Start, StartContainer, Container, Exists
    <3> QED
      BY <1>11, <3>2, <3>3
  <2> QED
    BY <2>1, <2>2, <2>3 DEF CopyKept, Exists
<1>12. CASE Save(p) \/ ReleaseShared(p)
  <2>1. pc'[p] \in {"ok", "release", "exec"}
    BY <1>1, <1>12 DEF Save, ReleaseShared
  <2> QED
    BY <1>2, <2>1 DEF CopyLabels
<1>13. CASE Remove(p)
  <2>1. /\ pc'[p] \in {"sessionSave", "stopSave", "teardownSave", "deleteNetwork"}
        /\ stored' = stored /\ pc[p] \in EnvironmentLabels
    BY <1>1, <1>13 DEF Remove, AfterRemove, EnvironmentLabels, PlanningLabels
  <2>2. Target(p) = stored[p].id /\ stored[p].id \in Ids
    <3>1. stored[p].id \in Ids
      BY <2>1 DEF IInv, LockDiscipline
    <3>2. pc[p] \in {"sessionRemove", "teardownRemove"} => plan[p].id \in Ids
      BY DEF IInv, JobInv
    <3> QED
      BY <3>1, <3>2, StoreAssumption DEF Target, IInv, LockDiscipline
  <2>3. ~Exists(stored[p].id)'
    BY <1>1, <1>13, <2>1, <2>2 DEF Remove, RemoveContainer, NoContainer, Exists
  <2> QED
    BY <2>1, <2>3 DEF CopyKept
<1>14. CASE Teardown(p)
  <2>1. pc[p] = "teardown" /\ stored' = stored /\ plan[p].exists = Exists(plan[p].id)
        /\ plan[p].id = stored[p].id
    BY <1>1, <1>14, RecreateLocked DEF Teardown, RecreateAsPlanned
  <2>2. CASE Exists(plan[p].id)
    BY <1>1, <1>2, <1>14, <2>1, <2>2 DEF Teardown, CopyLabels
  <2>3. CASE ~Exists(plan[p].id)
    <3>1. pc'[p] = "teardownSave" /\ containers' = containers
      BY <1>1, <1>14, <2>1, <2>3 DEF Teardown
    <3> QED
      BY <2>1, <2>3, <3>1 DEF CopyKept, Exists
  <2> QED
    BY <2>2, <2>3
<1>15. CASE ClearRecord(p)
  <2>1. /\ pc[p] \in {"sessionSave", "stopSave", "teardownSave"} /\ pc'[p] \in {"replan", "ok"}
        /\ containers' = containers
    BY <1>1, <1>15 DEF ClearRecord
  <2>2. stored'[p].id = stored[p].id
    BY <1>1, <1>15 DEF ClearRecord, Cleared, Record
  <2> QED
    BY <2>1, <2>2 DEF CopyKept, Exists
<1>16. CASE InitManifest(p) \/ RawRun(p) \/ User(p) \/ Refuse(p) \/ Return(p) \/ Fail(p)
  <2>1. CASE InitManifest(p) \/ RawRun(p) \/ User(p)
    BY <1>1, <1>2, <2>1
       DEF InitManifest, RawRun, User, Invoke, EndSession, EndRawRun, CopyLabels
  <2>2. CASE Refuse(p) \/ Return(p) \/ Fail(p)
    BY <1>1, <1>2, <2>2 DEF Refuse, Return, Fail, Leave, CopyLabels
  <2> QED
    BY <1>16, <2>1, <2>2
<1>17. CASE \/ SessionStop(p) \/ StopNothing(p) \/ Stop(p) \/ List(p) \/ StopEach(p)
            \/ StoppedAll(p) \/ DeleteRead(p) \/ DeleteContainer(p) \/ DeleteNetwork(p)
            \/ DeleteManifest(p) \/ PurgeHome(p) \/ Forget(p)
  <2>1. CASE SessionStop(p) \/ StopNothing(p) \/ Stop(p) \/ DeleteContainer(p)
    BY <1>1, <1>2, <2>1 DEF SessionStop, StopNothing, Stop, DeleteContainer, CopyLabels
  <2>2. CASE List(p) \/ StopEach(p) \/ StoppedAll(p)
    BY <1>1, <1>2, <2>2 DEF List, StopEach, StoppedAll, CopyLabels
  <2>3. CASE \/ DeleteRead(p) \/ DeleteNetwork(p) \/ DeleteManifest(p) \/ PurgeHome(p)
             \/ Forget(p)
    BY <1>1, <1>2, <2>3
       DEF DeleteRead, DeleteNetwork, DeleteManifest, PurgeHome, Forget, CopyLabels
  <2> QED
    BY <1>17, <2>1, <2>2, <2>3
<1> QED
  BY <1>3, <1>4, <1>5, <1>6, <1>7, <1>8, <1>9, <1>10, <1>11, <1>12, <1>13, <1>14, <1>15,
     <1>16, <1>17
     DEF Step, User, Registration, Activation, Removal
(* While p holds the environment or the global lock, nobody else makes the *)
(* container, and with the environment lock nobody removes it.             *)
LEMMA CopyFrame ==
  ASSUME IInv, NEW p \in Procs, CopyKept(p),
         pc'[p] = pc[p], plan'[p] = plan[p], job'[p] = job[p], stored'[p] = stored[p],
         \A i \in Ids : records[i].id # NoId =>
           /\ globalLock = p \/ envLock[i] = p => MadeNothing(i)
           /\ envLock[i] = p => (Exists(i) => Exists(i)')
  PROVE  CopyKept(p)'
<1> DEFINE i == stored[p].id
<1>1. CASE pc[p] \in CopyLabels
  <2>1. i \in Ids
    <3>1. i \in Ids \cup {NoId}
      BY DEF IInv, TypeOK, Record
    <3>2. pc[p] \in {"index", "envLock"} => i # NoId
      BY DEF IInv, LockDiscipline, RegistryInv
    <3>3. pc[p] \notin {"index", "envLock"} => i \in Ids
      BY <1>1 DEF CopyLabels, IInv, LockDiscipline, EnvironmentLabels, PlanningLabels,
                  PlannedLabels
    <3> QED
      BY <3>1, <3>2, <3>3
  <2>2. records[i].id # NoId
    BY <2>1, StoreAssumption DEF IInv, RegistryInv, Loadable
  <2>3. \/ globalLock = p
        \/ envLock[i] = p
    BY <1>1 DEF CopyLabels, IInv, LockDiscipline, GlobalLabels, EnvironmentLabels,
                PlanningLabels, PlannedLabels
  <2>4. pc[p] \in {"start", "save"} => envLock[i] = p
    BY DEF IInv, LockDiscipline, EnvironmentLabels, PlanningLabels, PlannedLabels
  <2>5. MadeNothing(i) /\ (pc[p] \in {"start", "save"} => (Exists(i) => Exists(i)'))
    BY <2>1, <2>2, <2>3, <2>4
  <2> QED
    BY <2>5 DEF CopyKept, MadeNothing, Exists, Cmd
<1>2. CASE pc[p] \notin CopyLabels
  BY <1>2 DEF CopyKept, CopyLabels
<1> QED
  BY <1>1, <1>2

LEMMA CopyStep ==
  ASSUME IInv, RecreateInv, NEW p \in Procs, CopyKept(p), \A i \in Ids : Recorded(i),
         [Next]_vars
  PROVE  CopyKept(p)'
<1>1. CASE Step(p) \/ User(p) \/ Fail(p)
  BY <1>1, CopyOwn DEF RecreateInv
<1>2. ASSUME NEW q \in Procs \ {p}, Step(q) \/ User(q) \/ Fail(q)
      PROVE  CopyKept(p)'
  <2>1. /\ pc'[p] = pc[p] /\ plan'[p] = plan[p]
        /\ job'[p] = job[p] /\ stored'[p] = stored[p]
    BY <1>2, OthersLeaveLocals
  <2>2. ASSUME NEW i \in Ids, records[i].id # NoId, globalLock = p \/ envLock[i] = p
        PROVE  MadeNothing(i)
    <3>1. ~(Create(q) /\ plan[q].id = i)
      <4>1. Create(q) => globalLock = q /\ plan[q].id \in Ids
        BY DEF Create, IInv, LockDiscipline, GlobalLabels, JobInv, PlanningLabels, PlannedLabels
      <4>2. plan[q].id \in Ids => envLock[plan[q].id] = q
        BY StoreAssumption DEF IInv, LockDiscipline
      <4> QED
        BY <1>2, <2>2, <4>1, <4>2
    <3> QED
      BY <1>2, <2>2, <3>1, ContainerStep
  <2>3. ASSUME NEW i \in Ids, records[i].id # NoId, envLock[i] = p
        PROVE  Exists(i) => Exists(i)'
    BY <1>2, <2>3, OthersSpare DEF Spared
  <2> QED
    BY <2>1, <2>2, <2>3, CopyFrame
<1>3. CASE Environment
  <2>1. /\ pc'[p] = pc[p] /\ plan'[p] = plan[p]
        /\ job'[p] = job[p] /\ stored'[p] = stored[p]
    BY <1>3 DEF Environment, ContainerExits, EditManifest, localVars
  <2>2. ASSUME NEW i \in Ids, records[i].id # NoId
        PROVE  MadeNothing(i) /\ (Exists(i) => Exists(i)')
    BY <1>3, <2>2, EnvironmentSpares DEF Spared, MadeNothing
  <2> QED
    BY <2>1, <2>2, CopyFrame
<1>4. CASE UNCHANGED vars
  <2>1. \A i \in Ids : MadeNothing(i) /\ (Exists(i) => Exists(i)')
    BY <1>4 DEF vars, podmanVars, MadeNothing, Exists
  <2> QED
    BY <1>4, <2>1, CopyFrame DEF vars, localVars
<1> QED
  BY <1>1, <1>2, <1>3, <1>4 DEF Next

-----------------------------------------------------------------------------
LEMMA RecordInvStep ==
  ASSUME IInv, RecreateInv, RecordInv, [Next]_vars
  PROVE  RecordInv'
<1> SUFFICES ASSUME faults' = 0
             PROVE  /\ \A i \in Ids : Recorded(i)'
                    /\ \A p \in Procs : CopyKept(p)'
  BY DEF RecordInv, Recorded
<1>1. faults = 0 /\ faults' = faults
  BY FaultsStay
<1>2. (\A i \in Ids : Recorded(i)) /\ (\A p \in Procs : CopyKept(p))
  BY <1>1 DEF RecordInv, Recorded
<1>3. ASSUME NEW p \in Procs PROVE CopyKept(p)'
  BY <1>2, CopyStep
<1>4. ASSUME NEW i \in Ids PROVE Recorded(i)'
  <2>1. ASSUME NEW q \in Procs, Step(q) \/ User(q) \/ Fail(q)
        PROVE  Recorded(i)'
    BY <1>1, <1>2, <2>1, RecordedStep
  <2>2. CASE Environment
    <3>1. ASSUME NEW n \in Names, EditManifest(n)
          PROVE  UNCHANGED <<records, containers, pc, plan>>
      BY <3>1 DEF EditManifest, podmanVars, localVars
    <3>2. ASSUME NEW k \in Ids, ContainerExits(k)
          PROVE  FALSE
      <4>1. faults \in Nat /\ faults' = faults + 1
        BY <3>2, LifecycleAssumption DEF ContainerExits, IInv, TypeOK
      <4> QED
        BY <1>1, <4>1, SMT
    <3> QED
      BY <1>2, <2>2, <3>1, <3>2
         DEF Environment, Recorded, Settled, Ahead, Exists, IsRawRun
  <2>3. CASE UNCHANGED vars
    BY <1>2, <2>3
       DEF vars, storeVars, podmanVars, localVars, Recorded, Settled, Ahead, Exists, IsRawRun
  <2> QED
    BY <2>1, <2>2, <2>3 DEF Next
<1> QED
  BY <1>3, <1>4

LEMMA RecordInvariant == Spec => []RecordInv
<1>1. Init => RecordInv
  BY DEF Init, PodmanInit, NoContainer, RecordInv, CopyKept, Settled, Exists
<1>2. IInv /\ RecreateInv /\ RecordInv /\ [Next]_vars => RecordInv'
  BY RecordInvStep
<1> QED
  BY <1>1, <1>2, InductiveInvariant, RecreateInvariant, PTL DEF Spec

(* As long as nothing fails, whenever no command holds an environment its  *)
(* state file names its container and what that was created from.          *)
THEOREM RecordsTrue == Spec => []RecordMatchesContainer
<1>1. IInv /\ RecordInv => RecordMatchesContainer
  <2> SUFFICES ASSUME IInv, RecordInv, faults = 0, NEW i \in Ids, envLock[i] = NoProc
               PROVE  Settled(i)
    BY DEF RecordMatchesContainer, Settled
  <2>1. ASSUME NEW p \in Procs, Ahead(p, i)
        PROVE  FALSE
    <3>1. plan[p].id = i /\ envLock[i] = p
      BY <2>1, StoreAssumption DEF Ahead, IInv, JobInv, LockDiscipline, PlannedLabels
    <3> QED
      BY <3>1, NoProcAssumption
  <2> QED
    BY <2>1 DEF RecordInv
<1> QED
  BY <1>1, InductiveInvariant, RecordInvariant, PTL

-----------------------------------------------------------------------------
(* What `stop NAME` goes by while it comes to its end: under the global    *)
(* lock nobody starts the container it has stopped, or not found.          *)
StopAsAsked(p) ==
  LET i == stored[p].id
  IN  Cmd(p) = "stop" =>
        /\ pc[p] \in {"lock", "load", "envLock", "stop", "stopRemove", "stopSave", "ok"}
        /\ pc[p] \in {"stopRemove", "stopSave", "ok"} =>
             i \in Ids /\ globalLock = p /\ ~Running(i)

StopInv == faults = 0 => \A p \in Procs : StopAsAsked(p)

LEMMA StopOwn ==
  ASSUME IInv, NEW p \in Procs, CopyKept(p), StopAsAsked(p), Step(p) \/ User(p) \/ Fail(p)
  PROVE  StopAsAsked(p)'
<1> USE DEF Goto, Cmd, lockVars, storeVars, podmanVars, localVars
<1>1. /\ pc \in [Procs -> Labels] /\ job \in [Procs -> Job] /\ stored \in [Procs -> Record]
      /\ containers \in [Ids -> Container]
      /\ pc[p] \in GlobalLabels => globalLock = p
      /\ pc[p] \in EnvironmentLabels => stored[p].id \in Ids
  BY DEF IInv, TypeOK, PodmanTypeOK, LockDiscipline
<1>2. CASE Refuse(p) \/ Return(p) \/ Fail(p)
  BY <1>1, <1>2 DEF Refuse, Return, Fail, Leave, NoJob, StopAsAsked
<1>3. CASE Invoke(p)
  <2>1. PICK c \in Commands, n \in Names \cup {NoName}, over \in BOOLEAN, purge \in BOOLEAN :
          /\ job' = [job EXCEPT ![p] = [cmd |-> c, name |-> n, overcommit |-> over, purge |-> purge]]
          /\ c = "stop" => pc' = [pc EXCEPT ![p] = "lock"]
    BY <1>3, LifecycleAssumption DEF Invoke
  <2> QED
    BY <1>1, <2>1 DEF StopAsAsked
<1>4. ASSUME Cmd(p) = "stop", job' = job, ~(Refuse(p) \/ Return(p) \/ Fail(p)), ~Invoke(p)
      PROVE  StopAsAsked(p)'
  <2>1. pc[p] \in {"lock", "load", "envLock", "stop", "stopRemove", "stopSave", "ok"}
    BY <1>4 DEF StopAsAsked
  <2>2. CASE AcquireGlobal(p)
    BY <1>1, <1>4, <2>2 DEF AcquireGlobal, StopAsAsked
  <2>3. CASE Load(p)
    BY <1>1, <1>4, <2>3 DEF Load, CanLoad, ActivateCommands, StopAsAsked
  <2>4. CASE AcquireEnvironment(p)
    BY <1>1, <1>4, <2>4 DEF AcquireEnvironment, StopAsAsked
  <2>5. CASE StopNothing(p)
    <3>1. pc[p] = "stop" /\ pc'[p] = "ok" /\ UNCHANGED <<globalLock, stored, containers>>
          /\ ~HasContainer(p)
      BY <1>1, <2>5 DEF StopNothing
    <3>2. stored[p].id \in Ids /\ globalLock = p
      BY <1>1, <3>1 DEF EnvironmentLabels, GlobalLabels
    <3>3. ~Exists(stored[p].id)
      BY <3>1 DEF CopyKept, HasContainer
    <3> QED
      BY <3>1, <3>2, <3>3 DEF StopAsAsked, Exists, Running
  <2>6. CASE Stop(p)
    <3>1. /\ pc[p] = "stop" /\ pc'[p] \in {"stopRemove", "ok"}
          /\ UNCHANGED <<globalLock, stored>> /\ StopContainer(stored[p].id)
      BY <1>1, <2>6 DEF Stop
    <3>2. stored[p].id \in Ids /\ globalLock = p
      BY <1>1, <3>1 DEF EnvironmentLabels, GlobalLabels
    <3>3. ~Running(stored[p].id)'
      BY <1>1, <3>1, <3>2 DEF StopContainer, Container, NoContainer, Running
    <3> QED
      BY <3>1, <3>2, <3>3 DEF StopAsAsked
  <2>7. CASE Remove(p)
    <3>1. /\ pc[p] = "stopRemove" /\ pc'[p] = "stopSave" /\ UNCHANGED <<globalLock, stored>>
          /\ RemoveContainer(stored[p].id)
      BY <1>1, <2>1, <2>7 DEF Remove, AfterRemove, Target
    <3>2. stored[p].id \in Ids /\ globalLock = p
      BY <1>1, <3>1 DEF EnvironmentLabels, GlobalLabels
    <3> QED
      BY <1>1, <3>1, <3>2 DEF StopAsAsked, RemoveContainer, NoContainer, Running
  <2>8. CASE ClearRecord(p)
    <3>1. /\ pc[p] = "stopSave" /\ pc'[p] = "ok" /\ UNCHANGED <<globalLock, containers>>
          /\ stored'[p].id = stored[p].id
      BY <1>1, <2>1, <2>8 DEF ClearRecord, Cleared, Record
    <3> QED
      BY <1>4, <3>1 DEF StopAsAsked, Running
  <2>9. ~Registration(p) /\ ~RawRun(p) /\ ~EndSession(p) /\ ~EndRawRun(p)
    BY <2>1 DEF Registration, InitManifest, ReuseRecord, RegisterRecord, RegisterIndex,
                RawRun, EndSession, EndRawRun
  <2>10. ~Activation(p)
    BY <2>1 DEF Activation, BuildPlan, SkipProject, AcquireProject, EnforceProjectConcurrency,
                PrepareResources, UseContainer, Create, SkipStart, Start, Save, ReleaseShared
  <2>11. Removal(p) => StopNothing(p) \/ Stop(p) \/ Remove(p) \/ ClearRecord(p)
    BY <2>1 DEF Removal, SessionStop, List, StopEach, StoppedAll, Teardown, DeleteRead,
                DeleteContainer, DeleteNetwork, DeleteManifest, PurgeHome, Forget
  <2> QED
    BY <1>4, <2>2, <2>3, <2>4, <2>5, <2>6, <2>7, <2>8, <2>9, <2>10, <2>11 DEF Step, User
<1>5. CASE ~(Refuse(p) \/ Return(p) \/ Fail(p)) /\ ~Invoke(p)
  <2>1. job' = job
    <3>1. CASE Registration(p) \/ AcquireGlobal(p) \/ Load(p) \/ AcquireEnvironment(p) \/ RawRun(p)
      BY <3>1 DEF Registration, InitManifest, ReuseRecord, RegisterRecord, RegisterIndex,
                  AcquireGlobal, Load, AcquireEnvironment, RawRun
    <3>2. CASE Activation(p)
      BY <3>2
         DEF Activation, BuildPlan, SkipProject, AcquireProject, EnforceProjectConcurrency,
             PrepareResources, UseContainer, Create, SkipStart, Start, Save, ReleaseShared
    <3>3. CASE Removal(p)
      BY <3>3
         DEF Removal, SessionStop, StopNothing, Stop, List, StopEach, StoppedAll, Teardown,
             Remove, ClearRecord, DeleteRead, DeleteContainer, DeleteNetwork, DeleteManifest,
             PurgeHome, Forget
    <3>4. CASE EndSession(p) \/ EndRawRun(p)
      BY <3>4 DEF EndSession, EndRawRun
    <3> QED
      BY <1>5, <3>1, <3>2, <3>3, <3>4 DEF Step, User
  <2>2. CASE Cmd(p) = "stop"
    BY <1>4, <1>5, <2>1, <2>2
  <2>3. CASE Cmd(p) # "stop"
    BY <2>1, <2>3 DEF StopAsAsked
  <2> QED
    BY <2>2, <2>3
<1> QED
  BY <1>2, <1>3, <1>5

LEMMA StopStep ==
  ASSUME IInv, IInv', RecordInv, StopInv, [Next]_vars
  PROVE  StopInv'
<1> SUFFICES ASSUME faults' = 0, NEW p \in Procs PROVE StopAsAsked(p)'
  BY DEF StopInv
<1>1. faults = 0 /\ faults' = faults
  BY FaultsStay
<1>2. StopAsAsked(p) /\ CopyKept(p)
  BY <1>1 DEF StopInv, RecordInv
<1>3. ASSUME pc'[p] = pc[p], job'[p] = job[p], stored'[p] = stored[p],
             globalLock = p => globalLock' = p,
             \A i \in Ids : globalLock = p /\ records'[i].id # NoId /\ Running(i)' => Running(i)
      PROVE  StopAsAsked(p)'
  <2>1. stored[p].id \in Ids => records'[stored[p].id].id # NoId
    BY <1>3, StoreAssumption DEF IInv, RegistryInv, Loadable
  <2> QED
    BY <1>2, <1>3, <2>1 DEF StopAsAsked, Cmd
<1>4. \A i \in Ids : records'[i].id # NoId /\ Running(i)' => ~IsRawRun(i)'
  BY DEF IInv, RawRunInv, Running, Exists
<1>5. CASE Step(p) \/ User(p) \/ Fail(p)
  BY <1>2, <1>5, StopOwn
<1>6. ASSUME NEW q \in Procs \ {p}, Step(q) \/ User(q) \/ Fail(q)
      PROVE  StopAsAsked(p)'
  <2>1. pc'[p] = pc[p] /\ job'[p] = job[p] /\ stored'[p] = stored[p]
    BY <1>6, OthersLeaveLocals
  <2>2. globalLock = p => globalLock' = p
    BY <1>6, GlobalLockKept
  <2>3. \A i \in Ids : globalLock = p /\ records'[i].id # NoId /\ Running(i)' => Running(i)
    BY <1>4, <1>6, OthersStartNothing
  <2> QED
    BY <1>3, <2>1, <2>2, <2>3
<1>7. ASSUME NEW n \in Names, EditManifest(n)
      PROVE  StopAsAsked(p)'
  BY <1>3, <1>7 DEF EditManifest, localVars, lockVars, podmanVars, Running
<1>8. ASSUME NEW k \in Ids, ContainerExits(k)
      PROVE  FALSE
  <2>1. faults \in Nat /\ faults' = faults + 1
    BY <1>8, LifecycleAssumption DEF ContainerExits, IInv, TypeOK
  <2> QED
    BY <1>1, <2>1, SMT
<1>9. CASE UNCHANGED vars
  BY <1>3, <1>9 DEF vars, localVars, lockVars, podmanVars, Running
<1> QED
  BY <1>5, <1>6, <1>7, <1>8, <1>9 DEF Next, Environment

(* As long as nothing fails, an `env stop NAME` that reports success has   *)
(* left no running container: what the state file says of the container    *)
(* can be relied on under the locks.  (LostContainer shows that one        *)
(* failure is enough to break it.)                                         *)
THEOREM StopTruthful == Spec => [](faults = 0 => StopMeansStopped)
<1>1. Init => StopInv
  BY DEF Init, StopInv, StopAsAsked, NoJob, Cmd
<1>2. IInv /\ IInv' /\ RecordInv /\ StopInv /\ [Next]_vars => StopInv'
  BY StopStep
<1>3. StopInv => (faults = 0 => StopMeansStopped)
  BY DEF StopInv, StopAsAsked, StopMeansStopped
<1> QED
  BY <1>1, <1>2, <1>3, InductiveInvariant, RecordInvariant, PTL DEF Spec

-----------------------------------------------------------------------------
(***************************************************************************)
(* Exclusive environments: without recreate, which checks no concurrency,  *)
(* two of them never run on one project.                                   *)
(***************************************************************************)

(* The command line of a process changes when it is invoked and when it    *)
(* ends.                                                                   *)
LEMMA JobChange ==
  ASSUME [Next]_vars
  PROVE  job' = job \/ \E q \in Procs : Invoke(q) \/ Leave(q)
<1> USE DEF localVars
<1>1. ASSUME NEW q \in Procs, Step(q) \/ User(q), ~Invoke(q), ~Leave(q)
      PROVE  job' = job
  <2>1. CASE Registration(q) \/ AcquireGlobal(q) \/ Load(q) \/ AcquireEnvironment(q) \/ RawRun(q)
    BY <2>1 DEF Registration, InitManifest, ReuseRecord, RegisterRecord, RegisterIndex,
                AcquireGlobal, Load, AcquireEnvironment, RawRun
  <2>2. CASE Activation(q)
    BY <2>2
       DEF Activation, BuildPlan, SkipProject, AcquireProject, EnforceProjectConcurrency,
           PrepareResources, UseContainer, Create, SkipStart, Start, Save, ReleaseShared
  <2>3. CASE Removal(q)
    BY <2>3
       DEF Removal, SessionStop, StopNothing, Stop, List, StopEach, StoppedAll, Teardown,
           Remove, ClearRecord, DeleteRead, DeleteContainer, DeleteNetwork, DeleteManifest,
           PurgeHome, Forget
  <2> QED
    BY <1>1, <2>1, <2>2, <2>3 DEF Step, User, Refuse, Return, EndSession, EndRawRun
<1>2. CASE Environment \/ UNCHANGED vars
  BY <1>2 DEF Environment, ContainerExits, EditManifest, vars
<1> QED
  BY <1>1, <1>2 DEF Next, Fail

(* A process runs one of the commands there are.                           *)
OnlyCommands == \A p \in Procs : Cmd(p) \in Commands \cup {"none"}

LEMMA OnlyCommandsStep ==
  ASSUME TypeOK, OnlyCommands, [Next]_vars
  PROVE  OnlyCommands'
<1> SUFFICES ASSUME NEW p \in Procs PROVE job'[p].cmd \in Commands \cup {"none"}
  BY DEF OnlyCommands, Cmd
<1>1. job \in [Procs -> Job] /\ job[p].cmd \in Commands \cup {"none"}
  BY DEF TypeOK, OnlyCommands, Cmd
<1>2. ASSUME NEW q \in Procs, Invoke(q)
      PROVE  job'[p].cmd \in Commands \cup {"none"}
  <2>1. PICK c \in Commands, n \in Names \cup {NoName}, over \in Overcommits \cup {FALSE},
             purge \in Purges \cup {FALSE} :
          job' = [job EXCEPT ![q] = [cmd |-> c, name |-> n, overcommit |-> over, purge |-> purge]]
    BY <1>2 DEF Invoke
  <2> QED
    BY <1>1, <2>1
<1>3. ASSUME NEW q \in Procs, Leave(q)
      PROVE  job'[p].cmd \in Commands \cup {"none"}
  BY <1>1, <1>3 DEF Leave, NoJob
<1> QED
  BY <1>1, <1>2, <1>3, JobChange

(* What runs after a step ran before it, made from the same specification, *)
(* but for the container the step has started and for raw runs.            *)
LEMMA RunningKeepsSpec ==
  ASSUME IInv, [Next]_vars, NEW j \in Ids, Running(j)', ~IsRawRun(j)',
         ~\E q \in Procs : Start(q) /\ j = plan[q].id
  PROVE  Running(j) /\ containers'[j].spec = containers[j].spec
<1>1. Exists(j)'
  BY DEF Running, Exists
<1>2. ASSUME NEW q \in Procs, Step(q) \/ User(q) \/ Fail(q)
      PROVE  Running(j) /\ containers'[j].spec = containers[j].spec
  <2>1. Running(j)
    BY <1>2, RunsByStart DEF IInv, WorkInv
  <2>2. ~(Create(q) /\ plan[q].id = j)
    BY <2>1 DEF Create, CanCreate, Running, Exists
  <2> QED
    BY <1>1, <1>2, <2>1, <2>2, ContainerStep DEF MadeNothing
<1>3. CASE Environment
  <2>1. PodmanTypeOK
    BY DEF IInv, TypeOK
  <2>2. containers' = containers \/ \E i \in Ids : Exists(i) /\ StopContainer(i)
    BY <1>3 DEF Environment, ContainerExits, EditManifest, Running, Exists, podmanVars
  <2> QED
    BY <1>1, <2>1, <2>2, StopEffect DEF Running
<1>4. CASE UNCHANGED vars
  BY <1>4 DEF vars, podmanVars, Running
<1> QED
  BY <1>2, <1>3, <1>4 DEF Next

ExclusiveInv == "recreate" \notin Commands => ExclusiveProject

LEMMA ExclusiveStep ==
  ASSUME IInv, OnlyCommands, "recreate" \notin Commands, ExclusiveProject, [Next]_vars
  PROVE  ExclusiveProject'
<1> DEFINE Exclusive(s) == s.project # NoProject /\ s.mode = "exclusive"
<1> SUFFICES ASSUME NEW i \in Ids, NEW j \in Ids, i # j, Running(i)', Running(j)',
                    Exclusive(containers'[i].spec), Exclusive(containers'[j].spec),
                    containers'[i].spec.project = containers'[j].spec.project
             PROVE  FALSE
  BY DEF ExclusiveProject, RunningIds, Running
<1>1. ~IsRawRun(i)' /\ ~IsRawRun(j)'
  BY StoreAssumption DEF IsRawRun
<1>2. ASSUME NEW q \in Procs, NEW a \in Ids, NEW b \in Ids, a # b, Start(q), a = plan[q].id,
             Running(a)', Running(b)', ~IsRawRun(b)', Exclusive(containers'[a].spec),
             containers'[a].spec.project = containers'[b].spec.project
      PROVE  FALSE
  <2>1. /\ pc[q] = "start" /\ Exists(a) /\ Cmd(q) \in ActivateCommands
        /\ containers' = [containers EXCEPT ![a].status = "running"]
    BY <1>2 DEF Start, StartContainer, WantsStart, OnlyCommands, ActivateCommands
  <2>2. containers \in [Ids -> Container]
    BY DEF IInv, TypeOK, PodmanTypeOK
  <2>3. /\ containers'[a].spec = containers[a].spec
        /\ containers'[b] = containers[b]
    BY <1>2, <2>1, <2>2 DEF Container
  <2>4. containers[a].spec = plan[q].spec
    BY <1>2, <2>1 DEF IInv, PlanInv, SpecAsPlanned
  <2>5. Shares(a, b, plan[q].spec) /\ ~Admits(plan[q].spec)
    BY <1>2, <2>3, <2>4 DEF Shares, Admits, Running
  <2> QED
    BY <1>2, <2>1, <2>3, <2>4, <2>5 DEF IInv, PlanInv, ProjectAsChecked
<1>3. ~\E q \in Procs : Start(q) /\ (i = plan[q].id \/ j = plan[q].id)
  BY <1>1, <1>2
<1>4. /\ Running(i) /\ containers'[i].spec = containers[i].spec
      /\ Running(j) /\ containers'[j].spec = containers[j].spec
  BY <1>1, <1>3, RunningKeepsSpec
<1> QED
  BY <1>4 DEF ExclusiveProject, RunningIds, Running

(* Where recreate is not used, two exclusive environments never run on one *)
(* project at the same time: the project lock and the check under it are   *)
(* enough for every other command.  (RecreateMoves shows that they are not *)
(* for recreate.)                                                          *)
THEOREM ExclusiveWithoutRecreate == Spec => []("recreate" \notin Commands => ExclusiveProject)
<1>1. Init => OnlyCommands /\ ExclusiveInv
  <2> SUFFICES ASSUME Init PROVE OnlyCommands /\ ExclusiveProject
    BY DEF ExclusiveInv
  <2>1. OnlyCommands
    BY DEF Init, OnlyCommands, Cmd, NoJob
  <2>2. RunningIds = {}
    BY DEF Init, PodmanInit, NoContainer, RunningIds, Running
  <2> QED
    BY <2>1, <2>2 DEF ExclusiveProject
<1>2. IInv /\ OnlyCommands /\ [Next]_vars => OnlyCommands'
  BY OnlyCommandsStep DEF IInv
<1>3. IInv /\ OnlyCommands /\ ExclusiveInv /\ [Next]_vars => ExclusiveInv'
  BY ExclusiveStep DEF ExclusiveInv
<1>4. ExclusiveInv => ("recreate" \notin Commands => ExclusiveProject)
  BY DEF ExclusiveInv
<1> QED
  BY <1>1, <1>2, <1>3, <1>4, InductiveInvariant, PTL DEF Spec
===============================================================================
