------------------------------ MODULE PoolProofs -------------------------------
(***************************************************************************)
(* Theorems of Lifecycle about the memory pool: a start that is held to    *)
(* the pool keeps the running environments within it. The sum is a fold    *)
(* over a set, so lemmas on such sums come first; induction is the search  *)
(* for a smallest counterexample.                                          *)
(***************************************************************************)
EXTENDS CommandProofs, FiniteSetTheorems

(* The element that a fold takes from a set next.                          *)
First(s) == CHOOSE x \in s : TRUE

(* g is the function SumFunctionOnSet computes: the sum of f over each     *)
(* subset of S, taken element by element.                                  *)
Sums(g, f, S) ==
  g = [s \in SUBSET S |-> IF s = {} THEN 0 ELSE f[First(s)] + g[s \ {First(s)}]]

(* What SumFunctionOnSet is, without the fold.                             *)
LEMMA SumUnfolds ==
  ASSUME NEW f, NEW S
  PROVE  SumFunctionOnSet(f, S) = (CHOOSE g : Sums(g, f, S))[S]
BY DEF SumFunctionOnSet, FoldFunctionOnSet, MapThenFoldSet, Sums, First

(* Induction over the subsets of a finite set: any collection of them has  *)
(* one with no smaller one in the collection.                              *)
LEMMA SmallestSet ==
  ASSUME NEW S, IsFiniteSet(S), NEW C \in SUBSET (SUBSET S), C # {}
  PROVE  \E T \in C : \A U \in C : U \subseteq T => U = T
<1>1. IsWellFoundedOn(StrictSubsetOrdering(S), SUBSET S)
  BY FS_StrictSubsetOrderingWellFounded, FS_FiniteSubsetsOfFinite
<1>2. PICK T \in C : \A U \in C : <<U, T>> \notin StrictSubsetOrdering(S)
  BY <1>1, WFMin
<1>3. \A U \in C : U \subseteq T => U = T
  BY <1>2 DEF StrictSubsetOrdering
<1> QED
  BY <1>3

(* The equations of the function.                                          *)
LEMMA SumsValue ==
  ASSUME NEW f, NEW S, NEW g, Sums(g, f, S)
  PROVE  /\ g[{}] = 0
         /\ \A s \in SUBSET S : s # {} =>
              First(s) \in s /\ g[s] = f[First(s)] + g[s \ {First(s)}]
<1> DEFINE G == [s \in SUBSET S |-> IF s = {} THEN 0 ELSE f[First(s)] + g[s \ {First(s)}]]
<1>1. g = G
  BY DEF Sums
<1>2. \A s \in SUBSET S : G[s] = IF s = {} THEN 0 ELSE f[First(s)] + g[s \ {First(s)}]
  OBVIOUS
<1>3. \A s : s # {} => First(s) \in s
  BY DEF First
<1> HIDE DEF G
<1> QED
  BY <1>1, <1>2, <1>3

(* The sums over a part depend on the values on that part only; in         *)
(* particular there is only one such function.                             *)
LEMMA SumsAgree ==
  ASSUME NEW S, IsFiniteSet(S), NEW T \in SUBSET S,
         NEW f, NEW g, Sums(g, f, S),
         NEW e, NEW h, Sums(h, e, T), \A x \in T : e[x] = f[x]
  PROVE  \A s \in SUBSET T : h[s] = g[s]
<1>0. \A s \in SUBSET S : s # {} => g[s] = f[First(s)] + g[s \ {First(s)}]
  BY SumsValue
<1> DEFINE C == {s \in SUBSET T : h[s] # g[s]}
<1>1. IsFiniteSet(T)
  BY FS_Subset
<1>2. SUFFICES ASSUME C # {} PROVE FALSE
  OBVIOUS
<1>3. PICK s \in C : \A u \in C : u \subseteq s => u = s
  <2>1. C \in SUBSET (SUBSET T)
    OBVIOUS
  <2> HIDE DEF C
  <2> QED
    BY <1>1, <1>2, <2>1, SmallestSet
<1>4. s # {}
  BY <1>3, SumsValue
<1>5. First(s) \in s /\ h[s] = e[First(s)] + h[s \ {First(s)}]
  BY <1>3, <1>4, SumsValue
<1>6. g[s] = f[First(s)] + g[s \ {First(s)}]
  BY <1>0, <1>3, <1>4
<1>7. s \ {First(s)} \notin C /\ s \ {First(s)} \in SUBSET T
  BY <1>3, <1>5
<1> QED
  BY <1>3, <1>5, <1>6, <1>7

(* There is such a function: were there none for some smallest set, those  *)
(* of its subsets would give one.                                          *)
LEMMA SumsExist ==
  ASSUME NEW f, NEW S, IsFiniteSet(S)
  PROVE  \E g : Sums(g, f, S)
<1> DEFINE C == {T \in SUBSET S : ~\E g : Sums(g, f, T)}
<1>1. SUFFICES ASSUME C # {} PROVE FALSE
  OBVIOUS
<1>2. PICK T \in C : \A U \in C : U \subseteq T => U = T
  <2>1. C \in SUBSET (SUBSET S)
    OBVIOUS
  <2> HIDE DEF C
  <2> QED
    BY <1>1, <2>1, SmallestSet
<1> DEFINE Of(U) == CHOOSE g : Sums(g, f, U)
           Rest == T \ {First(T)}
           G == [s \in SUBSET T |->
                  IF s = {} THEN 0
                  ELSE IF s = T THEN f[First(T)] + Of(Rest)[Rest] ELSE Of(s)[s]]
<1>3. \A U \in SUBSET T : U # T => Sums(Of(U), f, U) /\ IsFiniteSet(U)
  <2>1. ASSUME NEW U \in SUBSET T, U # T
        PROVE  Sums(Of(U), f, U) /\ IsFiniteSet(U)
    <3>1. \E g : Sums(g, f, U)
      BY <1>2, <2>1
    <3> QED
      BY <3>1, FS_Subset
  <2> QED
    BY <2>1
<1>4. \A s : s # {} => First(s) \in s
  BY DEF First
<1>5. ASSUME NEW s \in SUBSET T, s # {}
      PROVE  G[s] = f[First(s)] + G[s \ {First(s)}]
  <2> DEFINE r == s \ {First(s)}
  <2>1. r \in SUBSET T /\ r # T /\ r \in SUBSET s
    BY <1>4, <1>5
  <2>2. Sums(Of(r), f, r) /\ IsFiniteSet(r)
    BY <1>3, <2>1
  <2>3. G[r] = Of(r)[r]
    <3>1. CASE r = {}
      <4>1. Of(r)[{}] = 0
        BY <2>2, SumsValue
      <4> QED
        BY <3>1, <4>1
    <3>2. CASE r # {}
      BY <2>1, <3>2
    <3> QED
      BY <3>1, <3>2
  <2>4. CASE s = T
    BY <1>5, <2>3, <2>4
  <2>5. CASE s # T
    <3>1. Sums(Of(s), f, s) /\ IsFiniteSet(s)
      BY <1>3, <2>5
    <3>2. Of(s)[s] = f[First(s)] + Of(s)[r]
      <4> DEFINE o == Of(s)
      <4>1. Sums(o, f, s)
        BY <3>1
      <4> HIDE DEF o
      <4>2. \A t \in SUBSET s : t # {} => o[t] = f[First(t)] + o[t \ {First(t)}]
        BY <4>1, SumsValue
      <4> QED
        BY <1>5, <4>2 DEF o
    <3>3. Of(r)[r] = Of(s)[r]
      BY <2>1, <2>2, <3>1, SumsAgree
    <3>4. G[s] = Of(s)[s]
      BY <1>5, <2>5
    <3> QED
      BY <2>3, <3>2, <3>3, <3>4
  <2> QED
    BY <2>4, <2>5
<1>6. Sums(G, f, T)
  <2>1. G = [s \in SUBSET T |-> G[s]]
    OBVIOUS
  <2>2. G[{}] = 0
    OBVIOUS
  <2> HIDE DEF G
  <2>3. \A s \in SUBSET T :
          G[s] = IF s = {} THEN 0 ELSE f[First(s)] + G[s \ {First(s)}]
    BY <1>5, <2>2
  <2> QED
    BY <2>1, <2>3 DEF Sums
<1> QED
  BY <1>2, <1>6

(* So the sum is what the equations say.                                   *)
LEMMA SumIsSum ==
  ASSUME NEW f, NEW S, IsFiniteSet(S)
  PROVE  \E g : Sums(g, f, S) /\ SumFunctionOnSet(f, S) = g[S]
BY SumsExist, SumUnfolds

(* Sums of natural numbers are natural numbers.                            *)
LEMMA SumsType ==
  ASSUME NEW S, IsFiniteSet(S), NEW f \in [S -> Nat], NEW g, Sums(g, f, S)
  PROVE  \A s \in SUBSET S : g[s] \in Nat
<1> DEFINE C == {s \in SUBSET S : g[s] \notin Nat}
<1>1. SUFFICES ASSUME C # {} PROVE FALSE
  OBVIOUS
<1>2. PICK s \in C : \A u \in C : u \subseteq s => u = s
  <2>1. C \in SUBSET (SUBSET S)
    OBVIOUS
  <2> HIDE DEF C
  <2> QED
    BY <1>1, <2>1, SmallestSet
<1>3. s # {}
  <2>1. g[{}] = 0
    BY SumsValue
  <2> QED
    BY <1>2, <2>1
<1>4. First(s) \in s /\ g[s] = f[First(s)] + g[s \ {First(s)}]
  BY <1>2, <1>3, SumsValue
<1>5. g[s \ {First(s)}] \in Nat
  BY <1>2, <1>4
<1> QED
  BY <1>2, <1>4, <1>5

(* The order in which the elements are taken does not matter.              *)
LEMMA SumsTakeAny ==
  ASSUME NEW S, IsFiniteSet(S), NEW f \in [S -> Nat], NEW g, Sums(g, f, S)
  PROVE  \A s \in SUBSET S : \A x \in s : g[s] = f[x] + g[s \ {x}]
<1> DEFINE C == {s \in SUBSET S : \E x \in s : g[s] # f[x] + g[s \ {x}]}
<1>1. SUFFICES ASSUME C # {} PROVE FALSE
  OBVIOUS
<1>2. PICK s \in C : \A u \in C : u \subseteq s => u = s
  <2>1. C \in SUBSET (SUBSET S)
    OBVIOUS
  <2> HIDE DEF C
  <2> QED
    BY <1>1, <2>1, SmallestSet
<1>3. PICK x \in s : g[s] # f[x] + g[s \ {x}]
  BY <1>2
<1> DEFINE c == First(s)
<1>4. c \in s /\ g[s] = f[c] + g[s \ {c}]
  BY <1>2, <1>3, SumsValue
<1>5. c # x
  BY <1>3, <1>4
<1>6. g[s \ {c}] = f[x] + g[(s \ {c}) \ {x}]
  <2>1. s \ {c} \notin C
    BY <1>2, <1>4
  <2> QED
    BY <1>2, <1>3, <1>5, <2>1
<1>7. g[s \ {x}] = f[c] + g[(s \ {x}) \ {c}]
  <2>1. s \ {x} \notin C
    BY <1>2, <1>3
  <2> QED
    BY <1>2, <1>4, <1>5, <2>1
<1>8. (s \ {x}) \ {c} = (s \ {c}) \ {x}
  OBVIOUS
<1>9. g[(s \ {c}) \ {x}] \in Nat /\ f[x] \in Nat /\ f[c] \in Nat
  BY <1>2, <1>3, <1>4, SumsType
<1> DEFINE k == g[(s \ {c}) \ {x}]
<1>10. g[s] = f[c] + (f[x] + k) /\ g[s \ {x}] = f[c] + k
  BY <1>4, <1>6, <1>7, <1>8
<1>11. k \in Nat /\ f[x] \in Nat /\ f[c] \in Nat
  BY <1>9
<1> HIDE DEF k, c
<1>12. g[s] = f[x] + g[s \ {x}]
  BY <1>10, <1>11
<1> QED
  BY <1>3, <1>12

(* A sum over more elements is no smaller.                                 *)
LEMMA SumsMonotone ==
  ASSUME NEW S, IsFiniteSet(S), NEW f \in [S -> Nat], NEW g, Sums(g, f, S),
         NEW T \in SUBSET S
  PROVE  g[T] <= g[S]
<1> DEFINE C == {s \in SUBSET S : T \subseteq s /\ ~(g[T] <= g[s])}
<1>1. SUFFICES ASSUME C # {} PROVE FALSE
  OBVIOUS
<1>2. PICK s \in C : \A u \in C : u \subseteq s => u = s
  <2>1. C \in SUBSET (SUBSET S)
    OBVIOUS
  <2> HIDE DEF C
  <2> QED
    BY <1>1, <2>1, SmallestSet
<1>3. g[T] \in Nat /\ g[s] \in Nat
  BY <1>2, SumsType
<1>4. PICK x \in s : x \notin T
  <2>1. T # s
    BY <1>2, <1>3
  <2> QED
    BY <1>2, <2>1
<1>5. g[s] = f[x] + g[s \ {x}] /\ f[x] \in Nat /\ g[s \ {x}] \in Nat
  BY <1>2, SumsTakeAny, SumsType
<1>6. g[T] <= g[s \ {x}]
  BY <1>2, <1>4
<1> QED
  BY <1>2, <1>3, <1>5, <1>6

(* What the models use: the sum of a function over its finite domain is a  *)
(* natural number, and no smaller than that of a part of it.               *)
LEMMA SumOfPart ==
  ASSUME NEW S, IsFiniteSet(S), NEW T \in SUBSET S,
         NEW f \in [S -> Nat], NEW e \in [T -> Nat], \A x \in T : e[x] = f[x]
  PROVE  /\ SumFunctionOnSet(e, T) \in Nat
         /\ SumFunctionOnSet(f, S) \in Nat
         /\ SumFunctionOnSet(e, T) <= SumFunctionOnSet(f, S)
<1>1. IsFiniteSet(T)
  BY FS_Subset
<1>2. PICK g : Sums(g, f, S) /\ SumFunctionOnSet(f, S) = g[S]
  BY SumIsSum
<1>3. PICK h : Sums(h, e, T) /\ SumFunctionOnSet(e, T) = h[T]
  BY <1>1, SumIsSum
<1>4. h[T] = g[T]
  BY <1>2, <1>3, SumsAgree
<1>5. g[T] \in Nat /\ g[S] \in Nat
  BY <1>2, SumsType
<1>6. g[T] <= g[S]
  BY <1>2, SumsMonotone
<1> QED
  BY <1>2, <1>3, <1>4, <1>5, <1>6

(* An element taken out of a sum.                                          *)
LEMMA SumWithout ==
  ASSUME NEW S, IsFiniteSet(S), NEW x \in S, NEW f \in [S -> Nat],
         NEW e \in [S \ {x} -> Nat], \A y \in S \ {x} : e[y] = f[y]
  PROVE  SumFunctionOnSet(f, S) = f[x] + SumFunctionOnSet(e, S \ {x})
<1>1. IsFiniteSet(S \ {x})
  BY FS_Subset
<1>2. PICK g : Sums(g, f, S) /\ SumFunctionOnSet(f, S) = g[S]
  BY SumIsSum
<1>3. PICK h : Sums(h, e, S \ {x}) /\ SumFunctionOnSet(e, S \ {x}) = h[S \ {x}]
  BY <1>1, SumIsSum
<1>4. h[S \ {x}] = g[S \ {x}]
  BY <1>2, <1>3, SumsAgree
<1>5. g[S] = f[x] + g[S \ {x}]
  BY <1>2, SumsTakeAny
<1> QED
  BY <1>2, <1>3, <1>4, <1>5

-----------------------------------------------------------------------------
(* Every container was made from a manifest or by a raw run.               *)
Specified == \A i \in Ids : Exists(i) => containers[i].spec \in Manifests \cup {RawSpec}

LEMMA SpecifiedStep ==
  ASSUME IInv, Specified, [Next]_vars
  PROVE  Specified'
<1> USE DEF Specified
<1>1. ASSUME NEW q \in Procs, Step(q) \/ User(q) \/ Fail(q), NEW i \in Ids, Exists(i)'
      PROVE  containers'[i].spec \in Manifests \cup {RawSpec}
  <2>1. CASE MadeNothing(i)
    BY <1>1, <2>1 DEF MadeNothing
  <2>2. CASE Create(q) /\ plan[q].id = i
    BY <2>2 DEF Create, CreateContainer, IInv, TypeOK, PodmanTypeOK, JobInv, PlannedLabels
  <2>3. CASE IsRawRun(i)'
    BY <2>3 DEF IsRawRun
  <2> QED
    BY <1>1, <2>1, <2>2, <2>3, ContainerStep
<1>2. CASE Environment
  <2>1. PodmanTypeOK
    BY DEF IInv, TypeOK
  <2>2. containers' = containers \/ \E i \in Ids : Exists(i) /\ StopContainer(i)
    BY <1>2 DEF Environment, ContainerExits, EditManifest, Running, Exists, podmanVars
  <2> QED
    BY <2>1, <2>2, StopEffect DEF Exists
<1>3. CASE UNCHANGED vars
  BY <1>3 DEF vars, podmanVars, Exists
<1> QED
  BY <1>1, <1>2, <1>3 DEF Next

(* The running containers of environments.                                 *)
RunningEnvironments == {j \in RunningIds : ~IsRawRun(j)}

LEMMA MemoryType ==
  ASSUME Specified
  PROVE  \A j \in Ids : Running(j) => containers[j].spec.memory \in Nat
BY StoreAssumption DEF Specified, Running, Exists, ManifestType

(* The environment e is the only one that may have started in this step.   *)
NoneStartsBut(e) ==
  \A j \in Ids \ {e} :
    Running(j)' /\ ~IsRawRun(j)' =>
      Running(j) /\ ~IsRawRun(j) /\ containers'[j].spec = containers[j].spec

(* What the others of an environment need shrinks unless one of them       *)
(* starts.                                                                 *)
LEMMA MemoryShrinks ==
  ASSUME Specified, NEW i \in Ids, NoneStartsBut(i)
  PROVE  /\ EnvironmentMemory(i) \in Nat
         /\ EnvironmentMemory(i)' \in Nat
         /\ EnvironmentMemory(i)' <= EnvironmentMemory(i)
<1> DEFINE S == {j \in RunningIds \ {i} : ~IsRawRun(j)}
           T == {j \in RunningIds' \ {i} : ~IsRawRun(j)'}
           f == [j \in S |-> containers[j].spec.memory]
           e == [j \in T |-> containers'[j].spec.memory]
<1>1. T \in SUBSET S /\ \A j \in T : containers'[j].spec = containers[j].spec
  BY DEF NoneStartsBut, RunningIds
<1>2. IsFiniteSet(S)
  BY FiniteIdsAssumption, FS_Subset DEF RunningIds
<1>3. f \in [S -> Nat]
  BY MemoryType DEF RunningIds
<1>4. e \in [T -> Nat] /\ \A j \in T : e[j] = f[j]
  BY <1>1, <1>3
<1>5. EnvironmentMemory(i) = SumFunctionOnSet(f, S)
  BY DEF EnvironmentMemory, MemoryOf
<1>6. EnvironmentMemory(i)' = SumFunctionOnSet(e, T)
  BY DEF EnvironmentMemory, MemoryOf
<1> HIDE DEF S, T, f, e
<1> QED
  BY <1>1, <1>2, <1>3, <1>4, <1>5, <1>6, SumOfPart

-----------------------------------------------------------------------------
(* While a process applies a plan that is held to the pool, there is room  *)
(* for its container beside those of the other environments.               *)
PoolHeld(p) ==
  \A i \in Ids :
    pc[p] \in Applying /\ plan[p].id = i /\ ~job[p].overcommit =>
      EnvironmentMemory(i) + plan[p].spec.memory <= PoolMemory

PoolInv == Specified /\ \A p \in Procs : PoolHeld(p)

LEMMA PoolFrame ==
  ASSUME Specified, NEW p \in Procs, PoolHeld(p), pc[p] \in Applying,
         plan'[p] = plan[p], job'[p] = job[p], plan[p].spec.memory \in Nat,
         \A i \in Ids : plan[p].id = i => NoneStartsBut(i)
  PROVE  PoolHeld(p)'
<1> SUFFICES ASSUME NEW i \in Ids, plan[p].id = i, ~job[p].overcommit
             PROVE  EnvironmentMemory(i)' + plan[p].spec.memory <= PoolMemory
  BY DEF PoolHeld
<1>1. EnvironmentMemory(i) + plan[p].spec.memory <= PoolMemory
  BY DEF PoolHeld
<1>2. /\ EnvironmentMemory(i) \in Nat
      /\ EnvironmentMemory(i)' \in Nat
      /\ EnvironmentMemory(i)' <= EnvironmentMemory(i)
  BY MemoryShrinks
<1> QED
  BY <1>1, <1>2, LifecycleAssumption

(* The check of the plan counts every other container, raw runs too.       *)
LEMMA PlanWithinPool ==
  ASSUME IInv, Specified, NEW p \in Procs, BuildPlan(p)
  PROVE  PoolHeld(p)'
<1> SUFFICES ASSUME NEW i \in Ids, pc'[p] \in Applying, plan'[p].id = i, ~job[p].overcommit
             PROVE  EnvironmentMemory(i)' + plan'[p].spec.memory <= PoolMemory
  BY DEF PoolHeld, BuildPlan
<1>1. plan'[p].id = index[Env(p)] /\ plan'[p].spec = manifests[Env(p)]
  BY DEF BuildPlan, IInv, TypeOK
<1>2. manifests[Env(p)].memory \in Nat
  <2>1. Env(p) \in Names
    BY DEF BuildPlan, IInv, JobInv
  <2>2. manifests[Env(p)] \in Manifests
    BY <2>1 DEF BuildPlan, CanPlan, IInv, TypeOK, StoreTypeOK
  <2> QED
    BY <2>2, StoreAssumption DEF ManifestType
<1>3. OtherMemory(i) + manifests[Env(p)].memory <= PoolMemory
  BY <1>1 DEF BuildPlan, CanPlan, CheckAggregate
<1> DEFINE S == RunningIds \ {i}
           T == {j \in S : ~IsRawRun(j)}
           f == [j \in S |-> containers[j].spec.memory]
           e == [j \in T |-> containers[j].spec.memory]
<1>4. IsFiniteSet(S)
  BY FiniteIdsAssumption, FS_Subset DEF RunningIds
<1>5. f \in [S -> Nat]
  BY MemoryType DEF RunningIds
<1>6. T \in SUBSET S /\ e \in [T -> Nat] /\ \A j \in T : e[j] = f[j]
  BY <1>5
<1>7. OtherMemory(i) = SumFunctionOnSet(f, S)
  BY DEF OtherMemory, MemoryOf
<1>8. EnvironmentMemory(i) = SumFunctionOnSet(e, T)
  BY DEF EnvironmentMemory, MemoryOf
<1>9. EnvironmentMemory(i)' = EnvironmentMemory(i)
  BY DEF BuildPlan, podmanVars, EnvironmentMemory, MemoryOf, RunningIds, Running, IsRawRun
<1> HIDE DEF S, T, f, e
<1>10. /\ EnvironmentMemory(i) \in Nat
       /\ OtherMemory(i) \in Nat
       /\ EnvironmentMemory(i) <= OtherMemory(i)
  BY <1>4, <1>5, <1>6, <1>7, <1>8, SumOfPart
<1> QED
  BY <1>1, <1>2, <1>3, <1>9, <1>10, LifecycleAssumption

(* The steps of the process itself up to the start.                        *)
LEMMA PoolOwn ==
  ASSUME IInv, Specified, NEW p \in Procs, PoolHeld(p), Step(p) \/ User(p) \/ Fail(p)
  PROVE  PoolHeld(p)'
<1> USE DEF Goto, Applying, storeVars, podmanVars, localVars
<1>1. /\ pc \in [Procs -> Labels] /\ job \in [Procs -> Job] /\ plan \in [Procs -> Plan]
      /\ containers \in [Ids -> Container]
  BY DEF IInv, TypeOK, PodmanTypeOK
<1>2. ASSUME pc'[p] \notin Applying
      PROVE  PoolHeld(p)'
  BY <1>2 DEF PoolHeld
<1>3. ASSUME pc[p] \in Applying
      PROVE  plan[p].spec.memory \in Nat
  BY <1>3, StoreAssumption DEF IInv, JobInv, PlannedLabels, ManifestType
<1>4. ASSUME pc[p] \in Applying, plan'[p] = plan[p], job'[p] = job[p], containers' = containers
      PROVE  PoolHeld(p)'
  <2>1. \A i \in Ids : NoneStartsBut(i)
    BY <1>4 DEF NoneStartsBut, Running, IsRawRun
  <2> QED
    BY <1>3, <1>4, <2>1, PoolFrame
<1>5. CASE Activation(p)
  <2>1. CASE BuildPlan(p)
    BY <2>1, PlanWithinPool
  <2>2. CASE SkipProject(p) \/ AcquireProject(p) \/ EnforceProjectConcurrency(p)
             \/ PrepareResources(p) \/ UseContainer(p)
    BY <1>4, <2>2
       DEF SkipProject, AcquireProject, EnforceProjectConcurrency, PrepareResources, UseContainer
  <2>3. CASE Create(p)
    <3>1. pc[p] \in Applying /\ plan'[p] = plan[p] /\ job'[p] = job[p]
      BY <2>3 DEF Create
    <3>2. containers' = [containers EXCEPT ![plan[p].id] =
                           [status |-> "stopped", spec |-> plan[p].spec]]
      BY <2>3 DEF Create, CreateContainer
    <3>3. \A i \in Ids : plan[p].id = i => NoneStartsBut(i)
      BY <1>1, <3>2 DEF NoneStartsBut, Running, IsRawRun
    <3> QED
      BY <1>3, <3>1, <3>3, PoolFrame
  <2>4. CASE SkipStart(p) \/ Start(p) \/ Save(p) \/ ReleaseShared(p)
    BY <1>1, <1>2, <2>4 DEF SkipStart, Start, Save, ReleaseShared
  <2> QED
    BY <1>5, <2>1, <2>2, <2>3, <2>4 DEF Activation
<1>6. CASE ~Activation(p)
  <2>1. pc'[p] \notin Applying
    <3>1. CASE Registration(p)
      BY <1>1, <3>1
         DEF Registration, InitManifest, ReuseRecord, RegisterRecord, RegisterIndex, AfterRegister
    <3>2. CASE AcquireGlobal(p) \/ Load(p) \/ AcquireEnvironment(p) \/ RawRun(p)
      BY <1>1, <3>2 DEF AcquireGlobal, Load, AcquireEnvironment, RawRun
    <3>3. CASE SessionStop(p) \/ StopNothing(p) \/ Stop(p) \/ List(p) \/ StopEach(p)
               \/ StoppedAll(p) \/ Teardown(p)
      BY <1>1, <3>3 DEF SessionStop, StopNothing, Stop, List, StopEach, StoppedAll, Teardown
    <3>4. CASE Remove(p) \/ ClearRecord(p) \/ DeleteRead(p) \/ DeleteContainer(p)
      BY <1>1, <3>4 DEF Remove, AfterRemove, ClearRecord, DeleteRead, DeleteContainer
    <3>5. CASE DeleteNetwork(p) \/ DeleteManifest(p) \/ PurgeHome(p) \/ Forget(p)
      BY <1>1, <3>5 DEF DeleteNetwork, DeleteManifest, PurgeHome, Forget
    <3>6. CASE Refuse(p) \/ Return(p) \/ Fail(p)
      BY <1>1, <3>6 DEF Refuse, Return, Fail, Leave
    <3>7. CASE User(p)
      BY <1>1, <3>7 DEF User, Invoke, EndSession, EndRawRun
    <3> QED
      BY <1>6, <3>1, <3>2, <3>3, <3>4, <3>5, <3>6, <3>7 DEF Step, Removal
  <2> QED
    BY <1>2, <2>1
<1> QED
  BY <1>5, <1>6

(* Nor do the others start anything while p has the global lock.           *)
LEMMA PoolOthers ==
  ASSUME IInv, Specified, NEW p \in Procs, PoolHeld(p),
         NEW q \in Procs \ {p}, Step(q) \/ User(q) \/ Fail(q)
  PROVE  PoolHeld(p)'
<1>1. pc'[p] = pc[p] /\ plan'[p] = plan[p] /\ job'[p] = job[p]
  BY OthersLeaveLocals
<1>2. SUFFICES ASSUME pc[p] \in Applying PROVE PoolHeld(p)'
  BY <1>1 DEF PoolHeld
<1>3. globalLock = p /\ plan[p].spec.memory \in Nat
  BY <1>2, StoreAssumption
     DEF Applying, IInv, LockDiscipline, GlobalLabels, PlanningLabels, PlannedLabels, JobInv,
         ManifestType
<1>4. ASSUME NEW j \in Ids, Running(j)', ~IsRawRun(j)'
      PROVE  Running(j) /\ ~IsRawRun(j) /\ containers'[j].spec = containers[j].spec
  <2>1. Running(j) /\ ~IsRawRun(j)
    BY <1>3, <1>4, OthersStartNothing
  <2>2. ~(Create(q) /\ plan[q].id = j)
    BY <2>1 DEF Create, CanCreate, Running, Exists
  <2>3. Exists(j)'
    BY <1>4 DEF Running, Exists
  <2> QED
    BY <1>4, <2>1, <2>2, <2>3, ContainerStep DEF MadeNothing
<1>5. \A i \in Ids : NoneStartsBut(i)
  BY <1>4 DEF NoneStartsBut
<1> QED
  BY <1>1, <1>2, <1>3, <1>5, PoolFrame

LEMMA PoolEnvironment ==
  ASSUME IInv, Specified, NEW p \in Procs, PoolHeld(p), Environment
  PROVE  PoolHeld(p)'
<1>1. pc' = pc /\ plan' = plan /\ job' = job
  BY DEF Environment, ContainerExits, EditManifest, localVars
<1>2. SUFFICES ASSUME pc[p] \in Applying PROVE PoolHeld(p)'
  BY <1>1 DEF PoolHeld
<1>3. plan[p].spec.memory \in Nat
  BY <1>2, StoreAssumption DEF Applying, IInv, PlannedLabels, JobInv, ManifestType
<1>4. containers' = containers \/ \E i \in Ids : Exists(i) /\ StopContainer(i)
  BY DEF Environment, ContainerExits, EditManifest, Running, Exists, podmanVars
<1>5. \A j \in Ids : Running(j)' =>
        Running(j) /\ containers'[j].spec = containers[j].spec
  <2>1. PodmanTypeOK
    BY DEF IInv, TypeOK
  <2>2. \A j \in Ids : Running(j)' => Exists(j)'
    BY DEF Running, Exists
  <2> QED
    BY <1>4, <2>1, <2>2, StopEffect DEF Running
<1>6. \A i \in Ids : NoneStartsBut(i)
  BY <1>5 DEF NoneStartsBut, IsRawRun
<1> QED
  BY <1>1, <1>2, <1>3, <1>6, PoolFrame

LEMMA PoolStep ==
  ASSUME IInv, PoolInv, [Next]_vars
  PROVE  PoolInv'
<1>1. Specified'
  BY SpecifiedStep DEF PoolInv
<1>2. ASSUME NEW p \in Procs
      PROVE  PoolHeld(p)'
  <2>1. ASSUME NEW q \in Procs, Step(q) \/ User(q) \/ Fail(q)
        PROVE  PoolHeld(p)'
    BY <2>1, PoolOwn, PoolOthers DEF PoolInv
  <2>2. CASE Environment
    BY <2>2, PoolEnvironment DEF PoolInv
  <2>3. CASE UNCHANGED vars
    BY <2>3
       DEF PoolInv, PoolHeld, vars, localVars, podmanVars, EnvironmentMemory, MemoryOf,
           RunningIds, Running, IsRawRun
  <2> QED
    BY <2>1, <2>2, <2>3 DEF Next
<1> QED
  BY <1>1, <1>2 DEF PoolInv

THEOREM PoolInvariant == Spec => []PoolInv
<1>1. Init => PoolInv
  BY DEF Init, PoolInv, PoolHeld, Applying, Specified, PodmanInit, NoContainer, Exists
<1>2. IInv /\ PoolInv /\ [Next]_vars => PoolInv'
  BY PoolStep
<1> QED
  BY <1>1, <1>2, InductiveInvariant, PTL DEF Spec

(* A start that is not allowed to overcommit leaves the running            *)
(* environments within the pool: StartWithinPool.                          *)
THEOREM StartKeepsPool == Spec => StartWithinPool
<1>1. ASSUME IInv, PoolInv, Next, NEW p \in Procs, NEW i \in Ids, Starts(p, i), ~job[p].overcommit
      PROVE  EnvironmentMemory(i) + containers[i].spec.memory <= PoolMemory
  <2>1. Start(p) /\ i = plan[p].id
    BY <1>1, StartsByStart DEF IInv, WorkInv
  <2>2. pc[p] \in Applying /\ pc[p] = "start" /\ Exists(i)
    BY <2>1 DEF Start, Applying
  <2>3. containers[i].spec = plan[p].spec
    BY <1>1, <2>1, <2>2 DEF IInv, PlanInv, SpecAsPlanned
  <2> QED
    BY <1>1, <2>1, <2>2, <2>3 DEF PoolInv, PoolHeld
<1>2. IInv /\ PoolInv /\ [Next]_vars =>
        [\A p \in Procs, i \in Ids :
           Starts(p, i) /\ ~job[p].overcommit =>
             EnvironmentMemory(i) + containers[i].spec.memory <= PoolMemory]_vars
  BY <1>1
<1> QED
  BY <1>2, InductiveInvariant, PoolInvariant, PTL DEF Spec, StartWithinPool

-----------------------------------------------------------------------------
(* Where nobody may overcommit, nothing but raw runs takes the running     *)
(* containers beyond the pool.                                             *)
EnvironmentsWithinPool == TRUE \notin Overcommits => MemoryOf(RunningEnvironments) <= PoolMemory

HeldToPool == TRUE \notin Overcommits => \A p \in Procs : ~job[p].overcommit

LEMMA HeldToPoolStep ==
  ASSUME TypeOK, HeldToPool, [Next]_vars
  PROVE  HeldToPool'
<1> SUFFICES ASSUME TRUE \notin Overcommits, NEW p \in Procs
             PROVE  ~job'[p].overcommit
  BY DEF HeldToPool
<1> USE DEF localVars
<1>1. job \in [Procs -> Job] /\ ~job[p].overcommit
  BY DEF TypeOK, HeldToPool
<1>2. ASSUME NEW q \in Procs, Invoke(q)
      PROVE  ~job'[p].overcommit
  <2>1. PICK c \in Commands, n \in Names \cup {NoName}, over \in Overcommits \cup {FALSE},
             purge \in Purges \cup {FALSE} :
          job' = [job EXCEPT ![q] = [cmd |-> c, name |-> n, overcommit |-> over, purge |-> purge]]
    BY <1>2 DEF Invoke
  <2>2. over = FALSE
    BY LifecycleAssumption
  <2> QED
    BY <1>1, <2>1, <2>2
<1>3. ASSUME NEW q \in Procs, Leave(q)
      PROVE  ~job'[p].overcommit
  BY <1>1, <1>3 DEF Leave, NoJob
<1> QED
  BY <1>1, <1>2, <1>3, JobChange

(* Where nothing starts, the memory of the running environments shrinks.   *)
LEMMA RunningShrinks ==
  ASSUME Specified, MemoryOf(RunningEnvironments) <= PoolMemory,
         \A j \in Ids : Running(j)' /\ ~IsRawRun(j)' =>
           Running(j) /\ ~IsRawRun(j) /\ containers'[j].spec = containers[j].spec
  PROVE  MemoryOf(RunningEnvironments)' <= PoolMemory
<1> DEFINE S == RunningEnvironments
           T == RunningEnvironments'
           f == [j \in S |-> containers[j].spec.memory]
           e == [j \in T |-> containers'[j].spec.memory]
<1>1. T \in SUBSET S /\ \A j \in T : containers'[j].spec = containers[j].spec
  BY DEF RunningEnvironments, RunningIds
<1>2. IsFiniteSet(S)
  BY FiniteIdsAssumption, FS_Subset DEF RunningEnvironments, RunningIds
<1>3. f \in [S -> Nat]
  BY MemoryType DEF RunningEnvironments, RunningIds
<1>4. e \in [T -> Nat] /\ \A j \in T : e[j] = f[j]
  BY <1>1, <1>3
<1>5. MemoryOf(RunningEnvironments) = SumFunctionOnSet(f, S)
  BY DEF MemoryOf
<1>6. MemoryOf(RunningEnvironments)' = SumFunctionOnSet(e, T)
  BY DEF MemoryOf
<1> HIDE DEF S, T, f, e
<1>7. /\ SumFunctionOnSet(e, T) \in Nat
      /\ SumFunctionOnSet(f, S) \in Nat
      /\ SumFunctionOnSet(e, T) <= SumFunctionOnSet(f, S)
  BY <1>1, <1>2, <1>3, <1>4, SumOfPart
<1> QED
  BY <1>5, <1>6, <1>7, LifecycleAssumption

(* What runs after a start is the started container and others that ran.   *)
LEMMA StartWithRoom ==
  ASSUME Specified, Specified', NEW i \in Ids, NoneStartsBut(i), Running(i)', ~IsRawRun(i)',
         EnvironmentMemory(i) + containers'[i].spec.memory <= PoolMemory
  PROVE  MemoryOf(RunningEnvironments)' <= PoolMemory
<1> DEFINE S == RunningEnvironments'
           f == [j \in S |-> containers'[j].spec.memory]
           e == [j \in S \ {i} |-> containers'[j].spec.memory]
<1>1. IsFiniteSet(S)
  BY FiniteIdsAssumption, FS_Subset DEF RunningEnvironments, RunningIds
<1>2. f \in [S -> Nat]
  BY StoreAssumption DEF RunningEnvironments, RunningIds, Specified, Running, Exists, ManifestType
<1>3. i \in S /\ e \in [S \ {i} -> Nat] /\ \A j \in S \ {i} : e[j] = f[j]
  BY <1>2 DEF RunningEnvironments, RunningIds
<1>4. MemoryOf(RunningEnvironments)' = SumFunctionOnSet(f, S)
  BY DEF MemoryOf
<1>5. EnvironmentMemory(i)' = SumFunctionOnSet(e, S \ {i})
  <2>1. {j \in RunningIds' \ {i} : ~IsRawRun(j)'} = S \ {i}
    BY DEF RunningEnvironments
  <2> QED
    BY <2>1 DEF EnvironmentMemory, MemoryOf
<1>6. f[i] = containers'[i].spec.memory /\ f[i] \in Nat
  BY <1>2, <1>3
<1> HIDE DEF S, f, e
<1>7. MemoryOf(RunningEnvironments)' = f[i] + EnvironmentMemory(i)'
  BY <1>1, <1>2, <1>3, <1>4, <1>5, SumWithout
<1>8. /\ EnvironmentMemory(i) \in Nat
      /\ EnvironmentMemory(i)' \in Nat
      /\ EnvironmentMemory(i)' <= EnvironmentMemory(i)
  BY MemoryShrinks
<1> QED
  BY <1>6, <1>7, <1>8, LifecycleAssumption

LEMMA WithinPoolStep ==
  ASSUME IInv, IInv', PoolInv, PoolInv', HeldToPool, EnvironmentsWithinPool, [Next]_vars
  PROVE  EnvironmentsWithinPool'
<1> SUFFICES ASSUME TRUE \notin Overcommits
             PROVE  MemoryOf(RunningEnvironments)' <= PoolMemory
  BY DEF EnvironmentsWithinPool
<1>1. MemoryOf(RunningEnvironments) <= PoolMemory /\ Specified /\ Specified'
  BY DEF EnvironmentsWithinPool, PoolInv
<1>2. ASSUME \A j \in Ids : Running(j)' /\ ~IsRawRun(j)' =>
               Running(j) /\ ~IsRawRun(j) /\ containers'[j].spec = containers[j].spec
      PROVE  MemoryOf(RunningEnvironments)' <= PoolMemory
  BY <1>1, <1>2, RunningShrinks
<1>3. ASSUME NEW q \in Procs, Step(q) \/ User(q) \/ Fail(q), NEW j \in Ids,
             Running(j)', ~IsRawRun(j)', ~(Start(q) /\ j = plan[q].id)
      PROVE  Running(j) /\ ~IsRawRun(j) /\ containers'[j].spec = containers[j].spec
  <2>1. Running(j)
    BY <1>3, RunsByStart DEF IInv, WorkInv
  <2>2. ~(Create(q) /\ plan[q].id = j)
    BY <2>1 DEF Create, CanCreate, Running, Exists
  <2>3. Exists(j)'
    BY <1>3 DEF Running, Exists
  <2> QED
    BY <1>3, <2>1, <2>2, <2>3, ContainerStep DEF MadeNothing, IsRawRun
<1>4. ASSUME NEW q \in Procs, Start(q)
      PROVE  MemoryOf(RunningEnvironments)' <= PoolMemory
  <2>0. PICK i \in Ids : i = plan[q].id
    BY <1>4 DEF Start, IInv, JobInv, PlannedLabels
  <2>1. /\ pc[q] = "start" /\ Exists(i)
        /\ containers' = [containers EXCEPT ![i].status = "running"]
    BY <1>4, <2>0 DEF Start, StartContainer
  <2>2. containers \in [Ids -> Container]
    BY DEF IInv, TypeOK, PodmanTypeOK
  <2>3. containers[i].spec = plan[q].spec /\ plan[q].spec \in Manifests
    BY <2>0, <2>1 DEF IInv, PlanInv, SpecAsPlanned, JobInv, PlannedLabels
  <2>4. containers'[i].spec = plan[q].spec /\ Running(i)' /\ ~IsRawRun(i)'
    BY <2>1, <2>2, <2>3, StoreAssumption DEF Running, IsRawRun, Container
  <2>5. ~job[q].overcommit
    BY DEF HeldToPool
  <2>6. EnvironmentMemory(i) + containers'[i].spec.memory <= PoolMemory
    BY <2>0, <2>1, <2>4, <2>5 DEF PoolInv, PoolHeld, Applying
  <2>7. NoneStartsBut(i)
    BY <1>3, <1>4, <2>0 DEF NoneStartsBut, Step, Activation
  <2> QED
    BY <1>1, <2>1, <2>4, <2>6, <2>7, StartWithRoom
<1>5. ASSUME NEW q \in Procs, Step(q) \/ User(q) \/ Fail(q), ~Start(q)
      PROVE  MemoryOf(RunningEnvironments)' <= PoolMemory
  BY <1>2, <1>3, <1>5
<1>6. CASE Environment
  <2>1. PodmanTypeOK
    BY DEF IInv, TypeOK
  <2>2. containers' = containers \/ \E i \in Ids : Exists(i) /\ StopContainer(i)
    BY <1>6 DEF Environment, ContainerExits, EditManifest, Running, Exists, podmanVars
  <2>3. \A j \in Ids : Running(j)' => Exists(j)'
    BY DEF Running, Exists
  <2>4. \A j \in Ids : Running(j)' => Running(j) /\ containers'[j].spec = containers[j].spec
    BY <2>1, <2>2, <2>3, StopEffect DEF Running
  <2> QED
    BY <1>2, <2>4 DEF IsRawRun
<1>7. CASE UNCHANGED vars
  BY <1>2, <1>7 DEF vars, podmanVars, Running, IsRawRun
<1> QED
  BY <1>4, <1>5, <1>6, <1>7 DEF Next

(* Where --allow-overcommit is never given, the running environments are   *)
(* within the pool at all times.                                           *)
THEOREM PoolKept == Spec => []EnvironmentsWithinPool
<1>1. Init => HeldToPool /\ EnvironmentsWithinPool
  <2> SUFFICES ASSUME Init PROVE HeldToPool /\ EnvironmentsWithinPool
    OBVIOUS
  <2>1. HeldToPool
    BY DEF Init, HeldToPool, NoJob
  <2>2. RunningEnvironments = {}
    BY DEF Init, PodmanInit, NoContainer, RunningEnvironments, RunningIds, Running
  <2>3. MemoryOf(RunningEnvironments) = 0
    <3> DEFINE R == RunningEnvironments
               f == [i \in R |-> containers[i].spec.memory]
    <3>1. MemoryOf(RunningEnvironments) = SumFunctionOnSet(f, R)
      BY DEF MemoryOf
    <3>2. R = {} /\ IsFiniteSet(R)
      BY <2>2, FS_EmptySet
    <3> HIDE DEF f, R
    <3>3. PICK g : Sums(g, f, R) /\ SumFunctionOnSet(f, R) = g[R]
      BY <3>2, SumIsSum
    <3>4. g[{}] = 0
      BY <3>3, SumsValue
    <3> QED
      BY <3>1, <3>2, <3>3, <3>4
  <2>4. PoolMemory \in Nat
    BY LifecycleAssumption
  <2>5. EnvironmentsWithinPool
    BY <2>3, <2>4 DEF EnvironmentsWithinPool
  <2> QED
    BY <2>1, <2>5
<1>2. IInv /\ HeldToPool /\ [Next]_vars => HeldToPool'
  BY HeldToPoolStep DEF IInv
<1>3. /\ IInv /\ PoolInv /\ HeldToPool /\ EnvironmentsWithinPool /\ [Next]_vars
      /\ IInv' /\ PoolInv'
      => EnvironmentsWithinPool'
  BY WithinPoolStep
<1> QED
  BY <1>1, <1>2, <1>3, InductiveInvariant, PoolInvariant, PTL DEF Spec

===============================================================================
