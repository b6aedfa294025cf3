----------------------------- MODULE BudgetProofs -----------------------------
(***************************************************************************)
(* What Calculate and CheckAggregate guarantee, for every input.           *)
(***************************************************************************)
EXTENDS Budget, TLAPS

LEMMA MaxInt64Size == MaxInt64 \in Nat /\ MaxInt64 >= 64 * GiB
<1>1. EiB \in Nat /\ EiB >= 64 * GiB
  BY SMT DEF EiB, GiB
<1> QED
  BY <1>1, SMT DEF MaxInt64, GiB

(* A conversion that is not refused is exact and fits an int64.            *)
LEMMA BytesFit ==
  ASSUME NEW mib \in Nat, Fits(mib)
  PROVE  Bytes(mib) \in 0..MaxInt64
<1>1. (MaxInt64 \div MiB) * MiB <= MaxInt64 /\ MaxInt64 \div MiB \in Nat
  BY MaxInt64Size, SMT DEF MiB
<1> QED
  BY <1>1, MaxInt64Size, SMT DEF Fits, Bytes, MiB

(* The host keeps at least 4 GiB, or half of its memory if it has less     *)
(* than 8 GiB, and at least a quarter.                                     *)
THEOREM HostKeepsReserve ==
  ASSUME NEW total \in 1..MaxInt64
  PROVE  /\ Pool(total) \in 0..total
         /\ total - Pool(total) >= Least(4 * GiB, total \div 2)
         /\ 4 * (total - Pool(total)) >= total - 3
BY SMT DEF Pool, Reserve, Greatest, Least, GiB

LEMMA ShareWithinPool ==
  ASSUME NEW class \in Class \ {"custom"}, NEW pool \in 100..MaxInt64,
         NEW m \in ShareOfMemory(class, pool)
  PROVE  m \in 1..pool
<1>1. PICK s \in {45, 65, 85} :
        /\ MemoryShare[class] = s
        /\ MemoryCap[class] \in {6 * GiB, 12 * GiB, 20 * GiB}
  BY SMT DEF Class, MemoryShare, MemoryCap
<1>2. PICK n \in (pool * s) \div 100 - 1..(pool * s) \div 100 + 1 :
        m = Least(n, MemoryCap[class])
  BY <1>1 DEF ShareOfMemory
<1>3. /\ (pool * s) \div 100 \in 45..pool - 1
      /\ n \in 1..pool
  BY <1>1, <1>2, SMT
<1> QED
  BY <1>1, <1>2, <1>3, SMT DEF Least, GiB

(* Whatever the manifest overrides and the profile asks for, a budget that *)
(* is granted lies within the pool and the host, gives the profile its     *)
(* minimum, and none of its sizes has overflowed.                          *)
THEOREM BudgetSound ==
  ASSUME NEW class, NEW overrides \in Overrides, NEW minimum \in Minimum,
         NEW host \in Host, NEW b,
         IsBudget(b, class, overrides, minimum, host)
  PROVE  /\ b.memory \in 0..b.pool /\ b.pool <= host.memory
         /\ b.memory <= b.swap /\ b.swap <= MaxInt64
         /\ b.shm \in 0..MaxInt64
         /\ b.cpus <= 10 * host.cpus
         /\ b.memory >= Bytes(minimum.memoryMiB)
         /\ b.cpus >= minimum.cpus
         /\ b.pids >= minimum.pids
         /\ b.shm >= Bytes(minimum.shmMiB)
<1> USE DEF Overrides, Minimum, Host, Int64
<1>1. host.memory \in 1..MaxInt64 /\ b.pool = Pool(host.memory) /\ b.pool >= 512 * MiB
  BY DEF IsBudget
<1>2. b.pool \in 100..host.memory
  BY <1>1, HostKeepsReserve, SMT DEF MiB
<1>3. b.memory \in 0..b.pool
  <2>1. CASE overrides.memoryMiB > 0
    BY <2>1, BytesFit, SMT DEF IsBudget, IsMemory
  <2>2. CASE overrides.memoryMiB = 0
    <3>1. class \in Class \ {"custom"} /\ b.memory \in ShareOfMemory(class, b.pool)
      BY <2>2, SMT DEF IsBudget, IsMemory
    <3>2. b.pool \in 100..MaxInt64
      BY <1>1, <1>2, MaxInt64Size, SMT
    <3>3. b.memory \in 1..b.pool
      BY <3>1, <3>2, ShareWithinPool
    <3> QED
      BY <1>2, <3>3, SMT
  <2> QED
    BY <2>1, <2>2
<1>4. b.memory <= b.swap /\ b.swap <= MaxInt64
  <2>1. IsSwap(b.swap, b.memory, overrides)
    BY DEF IsBudget
  <2>2. CASE overrides.swapMiB = 0
    BY <1>1, <1>2, <1>3, <2>1, <2>2, MaxInt64Size, SMT DEF IsSwap
  <2>3. CASE overrides.swapMiB > 0
    BY <1>3, <2>1, <2>3, BytesFit, SMT DEF IsSwap
  <2> QED
    BY <2>2, <2>3
<1>5. b.shm \in 0..MaxInt64 /\ b.shm >= Bytes(minimum.shmMiB)
  <2>1. RequestedSHM(class, overrides) \in 0..MaxInt64
    <3>1. DefaultSHM(class) \in 0..MaxInt64
      BY MaxInt64Size, SMT DEF DefaultSHM, MiB, GiB
    <3>2. overrides.shmMiB \in Nat /\ Fits(overrides.shmMiB)
      BY DEF IsBudget
    <3>3. Bytes(overrides.shmMiB) \in 0..MaxInt64
      BY <3>2, BytesFit
    <3> QED
      BY <3>1, <3>3 DEF RequestedSHM
  <2>2. Bytes(minimum.shmMiB) \in 0..MaxInt64
    BY BytesFit DEF IsBudget
  <2>3. b.shm = Greatest(RequestedSHM(class, overrides), Bytes(minimum.shmMiB))
    BY DEF IsBudget
  <2> QED
    BY <2>1, <2>2, <2>3, SMT DEF Greatest
<1>6. b.pids >= minimum.pids
  <2>1. RequestedPIDs(class, overrides) \in Nat
    BY DEF RequestedPIDs, DefaultPIDs
  <2>2. b.pids = Greatest(RequestedPIDs(class, overrides), minimum.pids)
    BY DEF IsBudget
  <2> QED
    BY <2>1, <2>2, SMT DEF Greatest
<1> QED
  BY <1>2, <1>3, <1>4, <1>5, <1>6, SMT DEF IsBudget

(* On a host that leaves the pool 512 MiB each class but custom has a      *)
(* budget: without overrides and minimums none of the refusals of          *)
(* Calculate applies.                                                      *)
THEOREM ClassesGranted ==
  ASSUME NEW class \in Class \ {"custom"}, NEW host \in Host,
         host.memory > 0, host.cpus > 0, Pool(host.memory) >= 512 * MiB,
         NEW overrides \in Overrides, NEW minimum \in Minimum,
         overrides = [memoryMiB |-> 0, swapMiB |-> 0, cpus |-> 0, pids |-> 0, shmMiB |-> 0],
         minimum = [memoryMiB |-> 0, cpus |-> 0, pids |-> 0, shmMiB |-> 0]
  PROVE  \E b \in BudgetType : IsBudget(b, class, overrides, minimum, host)
<1> DEFINE pool == Pool(host.memory)
           memory == Least((pool * MemoryShare[class]) \div 100, MemoryCap[class])
           cpus == Least(Greatest(10, (host.cpus * CPUShare[class] + 9) \div 10), CPUCap[class])
           b == [pool |-> pool, memory |-> memory, swap |-> memory + memory \div 4,
                 cpus |-> cpus, pids |-> DefaultPIDs(class), shm |-> DefaultSHM(class)]
<1>1. host.memory \in 1..MaxInt64 /\ pool \in 512 * MiB..host.memory
  BY HostKeepsReserve, SMT DEF Host, Int64, MiB
<1>2. PICK s \in {45, 65, 85} :
        /\ MemoryShare[class] = s
        /\ MemoryCap[class] \in {6 * GiB, 12 * GiB, 20 * GiB}
  BY SMT DEF Class, MemoryShare, MemoryCap
<1>3. memory \in ShareOfMemory(class, pool)
  <2>1. (pool * s) \div 100 \in Int
    BY <1>1, <1>2, SMT DEF MiB
  <2> HIDE DEF pool
  <2> QED
    BY <1>2, <2>1, SMT DEF ShareOfMemory
<1>4. memory \in 1..pool /\ memory <= 20 * GiB
  <2>1. memory \in 1..pool
    BY <1>1, <1>3, ShareWithinPool, MaxInt64Size, SMT DEF MiB
  <2>2. (pool * s) \div 100 \in Int
    BY <1>1, <1>2, SMT DEF MiB
  <2> HIDE DEF pool
  <2> QED
    BY <1>2, <2>1, <2>2, SMT DEF Least, GiB
<1>5. cpus \in ShareOfCPUs(class, host.cpus) /\ cpus \in 1..10 * host.cpus
  BY SMT DEF Class, ShareOfCPUs, CPUShare, CPUCap, Least, Greatest, Host
<1>6. IsSwap(memory + memory \div 4, memory, overrides)
  <2> HIDE DEF memory
  <2> QED
    BY <1>4, MaxInt64Size, SMT DEF IsSwap, GiB
<1>7. b \in BudgetType
  <2> HIDE DEF pool, memory, cpus
  <2> QED
    BY <1>1, <1>4, <1>5, MaxInt64Size, SMT DEF BudgetType, Int64, GiB, DefaultPIDs, DefaultSHM, MiB
<1>8. IsBudget(b, class, overrides, minimum, host)
  <2> HIDE DEF memory, cpus
  <2>1. /\ IsMemory(memory, class, overrides, pool)
        /\ IsCPUs(cpus, class, overrides, host.cpus)
    BY <1>3, <1>5, SMT DEF IsMemory, IsCPUs
  <2>2. /\ Fits(0) /\ Bytes(0) = 0
        /\ DefaultPIDs(class) = Greatest(RequestedPIDs(class, overrides), minimum.pids)
        /\ DefaultSHM(class) = Greatest(RequestedSHM(class, overrides), 0)
    BY MaxInt64Size, SMT DEF Fits, Bytes, MiB, Greatest, RequestedPIDs, RequestedSHM,
               DefaultPIDs, DefaultSHM
  <2>3. /\ minimum.memoryMiB = 0 /\ minimum.cpus = 0 /\ minimum.shmMiB = 0
        /\ overrides.shmMiB = 0
    OBVIOUS
  <2> HIDE DEF pool
  <2>4. /\ memory <= pool /\ memory >= 0 /\ cpus <= 10 * host.cpus /\ cpus >= 0
        /\ pool >= 512 * MiB
    BY <1>1, <1>4, <1>5, SMT DEF MiB, Host
  <2>5. /\ b.pool = pool /\ b.memory = memory /\ b.swap = memory + memory \div 4
        /\ b.cpus = cpus /\ b.pids = DefaultPIDs(class) /\ b.shm = DefaultSHM(class)
    OBVIOUS
  <2>6. class \in Class
    OBVIOUS
  <2> HIDE DEF b
  <2>7. pool = Pool(host.memory)
    BY DEF pool
  <2>8. b.pool = Pool(host.memory) /\ b.pool >= 512 * MiB
    BY <2>4, <2>5, <2>7
  <2>9. /\ IsMemory(b.memory, class, overrides, b.pool)
        /\ IsCPUs(b.cpus, class, overrides, host.cpus)
        /\ IsSwap(b.swap, b.memory, overrides)
    BY <1>6, <2>1, <2>5, Zenon
  <2>10. b.memory <= b.pool /\ b.cpus <= 10 * host.cpus
    BY <2>4, <2>5
  <2>11. /\ Fits(minimum.memoryMiB) /\ b.memory >= Bytes(minimum.memoryMiB)
         /\ b.cpus >= minimum.cpus
    BY <2>2, <2>3, <2>4, <2>5
  <2>12. /\ b.pids = Greatest(RequestedPIDs(class, overrides), minimum.pids)
         /\ Fits(overrides.shmMiB) /\ Fits(minimum.shmMiB)
         /\ b.shm = Greatest(RequestedSHM(class, overrides), Bytes(minimum.shmMiB))
    BY <2>2, <2>3, <2>5
  <2> QED
    BY <2>6, <2>8, <2>9, <2>10, <2>11, <2>12, Zenon DEF IsBudget
<1> QED
  BY <1>7, <1>8

(* CheckAggregate admits exactly what fits the pool beside the running     *)
(* environments, and its subtraction stays within int64.                   *)
THEOREM AggregateExact ==
  ASSUME NEW pool \in Int64, NEW running \in Int64, NEW requested \in Int64
  PROVE  /\ CheckAggregate(pool, running, requested) <=>
              running >= 0 /\ requested >= 0 /\ running + requested <= pool
         /\ pool >= 0 /\ running >= 0 => pool - running \in Int64
BY MaxInt64Size, SMT DEF CheckAggregate, Int64
=============================================================================
