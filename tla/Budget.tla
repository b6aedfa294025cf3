-------------------------------- MODULE Budget --------------------------------
(***************************************************************************)
(* The resource budget of an environment (internal/resources/budget.go)    *)
(* with the widths of the code: bytes are int64.  Calculate is the         *)
(* relation IsBudget: an input it refuses has no budget.                   *)
(*                                                                         *)
(* The shares are products in float64, cut or rounded up afterwards, and   *)
(* may be one unit off the exact ones; CPUs are counted in tenths.         *)
(***************************************************************************)
EXTENDS Integers

MiB == 1048576
GiB == 1073741824
EiB == 1073741824 * 1073741824

MaxInt64 == 8 * EiB - 1

Int64 == (-MaxInt64 - 1)..MaxInt64

Least(a, b) == IF a < b THEN a ELSE b
Greatest(a, b) == IF a > b THEN a ELSE b

Class == {"battery", "balanced", "performance", "custom"}

MemoryShare ==  \* percent of the pool
  [battery |-> 45, balanced |-> 65, performance |-> 85]
MemoryCap ==
  [battery |-> 6 * GiB, balanced |-> 12 * GiB, performance |-> 20 * GiB]
CPUShare ==     \* percent of the logical CPUs
  [battery |-> 35, balanced |-> 55, performance |-> 80]
CPUCap ==       \* tenths of a CPU
  [battery |-> 40, balanced |-> 80, performance |-> 120]

Host == [memory : Int64, cpus : Int]

(* What a manifest overrides, zero where it does not.                      *)
Overrides == [memoryMiB : Nat, swapMiB : Nat, cpus : Nat, pids : Nat, shmMiB : Nat]
Minimum == [memoryMiB : Nat, cpus : Nat, pids : Nat, shmMiB : Nat]

BudgetType == [pool : Int64, memory : Int64, swap : Int64, cpus : Nat, pids : Nat, shm : Int64]

-----------------------------------------------------------------------------
Reserve(total) ==
  IF total < 8 * GiB THEN total \div 2 ELSE Greatest(4 * GiB, total \div 4)

Pool(total) == total - Reserve(total)

(* mibToBytes refuses what would not fit.                                  *)
Fits(mib) == mib <= MaxInt64 \div MiB
Bytes(mib) == mib * MiB

ShareOfMemory(class, pool) ==
  LET exact == (pool * MemoryShare[class]) \div 100
  IN  {Least(m, MemoryCap[class]) : m \in exact - 1..exact + 1}

ShareOfCPUs(class, cpus) ==
  LET exact == (cpus * CPUShare[class] + 9) \div 10
  IN  {Least(Greatest(10, c), CPUCap[class]) : c \in exact..exact + 1}

IsMemory(m, class, overrides, pool) ==
  \/ overrides.memoryMiB > 0 /\ Fits(overrides.memoryMiB) /\ m = Bytes(overrides.memoryMiB)
  \/ overrides.memoryMiB = 0 /\ class # "custom" /\ m \in ShareOfMemory(class, pool)

IsCPUs(c, class, overrides, cpus) ==
  \/ overrides.cpus > 0 /\ c = overrides.cpus
  \/ overrides.cpus = 0 /\ class # "custom" /\ c \in ShareOfCPUs(class, cpus)

DefaultPIDs(class) == IF class = "battery" THEN 1024 ELSE 2048
DefaultSHM(class) == IF class = "battery" THEN 256 * MiB ELSE 512 * MiB

RequestedPIDs(class, overrides) ==
  IF overrides.pids > 0 THEN overrides.pids ELSE DefaultPIDs(class)
RequestedSHM(class, overrides) ==
  IF overrides.shmMiB > 0 THEN Bytes(overrides.shmMiB) ELSE DefaultSHM(class)

(* The combined ceiling of memory and swap.                                *)
IsSwap(s, memory, overrides) ==
  /\ memory <= MaxInt64 - memory \div 4
  /\ \/ overrides.swapMiB = 0 /\ s = memory + memory \div 4
     \/ overrides.swapMiB > 0 /\ Fits(overrides.swapMiB) /\ s = Bytes(overrides.swapMiB)
  /\ s >= memory

IsBudget(b, class, overrides, minimum, host) ==
  /\ host.memory > 0
  /\ host.cpus > 0
  /\ b.pool = Pool(host.memory)
  /\ b.pool >= 512 * MiB
  /\ class \in Class
  /\ IsMemory(b.memory, class, overrides, b.pool)
  /\ IsCPUs(b.cpus, class, overrides, host.cpus)
  /\ b.memory <= b.pool
  /\ b.cpus <= 10 * host.cpus
  /\ Fits(minimum.memoryMiB) /\ b.memory >= Bytes(minimum.memoryMiB)
  /\ b.cpus >= minimum.cpus
  /\ b.pids = Greatest(RequestedPIDs(class, overrides), minimum.pids)
  /\ Fits(overrides.shmMiB) /\ Fits(minimum.shmMiB)
  /\ b.shm = Greatest(RequestedSHM(class, overrides), Bytes(minimum.shmMiB))
  /\ IsSwap(b.swap, b.memory, overrides)

(* CheckAggregate subtracts, so that no sum can overflow.                  *)
CheckAggregate(pool, running, requested) ==
  /\ pool >= 0 /\ running >= 0 /\ requested >= 0
  /\ running <= pool
  /\ requested <= pool - running
=============================================================================
