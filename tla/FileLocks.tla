------------------------------ MODULE FileLocks ------------------------------
(***************************************************************************)
(* The lock files of internal/locks as the commands use them: one global   *)
(* lock file, one lifecycle lock file per environment UUID, and one lock   *)
(* file per project path hash (internal/state/paths.go).                   *)
(*                                                                         *)
(* Acquire never waits: it either takes the exclusive flock or fails with  *)
(* BusyError, and the command that called it returns the error.  The       *)
(* kernel drops the flocks of a process that ends, however it ends.        *)
(***************************************************************************)
EXTENDS StateStore

CONSTANTS
  Procs,  \* the cagent processes
  NoProc  \* the holder of a free lock

ASSUME NoProcAssumption == NoProc \notin Procs

VARIABLES
  globalLock,  \* who holds STATE/global.lock
  envLock,     \* UUID -> who holds its lifecycle.lock
  projectLock  \* project -> who holds project-locks/HASH.lock

lockVars == <<globalLock, envLock, projectLock>>

Holder == Procs \cup {NoProc}

LocksTypeOK ==
  /\ globalLock \in Holder
  /\ envLock \in [Ids -> Holder]
  /\ projectLock \in [Projects -> Holder]

LocksInit ==
  /\ globalLock = NoProc
  /\ envLock = [i \in Ids |-> NoProc]
  /\ projectLock = [j \in Projects |-> NoProc]

-----------------------------------------------------------------------------
(* Mutant: the lock is granted while another process holds it.             *)
AcquireGlobalLock_Shared(p) ==
  /\ globalLock' = p
  /\ UNCHANGED <<envLock, projectLock>>

AcquireGlobalLock(p) ==
  /\ globalLock = NoProc
  /\ globalLock' = p
  /\ UNCHANGED <<envLock, projectLock>>

(* Mutant: the lock is granted while another process holds it.             *)
AcquireEnvironmentLock_Shared(p, i) ==
  /\ envLock' = [envLock EXCEPT ![i] = p]
  /\ UNCHANGED <<globalLock, projectLock>>

AcquireEnvironmentLock(p, i) ==
  /\ envLock[i] = NoProc
  /\ envLock' = [envLock EXCEPT ![i] = p]
  /\ UNCHANGED <<globalLock, projectLock>>

AcquireProjectLock(p, j) ==
  /\ projectLock[j] = NoProc
  /\ projectLock' = [projectLock EXCEPT ![j] = p]
  /\ UNCHANGED <<globalLock, envLock>>

(* A lock (or family of locks) with the hold of p dropped, others kept.    *)
Dropped(p, lock) == [k \in DOMAIN lock |-> IF lock[k] = p THEN NoProc ELSE lock[k]]

(* Mutants: the global lock is kept; the environment lock goes as well.    *)
ReleaseSharedLocks_KeepsGlobal(p) ==
  /\ projectLock' = Dropped(p, projectLock)
  /\ UNCHANGED <<globalLock, envLock>>

ReleaseSharedLocks_DropsAll(p) ==
  /\ globalLock' = IF globalLock = p THEN NoProc ELSE globalLock
  /\ envLock' = Dropped(p, envLock)
  /\ projectLock' = Dropped(p, projectLock)

(* A session gives up its project and global locks, in that order, and     *)
(* keeps its environment lock.                                             *)
ReleaseSharedLocks(p) ==
  /\ globalLock' = IF globalLock = p THEN NoProc ELSE globalLock
  /\ projectLock' = Dropped(p, projectLock)
  /\ UNCHANGED envLock

(* Every lock of p: the deferred releases of a returning command, or the   *)
(* kernel's when the process dies.                                         *)
ReleaseAllLocks(p) ==
  /\ globalLock' = IF globalLock = p THEN NoProc ELSE globalLock
  /\ envLock' = Dropped(p, envLock)
  /\ projectLock' = Dropped(p, projectLock)
=============================================================================
