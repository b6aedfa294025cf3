------------------------------ MODULE DiskCleanup ------------------------------
(***************************************************************************)
(* cagent disk cleanup --managed (internal/app/disk.go) beside the         *)
(* lifecycle commands.  It takes no lock: it reads the index, lists the    *)
(* stopped containers and the networks whose UUID the index did not have,  *)
(* and removes them one after the other, looking at each again just before *)
(* its removal.  Any error ends it.  One cleanup runs at a time here.      *)
(*                                                                         *)
(* Container candidates are remembered by their Podman ID: one that is     *)
(* removed and made again under its UUID is a candidate no longer.         *)
(***************************************************************************)
EXTENDS LifecycleProperties

VARIABLES
  sweep,            \* the next call of the cleanup
  indexed,          \* the UUIDs of the index it read
  doomedContainers, \* its container candidates, by UUID
  doomedNetworks    \* its network candidates, by UUID

sweepVars == <<sweep, indexed, doomedContainers, doomedNetworks>>
systemVars == <<vars, sweepVars>>

SweepTypeOK ==
  /\ sweep \in {"idle", "containers", "networks", "remove"}
  /\ indexed \subseteq Ids
  /\ doomedContainers \subseteq Ids
  /\ doomedNetworks \subseteq Ids

SweepInit ==
  /\ sweep = "idle"
  /\ indexed = {}
  /\ doomedContainers = {}
  /\ doomedNetworks = {}

IndexedIds == {index[n] : n \in Names} \ {NoId}

-----------------------------------------------------------------------------
LoadIndex ==
  /\ sweep = "idle"
  /\ sweep' = "containers"
  /\ indexed' = IndexedIds
  /\ UNCHANGED <<vars, doomedContainers, doomedNetworks>>

(* Mutant: orphans are told by their state file, which delete leaves.      *)
Reclaimable_NoRecord(i) ==
  records[i].id = NoId /\ containers[i].status = "stopped" /\ ~IsRawRun(i)

(* Mutant: orphans are told by the state file, which names a container     *)
(* only when it has been started.                                          *)
Reclaimable_Unnamed(i) ==
  ~records[i].container /\ containers[i].status = "stopped" /\ ~IsRawRun(i)

(* Raw runs have no environment label and are passed over.                 *)
Reclaimable(i) == i \notin indexed /\ containers[i].status = "stopped" /\ ~IsRawRun(i)

ListContainers ==
  /\ sweep = "containers"
  /\ sweep' = "networks"
  /\ doomedContainers' = {i \in Ids : Reclaimable(i)}
  /\ UNCHANGED <<vars, indexed, doomedNetworks>>

(* Mutant: orphans are told by their state file, which delete leaves.      *)
OrphanNetworks_NoRecord == {i \in networks : records[i].id = NoId}

(* The managed networks of no environment in the index that was read.      *)
OrphanNetworks == networks \ indexed

ListNetworks ==
  /\ sweep = "networks"
  /\ sweep' = "remove"
  /\ doomedNetworks' = OrphanNetworks
  /\ UNCHANGED <<vars, indexed, doomedContainers>>

(* A candidate that is gone or runs by now is passed over.                 *)
SweepContainer(i) ==
  /\ sweep = "remove"
  /\ i \in doomedContainers
  /\ doomedContainers' = doomedContainers \ {i}
  /\ IF CanRemoveContainer(i) THEN RemoveContainer(i) ELSE UNCHANGED containers
  /\ UNCHANGED <<lockVars, storeVars, networks, pc, localVars, startedBy, boundVars,
                 sweep, indexed, doomedNetworks>>

(* The networks come after the containers.                                 *)
SweepNetwork(i) ==
  /\ sweep = "remove"
  /\ doomedContainers = {}
  /\ i \in doomedNetworks \cap networks
  /\ CanRemoveNetwork(i)
  /\ doomedNetworks' = doomedNetworks \ {i}
  /\ networks' = networks \ {i}
  /\ UNCHANGED <<lockVars, storeVars, containers, pc, localVars, startedBy, boundVars,
                 sweep, indexed, doomedContainers>>

EndSweep ==
  /\ sweep' = "idle"
  /\ indexed' = {}
  /\ doomedContainers' = {}
  /\ doomedNetworks' = {}
  /\ UNCHANGED <<lockVars, storeVars, podmanVars, pc, localVars, startedBy, edits>>

(* It is done, or gives up at a network that is gone or in use.            *)
SweepEnds ==
  /\ sweep = "remove"
  /\ doomedContainers = {}
  /\ \/ doomedNetworks = {}
     \/ \E i \in doomedNetworks : i \notin networks \/ ~CanRemoveNetwork(i)
  /\ EndSweep
  /\ UNCHANGED faults

(* A Podman or file error, or the death of the process.                    *)
SweepFails ==
  /\ sweep # "idle"
  /\ faults < MaxFaults
  /\ faults' = faults + 1
  /\ EndSweep

Sweep ==
  \/ LoadIndex \/ ListContainers \/ ListNetworks
  \/ \E i \in Ids : SweepContainer(i) \/ SweepNetwork(i)
  \/ SweepEnds

SystemInit == Init /\ SweepInit

Beside ==
  /\ doomedContainers' = {i \in doomedContainers : Exists(i)'}
  /\ UNCHANGED <<sweep, indexed, doomedNetworks>>

SystemNext == (Next /\ Beside) \/ Sweep \/ SweepFails

SystemSpec == SystemInit /\ [][SystemNext]_systemVars

(* Users run disk cleanup again and again, and commands run to their ends. *)
FairSystemSpec ==
  SystemSpec /\ WF_systemVars(Sweep)
             /\ \A p \in Procs : WF_systemVars(Step(p) /\ Beside)

-----------------------------------------------------------------------------
(* disk cleanup removes orphans only: a container or network it removes is *)
(* of no environment registered at that moment.                            *)
CleanupSparesRegistered ==
  [][\A i \in Ids :
       sweep = "remove" /\ pc' = pc /\ i \in doomedContainers \cup doomedNetworks =>
         /\ Exists(i) /\ ~Exists(i)' => i \notin IndexedIds
         /\ i \in networks /\ i \notin networks' => i \notin IndexedIds]_systemVars

(* What it does promise: an environment that was registered when the index *)
(* was read loses neither container nor network to it, however old the     *)
(* index is by then and whatever the commands have done meanwhile.         *)
CleanupSparesIndexed ==
  [][\A i \in indexed :
       sweep = "remove" /\ pc' = pc =>
         /\ Exists(i) => Exists(i)'
         /\ i \in networks => i \in networks']_systemVars

(* A container that belongs to no registered environment, such as one that *)
(* a delete working from a stale read leaves behind, does not stay stopped *)
(* and unregistered for good: cleanup reclaims it.                         *)
Orphan(i) == containers[i].status = "stopped" /\ ~IsRawRun(i) /\ i \notin IndexedIds

OrphansReclaimed == \A i \in Ids : []<>~Orphan(i)

(* Nor does a network stay without a registered environment for good, such *)
(* as the one a delete working from a stale read leaves: cleanup reclaims  *)
(* it, unless each sweep in the end gives up at a network that is in use   *)
(* or already gone.                                                        *)
SweepsComeThrough ==
  <>[](\A i \in doomedNetworks :
         i \in networks /\ (Exists(i) => i \in doomedContainers))

OrphanNetworksReclaimed ==
  SweepsComeThrough => \A i \in Ids : []<>(i \notin networks \ IndexedIds)
=============================================================================
