-------------------------------- MODULE Podman --------------------------------
(***************************************************************************)
(* Rootless Podman as internal/podman drives it: the containers and        *)
(* internal networks that carry V2 labels.  A container is keyed by the    *)
(* UUID in its labels and name, for the name of an environment's container *)
(* is a function of the environment name and UUID; the container of a raw  *)
(* run is keyed by its session UUID and carries no environment label.      *)
(***************************************************************************)
EXTENDS Naturals, FiniteSets, StateStore, Functions

(* A UUID has 128 bits.  Sums over containers need it.                     *)
ASSUME FiniteIdsAssumption == IsFiniteSet(Ids)

VARIABLES
  containers,  \* UUID -> its container
  networks     \* the UUIDs whose internal network exists

podmanVars == <<containers, networks>>

(* spec stands for the profile, spec and project hash labels.              *)
Container ==
  [status : {"absent", "stopped", "running"},
   spec   : Manifests \cup {RawSpec, NoSpec}]

NoContainer == [status |-> "absent", spec |-> NoSpec]

PodmanTypeOK ==
  /\ containers \in [Ids -> Container]
  /\ networks \subseteq Ids

PodmanInit ==
  /\ containers = [i \in Ids |-> NoContainer]
  /\ networks = {}

-----------------------------------------------------------------------------
Exists(i) == containers[i].status # "absent"
Running(i) == containers[i].status = "running"
IsRawRun(i) == containers[i].spec = RawSpec
RunningIds == {i \in Ids : Running(i)}

(* RunningManagedMemory over the containers of a set of UUIDs.             *)
MemoryOf(ids) ==
  SumFunctionOnSet([i \in ids |-> containers[i].spec.memory], ids)

-----------------------------------------------------------------------------
(* podman container create: the name must be free, and the network of an   *)
(* internal-mode container must exist.                                     *)
CanCreate(i, spec) == ~Exists(i) /\ (spec.internal => i \in networks)

CreateContainer(i, spec) ==
  containers' = [containers EXCEPT ![i] = [status |-> "stopped", spec |-> spec]]

(* podman container start: a no-op on a running container.                 *)
StartContainer(i) == containers' = [containers EXCEPT ![i].status = "running"]

(* podman container stop: a no-op on a stopped container; a --rm container *)
(* is gone once stopped.                                                   *)
StopContainer(i) ==
  containers' = [containers EXCEPT ![i] =
    IF IsRawRun(i) THEN NoContainer ELSE [@ EXCEPT !.status = "stopped"]]

(* podman container rm, without --force: refuses a running container.      *)
CanRemoveContainer(i) == containers[i].status = "stopped"

RemoveContainer(i) == containers' = [containers EXCEPT ![i] = NoContainer]

(* podman network rm: refuses a network that a container is attached to.   *)
CanRemoveNetwork(i) == ~(Exists(i) /\ containers[i].spec.internal)
=============================================================================
