------------------------------ MODULE StateStore ------------------------------
(***************************************************************************)
(* The files cagent keeps: the desired manifests (internal/envstore), the  *)
(* name index and the per-UUID state files (internal/state), and the       *)
(* per-UUID data directories.  Every write is an atomic rename             *)
(* (fsutil.AtomicWrite), so a file is seen whole, old or new; nothing ties *)
(* two files together but the order in which they are written.             *)
(*                                                                         *)
(* A manifest is the record of the fields the lifecycle branches on.  The  *)
(* specification hash of the code covers the whole effective manifest, so  *)
(* here it is the manifest itself: two hashes agree when the manifests do. *)
(***************************************************************************)
EXTENDS Naturals

CONSTANTS
  Names,      \* environment names
  Ids,        \* environment UUIDs
  Projects,   \* canonical host project paths (their SHA-256 is collision free)
  Manifests,  \* the manifests users write
  RawSpec,    \* what `cagent run` gives Podman in place of a manifest
  NoName, NoId, NoProject, NoSpec

ProjectModes == {"exclusive", "allow", "read-only-secondary", "prompt"}

ManifestType ==
  [project   : Projects \cup {NoProject},
   mode      : ProjectModes,
   readOnly  : BOOLEAN,   \* project mounted read-only
   ephemeral : BOOLEAN,   \* rootfs persistence "ephemeral"
   internal  : BOOLEAN,   \* network mode "internal"
   memory    : Nat]       \* memory budget of its resource class

ASSUME StoreAssumption ==
  /\ NoName \notin Names
  /\ NoId \notin Ids
  /\ NoProject \notin Projects
  /\ NoSpec \notin Manifests \cup {RawSpec}
  /\ RawSpec \notin Manifests
  /\ Manifests \subseteq ManifestType
  /\ RawSpec \in ManifestType
  /\ RawSpec.project = NoProject

VARIABLES
  manifests,  \* name -> the manifest file, NoSpec when there is none
  index,      \* name -> the UUID index.json gives it, NoId when none
  records,    \* UUID -> its state.json, NoRecord when there is none
  homes       \* the UUIDs whose home directory exists

storeVars == <<manifests, index, records, homes>>

(* EnvironmentState: whether a container and a network name are recorded   *)
(* (both names are functions of the name and the UUID) and the SpecHash.   *)
Record ==
  [id        : Ids \cup {NoId},
   name      : Names \cup {NoName},
   container : BOOLEAN,
   network   : BOOLEAN,
   spec      : Manifests \cup {NoSpec}]

NewRecord(i, n) ==
  [id |-> i, name |-> n, container |-> FALSE, network |-> FALSE, spec |-> NoSpec]

NoRecord == NewRecord(NoId, NoName)

Index == [Names -> Ids \cup {NoId}]

StoreTypeOK ==
  /\ manifests \in [Names -> Manifests \cup {NoSpec}]
  /\ index \in Index
  /\ records \in [Ids -> Record]
  /\ homes \subseteq Ids

(* A first run: nothing is registered, but users may already have written  *)
(* manifests by hand.                                                      *)
StoreInit ==
  /\ manifests \in [Names -> Manifests \cup {NoSpec}]
  /\ index = [n \in Names |-> NoId]
  /\ records = [i \in Ids |-> NoRecord]
  /\ homes = {}

-----------------------------------------------------------------------------
Registered(n) == index[n] # NoId

(* GetByName: NoRecord stands for its "not registered" answer.  An index   *)
(* entry without a loadable state file, which it refuses, does not occur   *)
(* (RegistryIntegrity).                                                    *)
GetByName(n) == IF Registered(n) THEN records[index[n]] ELSE NoRecord

(* LoadByID refuses a state file that is missing or of another UUID.       *)
Loadable(i) == records[i].id = i

SaveState(record) == records' = [records EXCEPT ![record.id] = record]
=============================================================================
