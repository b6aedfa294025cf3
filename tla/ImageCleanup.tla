----------------------------- MODULE ImageCleanup -----------------------------
(***************************************************************************)
(* The images and build contexts of cagent disk cleanup --managed          *)
(* (internal/app/disk.go), beside the commands of Profiles.  Cleanup takes *)
(* no lock.  It resolves the profiles, lists the images and the cached     *)
(* contexts of other hashes, and removes the images and then the contexts, *)
(* these file by file.  The first error ends it.  Its containers and       *)
(* networks come before that and are in DiskCleanup; here they are only a  *)
(* reason why it may end early.                                            *)
(***************************************************************************)
EXTENDS Profiles

VARIABLES
  sweep,          \* its next call
  known,          \* the hashes it resolved
  doomedImages,   \* its candidates
  doomedContexts

sweepVars == <<sweep, known, doomedImages, doomedContexts>>
systemVars == <<vars, sweepVars>>

SweepTypeOK ==
  /\ ProfilesTypeOK
  /\ sweep \in {"idle", "list", "remove"}
  /\ known \subseteq Hashes
  /\ doomedImages \subseteq Hashes
  /\ doomedContexts \subseteq EmbeddedHashes

SweepInit ==
  /\ sweep = "idle"
  /\ known = {}
  /\ doomedImages = {}
  /\ doomedContexts = {}

-----------------------------------------------------------------------------
(* List takes a built-in profile for invalid when the custom profiles have *)
(* a directory of its name, also one without profile.json.                 *)
Valid(r) == Resolvable(r) /\ (r = Builtin => directory[r] = "absent")

(* A profile that is invalid or does not resolve is passed over: its hash  *)
(* is not among the known ones, as if it had been removed.                 *)
ResolveProfiles ==
  /\ sweep = "idle"
  /\ sweep' = "list"
  /\ known' = {Hash(r) : r \in {s \in AllProfiles : Valid(s)}}
  /\ UNCHANGED <<vars, doomedImages, doomedContexts>>

(* Mutant: an image counts as used as long as its profile exists.          *)
UnusedImages_ByProfile == {h \in images : \A k \in known : k[1] # h[1]}

UnusedImages == images \ known

UnusedContexts == {h \in EmbeddedHashes \ known : contexts[h] # {}}

ListCandidates ==
  /\ sweep = "list"
  /\ sweep' = "remove"
  /\ doomedImages' = UnusedImages
  /\ doomedContexts' = UnusedContexts
  /\ known' = {}
  /\ UNCHANGED vars

(* podman image rm without --force refuses an image that is in use.        *)
SweepImage(h) ==
  /\ sweep = "remove"
  /\ h \in doomedImages
  /\ ~InUse(h)
  /\ images' = images \ {h}
  /\ doomedImages' = doomedImages \ {h}
  /\ UNCHANGED <<fileVars, container, procVars, upsets, historyVars,
                 sweep, known, doomedContexts>>

(* RemoveAll, in the order of the directory, which is anyone's guess.      *)
SweepFile(h) ==
  /\ sweep = "remove"
  /\ doomedImages = {}
  /\ h \in doomedContexts
  /\ \E f \in contexts[h] : contexts' = [contexts EXCEPT ![h] = @ \ {f}]
  /\ swept' = swept \cup {h}
  /\ UNCHANGED <<content, directory, desired, unreadable, podmanVars, procVars, upsets,
                 touched, sweepVars>>

Extracting(h) == \E p \in Procs : pc[p] = "extract" /\ task[p].hash = h

(* The directory is gone, and with it what cleanup may have left of it,    *)
(* unless a command was writing into it.                                   *)
SweptContext(h) ==
  /\ sweep = "remove"
  /\ doomedImages = {}
  /\ h \in doomedContexts
  /\ contexts[h] = {}
  /\ doomedContexts' = doomedContexts \ {h}
  /\ swept' = IF Extracting(h) THEN swept ELSE swept \ {h}
  /\ UNCHANGED <<fileVars, podmanVars, procVars, upsets, touched,
                 sweep, known, doomedImages>>

EndSweep ==
  /\ sweep' = "idle"
  /\ known' = {}
  /\ doomedImages' = {}
  /\ doomedContexts' = {}
  /\ UNCHANGED <<fileVars, podmanVars, procVars, historyVars>>

SweepThrough == sweep = "remove" /\ doomedImages = {} /\ doomedContexts = {}

SweepDone == SweepThrough /\ EndSweep /\ UNCHANGED upsets

(* It gives up at the first error, each time again as long as its reason   *)
(* is there: a container or a network that cannot be removed, which come   *)
(* before the images; an image in use, by an environment, by a raw run or  *)
(* by a container of somebody else; a file that cannot be removed.         *)
SweepGivesUp ==
  /\ sweep = "remove"
  /\ doomedImages \cup doomedContexts # {}
  /\ EndSweep
  /\ UNCHANGED upsets

(* A failed read or removal in between, or the death of the process.       *)
SweepFails ==
  /\ sweep # "idle"
  /\ upsets < MaxUpsets
  /\ upsets' = upsets + 1
  /\ EndSweep

Sweep ==
  \/ ResolveProfiles \/ ListCandidates
  \/ \E h \in Hashes : SweepImage(h) \/ SweepFile(h) \/ SweptContext(h)
  \/ SweepDone \/ SweepGivesUp

SystemNext ==
  \/ Next /\ UNCHANGED sweepVars
  \/ Sweep
  \/ SweepFails

SystemInit == Init /\ SweepInit

SystemSpec == SystemInit /\ [][SystemNext]_systemVars

(* Processes are scheduled, disk cleanup is run again and again, and a     *)
(* user who wants the built-in image tries again when the lock is busy.    *)
FairSystemSpec ==
  /\ SystemSpec
  /\ WF_systemVars(Sweep)
  /\ \A p \in Procs : WF_systemVars(Step(p) /\ UNCHANGED sweepVars)
  /\ SF_systemVars(\E p \in Procs : InvokeBuild(p, Builtin) /\ UNCHANGED sweepVars)

-----------------------------------------------------------------------------
(* No command takes a profile away from an environment, also not from one  *)
(* that is being made while profile remove looks at the manifests: only    *)
(* who edits the manifest or the profile by hand can part them.            *)
ReferencedProfilesResolve ==
  \A e \in Environments :
    desired[e] # NoProfile /\ {e, desired[e]} \cap touched = {} => Resolvable(desired[e])

(* A custom profile cannot be removed while an environment references it:  *)
(* profile remove goes on only when no manifest names the profile.         *)
RemovesOnlyUnreferenced ==
  [][\A p \in Procs :
       pc[p] = "scan" /\ pc'[p] = "removeProfile" =>
         \A e \in Environments : desired[e] # task[p].profile]_systemVars

(* The marker stands for all files of a context, wherever its extraction   *)
(* was cut off, by whichever binary, and however often it was begun again. *)
(* Only cleanup can break that: one that was cut off in the middle of the  *)
(* context, or ran while a command extracted it.                           *)
MarkedContextIsWhole ==
  \A h \in EmbeddedHashes \ swept : Complete \in contexts[h] => Files \subseteq contexts[h]

(* The built-in profile can always be built again: whatever interrupted    *)
(* builds left, users who try again get its image, if its name is not      *)
(* taken and cleanup has not left its context in pieces.                   *)
BuiltinBuildable ==
  <>[](Resolvable(Builtin) /\ Hash(Builtin) \notin swept) => []<>(Hash(Builtin) \in images)

(* Images and contexts no profile has any more do not stay: cleanup        *)
(* reclaims them, if it comes through without an error again and again.    *)
SweepsComeThrough == []<>SweepThrough

StaleReclaimed ==
  SweepsComeThrough =>
    /\ \A h \in Hashes : []<>(h \notin images \ CurrentHashes)
    /\ \A h \in EmbeddedHashes : []<>(contexts[h] = {} \/ h \in CurrentHashes)
=============================================================================
