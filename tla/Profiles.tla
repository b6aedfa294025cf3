------------------------------- MODULE Profiles -------------------------------
(***************************************************************************)
(* Profiles, build contexts and images (internal/profile, app/profile.go)  *)
(* under the commands that use them: env init, profile build, the          *)
(* activation of an environment, profile remove and env delete.  All of    *)
(* them hold the global lock from their first step here to their last; the *)
(* profile locks are only taken under it, and are left out.  Users edit    *)
(* manifests and profiles by hand and install binaries at any time.        *)
(*                                                                         *)
(* The profiles are of build mode (pull and existing have no context).     *)
(* Content stands for what Resolve hashes, profile.json and the context,   *)
(* so the profile with its content is the profile hash, and the image of   *)
(* that hash carries it in tag and label.                                  *)
(***************************************************************************)
EXTENDS Naturals

CONSTANTS
  Procs, NoProc,
  Environments, NoEnvironment,
  Builtin,       \* a profile embedded in the binary
  Customs,       \* custom profiles
  LocalProfile,  \* environment -> the profile env init --containerfile writes
  NoProfile, NoHash,
  Contents,      \* profile -> the contents it may have
  Files,         \* the files of the embedded context, all needed to build
  Complete,      \* the marker file of a materialized context
  Handmade,      \* profile -> what users make of its directory
  MaxUpsets      \* bound on failures, deaths and what users change by hand

AllProfiles == Customs \cup {Builtin}
HashesOf(r) == {r} \X Contents[r]
Hashes == UNION {HashesOf(r) : r \in AllProfiles}
EmbeddedHashes == HashesOf(Builtin)
States == {"absent", "bare", "broken", "whole"}

ASSUME ProfilesAssumption ==
  /\ NoProc \notin Procs
  /\ NoEnvironment \notin Environments
  /\ Builtin \notin Customs
  /\ NoProfile \notin AllProfiles
  /\ Environments \cap AllProfiles = {}
  /\ NoHash \notin Hashes
  /\ LocalProfile \in [Environments -> Customs]
  /\ \A r \in AllProfiles : Contents[r] # {}
  /\ Handmade \in [AllProfiles -> SUBSET States]
  /\ Complete \notin Files
  /\ MaxUpsets \in Nat

VARIABLES
  globalLock,
  content,    \* profile -> its content now (built-in: of the installed binary)
  directory,  \* profile -> its directory: absent, bare (without profile.json),
              \* broken (profile.json does not resolve) or whole
  desired,    \* environment -> the profile its manifest names
  unreadable, \* the environments whose manifest does not load
  contexts,   \* hash of an embedded context -> the files in its cache directory
  images,     \* the hashes with an image
  container,  \* environment -> the hash whose image its container uses
  pc, task,   \* process -> its next step and its command
  upsets,
  touched,    \* history: the environments and profiles edited by hand
  swept       \* history: the contexts cleanup took files from, see ImageCleanup

fileVars == <<content, directory, desired, unreadable, contexts>>
podmanVars == <<images, container>>
procVars == <<globalLock, pc, task>>
historyVars == <<touched, swept>>
vars == <<fileVars, podmanVars, procVars, upsets, historyVars>>

Tasks ==
  [cmd     : {"none", "init", "build", "activate", "remove", "delete"},
   env     : Environments \cup {NoEnvironment},
   profile : AllProfiles \cup {NoProfile},
   release : Contents[Builtin],        \* the built-in content of its binary
   hash    : Hashes \cup {NoHash},     \* what it resolved, and builds
   planned : Hashes \cup {NoHash},     \* what its plan resolved, and runs
   left    : SUBSET Files]

FirstContent(r) == CHOOSE c \in Contents[r] : TRUE

Task(cmd, env, profile) ==
  [cmd |-> cmd, env |-> env, profile |-> profile, release |-> FirstContent(Builtin),
   hash |-> NoHash, planned |-> NoHash, left |-> {}]

NoTask == Task("none", NoEnvironment, NoProfile)

(* A command that builds does so with the built-in content of its binary.  *)
Building(cmd, env, profile) ==
  [Task(cmd, env, profile) EXCEPT !.release = content[Builtin]]

Labels ==
  {"idle", "write", "writeProfile", "resolve", "save", "image", "plan", "materialize",
   "extract", "build", "create", "scan", "removeProfile", "deleteContainer", "unlink"}

(* A command at work holds the global lock.                                *)
ProfilesTypeOK ==
  /\ globalLock \in Procs \cup {NoProc}
  /\ \A r \in AllProfiles : content[r] \in Contents[r]
  /\ DOMAIN content = AllProfiles
  /\ directory \in [AllProfiles -> States]
  /\ desired \in [Environments -> AllProfiles \cup {NoProfile}]
  /\ unreadable \subseteq Environments
  /\ contexts \in [EmbeddedHashes -> SUBSET (Files \cup {Complete})]
  /\ images \subseteq Hashes
  /\ container \in [Environments -> Hashes \cup {NoHash}]
  /\ pc \in [Procs -> Labels]
  /\ task \in [Procs -> Tasks]
  /\ \A p \in Procs : pc[p] # "idle" <=> globalLock = p
  /\ upsets \in 0..MaxUpsets
  /\ touched \subseteq Environments \cup AllProfiles
  /\ swept \subseteq EmbeddedHashes

(* Resolve finds a custom profile by its profile.json, and refuses a       *)
(* built-in one whose name a profile.json among the custom ones has.       *)
Resolvable(r) ==
  IF r = Builtin THEN directory[r] \in {"absent", "bare"} ELSE directory[r] = "whole"

Hash(r) == <<r, content[r]>>

(* Other releases of the binary have left their contexts.                  *)
Init ==
  /\ globalLock = NoProc
  /\ content = [r \in AllProfiles |-> FirstContent(r)]
  /\ directory \in {d \in [AllProfiles -> {"absent", "whole"}] : d[Builtin] = "absent"}
  /\ desired = [e \in Environments |-> NoProfile]
  /\ unreadable = {}
  /\ contexts = [h \in EmbeddedHashes |->
                   IF h = Hash(Builtin) THEN {} ELSE Files \cup {Complete}]
  /\ images = {}
  /\ container = [e \in Environments |-> NoHash]
  /\ pc = [p \in Procs |-> "idle"]
  /\ task = [p \in Procs |-> NoTask]
  /\ upsets = 0
  /\ touched = {}
  /\ swept = {}

(* A process sees the built-in profile of the binary it runs.              *)
HashFor(p, r) == IF r = Builtin THEN <<Builtin, task[p].release>> ELSE Hash(r)

(* The hashes of the profiles as they are now.                             *)
CurrentHashes == {Hash(r) : r \in {s \in AllProfiles : Resolvable(s)}}

InUse(h) == \E e \in Environments : container[e] = h

Goto(p, l) == pc' = [pc EXCEPT ![p] = l]

(* The end of a command, good or bad, drops its lock.                      *)
Done(p) ==
  /\ globalLock' = IF globalLock = p THEN NoProc ELSE globalLock
  /\ pc' = [pc EXCEPT ![p] = "idle"]
  /\ task' = [task EXCEPT ![p] = NoTask]

-----------------------------------------------------------------------------
(* Mutant: the command works without the global lock.                      *)
Invoke_Unlocked(p, t, l) ==
  /\ pc[p] = "idle"
  /\ task' = [task EXCEPT ![p] = t]
  /\ Goto(p, l)
  /\ UNCHANGED <<globalLock, fileVars, podmanVars, upsets, historyVars>>

(* A command that meets a busy lock ends without a trace.                  *)
Invoke(p, t, l) ==
  /\ pc[p] = "idle"
  /\ globalLock = NoProc
  /\ globalLock' = p
  /\ task' = [task EXCEPT ![p] = t]
  /\ Goto(p, l)
  /\ UNCHANGED <<fileVars, podmanVars, upsets, historyVars>>

(* env init: with --containerfile it writes a profile of its own first.    *)
InvokeInit(p) ==
  \E e \in Environments :
    /\ desired[e] = NoProfile
    /\ \/ \E r \in AllProfiles : Invoke(p, Task("init", e, r), "resolve")
       \/ Invoke(p, Task("init", e, LocalProfile[e]), "write")

InvokeBuild(p, r) == Invoke(p, Building("build", NoEnvironment, r), "resolve")

(* A manifest that does not load ends an activation, and a delete.         *)
Loads(e) == desired[e] # NoProfile /\ e \notin unreadable

InvokeActivate(p) ==
  \E e \in Environments :
    /\ Loads(e)
    /\ Invoke(p, Building("activate", e, desired[e]), "resolve")

InvokeRemove(p) ==
  \E r \in Customs : Invoke(p, Task("remove", NoEnvironment, r), "resolve")

InvokeDelete(p) ==
  \E e \in Environments :
    /\ Loads(e)
    /\ Invoke(p, Task("delete", e, NoProfile), "deleteContainer")

-----------------------------------------------------------------------------
(* WriteCustom: the directory, then profile.json in it.  env init, its     *)
(* only caller, has no other files for it.                                 *)
MakeDirectory(p) ==
  /\ pc[p] = "write"
  /\ directory[task[p].profile] = "absent"
  /\ directory' = [directory EXCEPT ![task[p].profile] = "bare"]
  /\ Goto(p, "writeProfile")
  /\ UNCHANGED <<content, desired, unreadable, contexts, podmanVars, globalLock, task,
                 upsets, historyVars>>

WriteProfile(p) ==
  /\ pc[p] = "writeProfile"
  /\ directory' = [directory EXCEPT ![task[p].profile] = "whole"]
  /\ touched' = touched \ {task[p].profile}
  /\ Goto(p, "resolve")
  /\ UNCHANGED <<content, desired, unreadable, contexts, podmanVars, globalLock, task,
                 upsets, swept>>

Resolve(p) ==
  /\ pc[p] = "resolve"
  /\ Resolvable(task[p].profile)
  /\ task' = IF task[p].cmd \in {"build", "activate"}
             THEN [task EXCEPT ![p].hash = HashFor(p, task[p].profile)]
             ELSE task
  /\ Goto(p, CASE task[p].cmd = "init"     -> "save"
               [] task[p].cmd = "remove"   -> "scan"
               [] task[p].cmd = "activate" -> "plan"
               [] OTHER                    -> "image")
  /\ UNCHANGED <<fileVars, podmanVars, globalLock, upsets, historyVars>>

SaveManifest(p) ==
  /\ pc[p] = "save"
  /\ desired' = [desired EXCEPT ![task[p].env] = task[p].profile]
  /\ Done(p)
  /\ UNCHANGED <<content, directory, unreadable, contexts, podmanVars, upsets, historyVars>>

(* profile build: an image that is there is used, without --force.         *)
FindImage(p) ==
  /\ pc[p] = "image"
  /\ \/ task[p].hash \in images /\ Done(p)
     \/ Goto(p, "materialize") /\ UNCHANGED <<globalLock, task>>
  /\ UNCHANGED <<fileVars, podmanVars, upsets, historyVars>>

(* The plan of an activation loads the manifest and resolves its profile   *)
(* again.  A container made from another hash is drift and stops it.       *)
CanPlan(p) ==
  LET e == task[p].env
  IN  /\ Loads(e)
      /\ Resolvable(desired[e])
      /\ container[e] \in {NoHash, HashFor(p, desired[e])}

Plan(p) ==
  LET planned == HashFor(p, desired[task[p].env])
  IN  /\ pc[p] = "plan"
      /\ CanPlan(p)
      /\ task' = [task EXCEPT ![p].planned = planned]
      /\ Goto(p, IF planned \in images THEN "create" ELSE "materialize")
      /\ UNCHANGED <<fileVars, podmanVars, globalLock, upsets, historyVars>>

Materialized(h) == Complete \in contexts[h]

(* A custom profile is built from its own directory and an embedded one    *)
(* from its cached context.                                                *)
Materialize(p) ==
  LET missing == task[p].profile = Builtin /\ ~Materialized(task[p].hash)
  IN  /\ pc[p] = "materialize"
      /\ task' = [task EXCEPT ![p].left = IF missing THEN Files ELSE {}]
      /\ Goto(p, IF missing THEN "extract" ELSE "build")
      /\ UNCHANGED <<fileVars, podmanVars, globalLock, upsets, historyVars>>

AddFile(h, f) ==
  /\ contexts' = [contexts EXCEPT ![h] = @ \cup {f}]
  /\ UNCHANGED <<content, directory, desired, unreadable, podmanVars, globalLock, upsets,
                 historyVars>>

(* Mutant: the marker is written before the files.                         *)
Extract_MarkerFirst(p) ==
  /\ pc[p] = "extract"
  /\ LET t == task[p]
     IN  IF Complete \notin contexts[t.hash]
         THEN AddFile(t.hash, Complete) /\ UNCHANGED <<pc, task>>
         ELSE \E f \in t.left :
                /\ AddFile(t.hash, f)
                /\ task' = [task EXCEPT ![p].left = @ \ {f}]
                /\ Goto(p, IF t.left = {f} THEN "build" ELSE "extract")

(* File after file is written, whatever is there, and then the marker.     *)
Extract(p) ==
  /\ pc[p] = "extract"
  /\ LET t == task[p]
     IN  \/ \E f \in t.left :
              /\ AddFile(t.hash, f)
              /\ task' = [task EXCEPT ![p].left = @ \ {f}]
              /\ UNCHANGED pc
         \/ /\ t.left = {}
            /\ AddFile(t.hash, Complete)
            /\ Goto(p, "build")
            /\ UNCHANGED task

CanBuild(t) == t.profile = Builtin => Files \subseteq contexts[t.hash]

(* profile build is done with that, an activation goes on to its container.*)
Build(p) ==
  /\ pc[p] = "build"
  /\ CanBuild(task[p])
  /\ images' = images \cup {task[p].hash}
  /\ IF task[p].cmd = "activate"
     THEN Goto(p, "create") /\ UNCHANGED <<globalLock, task>>
     ELSE Done(p)
  /\ UNCHANGED <<fileVars, container, upsets, historyVars>>

(* The image built may be of another hash than the one planned.            *)
CanCreate(t) == container[t.env] = NoHash => t.planned \in images

(* applyPlan from podman create to the save of the state file.             *)
Create(p) ==
  /\ pc[p] = "create"
  /\ CanCreate(task[p])
  /\ container' = [container EXCEPT ![task[p].env] = task[p].planned]
  /\ Done(p)
  /\ UNCHANGED <<fileVars, images, upsets, historyVars>>

-----------------------------------------------------------------------------
(* Mutant: only environments with a container are asked.                   *)
Referenced_ByContainer(r) ==
  \E e \in Environments : Loads(e) /\ container[e] # NoHash /\ container[e][1] = r

(* A manifest that does not load is passed over.                           *)
Referenced(r) == \E e \in Environments : Loads(e) /\ desired[e] = r

ScanReferences(p) ==
  /\ pc[p] = "scan"
  /\ task[p].profile \in Customs
  /\ ~Referenced(task[p].profile)
  /\ Goto(p, "removeProfile")
  /\ UNCHANGED <<fileVars, podmanVars, globalLock, task, upsets, historyVars>>

(* What the removal of one more entry makes of a directory: its files go   *)
(* in any order, and the directory last.                                   *)
Removed(d) ==
  CASE d = "whole"  -> {"broken", "bare"}
    [] d = "broken" -> {"bare"}
    [] OTHER        -> {"absent"}

RemoveProfile(p) ==
  /\ pc[p] = "removeProfile"
  /\ \E d \in Removed(directory[task[p].profile]) :
       /\ directory' = [directory EXCEPT ![task[p].profile] = d]
       /\ IF d = "absent" THEN Done(p) ELSE UNCHANGED procVars
  /\ UNCHANGED <<content, desired, unreadable, contexts, podmanVars, upsets, historyVars>>

DeleteContainer(p) ==
  /\ pc[p] = "deleteContainer"
  /\ container' = [container EXCEPT ![task[p].env] = NoHash]
  /\ Goto(p, "unlink")
  /\ UNCHANGED <<fileVars, images, globalLock, task, upsets, historyVars>>

Unlink(p) ==
  /\ pc[p] = "unlink"
  /\ desired' = [desired EXCEPT ![task[p].env] = NoProfile]
  /\ unreadable' = unreadable \ {task[p].env}
  /\ touched' = touched \ {task[p].env}
  /\ Done(p)
  /\ UNCHANGED <<content, directory, contexts, podmanVars, upsets, swept>>

-----------------------------------------------------------------------------
(* The errors the code returns of its own, and podman's refusals.          *)
Refused(p) ==
  LET t == task[p]
  IN  CASE pc[p] = "write" -> directory[t.profile] # "absent"
        [] pc[p] = "resolve" -> ~Resolvable(t.profile)
        [] pc[p] = "plan" -> ~CanPlan(p)
        [] pc[p] = "build" -> ~CanBuild(t)
        [] pc[p] = "create" -> ~CanCreate(t)
        [] pc[p] = "scan" -> t.profile = Builtin \/ Referenced(t.profile)
        [] OTHER -> FALSE

Refuse(p) ==
  /\ Refused(p)
  /\ Done(p)
  /\ UNCHANGED <<fileVars, podmanVars, upsets, historyVars>>

(* A file or Podman error, or the death of the process.                    *)
Fail(p) ==
  /\ pc[p] # "idle"
  /\ upsets < MaxUpsets
  /\ upsets' = upsets + 1
  /\ Done(p)
  /\ UNCHANGED <<fileVars, podmanVars, historyVars>>

-----------------------------------------------------------------------------
(* What users do by hand takes no lock: it happens at any time, also while *)
(* a command is at work.                                                   *)
Edit ==
  /\ upsets < MaxUpsets
  /\ upsets' = upsets + 1
  /\ UNCHANGED <<contexts, podmanVars, procVars, swept>>

(* A context or profile.json is changed or changed back; another binary is *)
(* installed, newer or older.                                              *)
EditContent ==
  /\ Edit
  /\ \E r \in AllProfiles : \E c \in Contents[r] :
       content[r] # c /\ content' = [content EXCEPT ![r] = c]
  /\ UNCHANGED <<directory, desired, unreadable, touched>>

(* A profile is damaged, repaired, made or removed, or a directory among   *)
(* the custom profiles gets the name of the built-in one.                  *)
EditDirectory ==
  /\ Edit
  /\ \E r \in AllProfiles : \E d \in Handmade[r] :
       /\ directory[r] # d
       /\ directory' = [directory EXCEPT ![r] = d]
       /\ touched' = touched \cup {r}
  /\ UNCHANGED <<content, desired, unreadable>>

(* A manifest names another profile, or is no longer or again readable.    *)
EditManifest ==
  /\ Edit
  /\ \E e \in Environments :
       /\ desired[e] # NoProfile
       /\ \/ /\ \E r \in AllProfiles : desired[e] # r /\ desired' = [desired EXCEPT ![e] = r]
             /\ UNCHANGED unreadable
          \/ /\ unreadable' = IF e \in unreadable THEN unreadable \ {e} ELSE unreadable \cup {e}
             /\ UNCHANGED desired
       /\ touched' = touched \cup {e}
  /\ UNCHANGED <<content, directory>>

Step(p) ==
  \/ MakeDirectory(p) \/ WriteProfile(p) \/ Resolve(p) \/ SaveManifest(p)
  \/ FindImage(p) \/ Plan(p) \/ Materialize(p) \/ Extract(p) \/ Build(p) \/ Create(p)
  \/ ScanReferences(p) \/ RemoveProfile(p)
  \/ DeleteContainer(p) \/ Unlink(p)
  \/ Refuse(p)

User(p) ==
  \/ InvokeInit(p) \/ InvokeActivate(p) \/ InvokeRemove(p) \/ InvokeDelete(p)
  \/ \E r \in AllProfiles : InvokeBuild(p, r)

Next ==
  \/ \E p \in Procs : User(p) \/ Step(p) \/ Fail(p)
  \/ EditContent \/ EditDirectory \/ EditManifest
=============================================================================
