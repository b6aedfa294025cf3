-------------------------- MODULE ImageCleanupProofs --------------------------
(***************************************************************************)
(* The safety invariants of ImageCleanup, for any number of processes,     *)
(* environments, profiles, contents, files, failures and changes by hand.  *)
(*                                                                         *)
(* A command at work holds the global lock, so a step has one process to   *)
(* look at (Work).  Users and cleanup hold nothing: what they may have     *)
(* taken from a command at work is in touched and swept.                   *)
(***************************************************************************)
EXTENDS ImageCleanup, TLAPS

(* What the command of p knows at its next call.                           *)
Work(p) ==
  LET t == task[p]
  IN  /\ pc[p] # "idle" /\ t.cmd \in {"init", "activate", "delete"} => t.env \in Environments
      /\ pc[p] \in {"write", "writeProfile", "removeProfile"} => t.profile \in Customs
      /\ pc[p] \in {"resolve", "save", "image", "plan", "materialize", "extract", "build",
                    "scan"} => t.profile \in AllProfiles
      /\ pc[p] \in {"write", "writeProfile", "save"} => t.cmd = "init"
      /\ pc[p] = "resolve" => t.cmd \in {"init", "build", "activate", "remove"}
      /\ pc[p] \in {"plan", "create"} => t.cmd = "activate"
      /\ pc[p] \in {"deleteContainer", "unlink"} => t.cmd = "delete"
      /\ pc[p] \in {"image", "plan", "materialize", "extract", "build"} =>
           /\ t.hash \in Hashes
           /\ t.profile = Builtin => t.hash \in EmbeddedHashes
      /\ pc[p] = "save" => Resolvable(t.profile) \/ t.profile \in touched
      /\ pc[p] = "extract" =>
           /\ t.profile = Builtin
           /\ t.hash \in swept \/ Files \ t.left \subseteq contexts[t.hash]
      /\ pc[p] = "removeProfile" =>
           \A e \in Environments : desired[e] = t.profile => e \in touched

(* The types of what is not of a process.                                  *)
DataTypes ==
  /\ \A r \in AllProfiles : content[r] \in Contents[r]
  /\ DOMAIN content = AllProfiles
  /\ directory \in [AllProfiles -> States]
  /\ desired \in [Environments -> AllProfiles \cup {NoProfile}]
  /\ unreadable \subseteq Environments
  /\ contexts \in [EmbeddedHashes -> SUBSET (Files \cup {Complete})]
  /\ images \subseteq Hashes
  /\ container \in [Environments -> Hashes \cup {NoHash}]
  /\ upsets \in 0..MaxUpsets
  /\ touched \subseteq Environments \cup AllProfiles
  /\ swept \subseteq EmbeddedHashes

SweepTypes ==
  /\ sweep \in {"idle", "list", "remove"}
  /\ known \subseteq Hashes
  /\ doomedImages \subseteq Hashes
  /\ doomedContexts \subseteq EmbeddedHashes

ProcTypes ==
  /\ globalLock \in Procs \cup {NoProc}
  /\ pc \in [Procs -> Labels]
  /\ task \in [Procs -> Tasks]
  /\ \A p \in Procs : pc[p] # "idle" <=> globalLock = p

IInv ==
  /\ DataTypes
  /\ ProcTypes
  /\ SweepTypes
  /\ ReferencedProfilesResolve
  /\ MarkedContextIsWhole
  /\ unreadable \subseteq touched
  /\ \A p \in Procs : Work(p)

-----------------------------------------------------------------------------
LEMMA HashIsHash ==
  ASSUME NEW r \in AllProfiles, NEW c \in Contents[r]
  PROVE  <<r, c>> \in Hashes /\ (r = Builtin => <<r, c>> \in EmbeddedHashes)
<1>1. <<r, c>> \in HashesOf(r)
  BY DEF HashesOf
<1> QED
  BY <1>1 DEF Hashes, EmbeddedHashes

LEMMA HashForIsHash ==
  ASSUME DataTypes, ProcTypes, NEW p \in Procs, NEW r \in AllProfiles
  PROVE  /\ HashFor(p, r) \in Hashes
         /\ r = Builtin => HashFor(p, r) \in EmbeddedHashes
<1>1. task[p].release \in Contents[Builtin] /\ content[r] \in Contents[r]
  BY DEF DataTypes, ProcTypes, Tasks
<1>2. CASE r = Builtin
  BY <1>1, <1>2, HashIsHash DEF HashFor
<1>3. CASE r # Builtin
  BY <1>1, <1>3, HashIsHash DEF HashFor, Hash
<1> QED
  BY <1>2, <1>3

LEMMA FirstContentIn ==
  ASSUME NEW r \in AllProfiles
  PROVE  FirstContent(r) \in Contents[r]
BY ProfilesAssumption DEF FirstContent

LEMMA TasksAre ==
  ASSUME NEW cmd \in {"none", "init", "build", "activate", "remove", "delete"},
         NEW e \in Environments \cup {NoEnvironment}, NEW r \in AllProfiles \cup {NoProfile}
  PROVE  /\ Task(cmd, e, r) \in Tasks
         /\ Task(cmd, e, r).cmd = cmd /\ Task(cmd, e, r).env = e
         /\ Task(cmd, e, r).profile = r
<1>1. FirstContent(Builtin) \in Contents[Builtin]
  BY FirstContentIn DEF AllProfiles
<1> QED
  BY <1>1 DEF Task, Tasks

LEMMA BuildingsAre ==
  ASSUME DataTypes, NEW cmd \in {"build", "activate"},
         NEW e \in Environments \cup {NoEnvironment}, NEW r \in AllProfiles
  PROVE  /\ Building(cmd, e, r) \in Tasks
         /\ Building(cmd, e, r).cmd = cmd /\ Building(cmd, e, r).env = e
         /\ Building(cmd, e, r).profile = r
<1>1. content[Builtin] \in Contents[Builtin]
  BY DEF DataTypes, AllProfiles
<1> QED
  BY <1>1 DEF Building, Task, Tasks

-----------------------------------------------------------------------------
LEMMA InitIInv == SystemInit => IInv
<1> SUFFICES ASSUME SystemInit PROVE IInv
  OBVIOUS
<1> USE ProfilesAssumption DEF SystemInit, Init, SweepInit
<1>1. DataTypes
  <2>1. \A r \in AllProfiles : FirstContent(r) \in Contents[r]
    BY FirstContentIn
  <2>2. content = [r \in AllProfiles |-> FirstContent(r)]
    OBVIOUS
  <2>3. directory \in [AllProfiles -> States]
    BY DEF States
  <2> QED
    BY <2>1, <2>2, <2>3 DEF DataTypes
<1>2. ProcTypes /\ SweepTypes
  BY TasksAre DEF ProcTypes, SweepTypes, Labels, NoTask
<1>3. ReferencedProfilesResolve /\ MarkedContextIsWhole /\ unreadable \subseteq touched
  BY DEF ReferencedProfilesResolve, MarkedContextIsWhole
<1>4. \A p \in Procs : Work(p)
  BY DEF Work
<1> QED
  BY <1>1, <1>2, <1>3, <1>4 DEF IInv

-----------------------------------------------------------------------------
(* A command at work is alone.                                             *)
LEMMA Alone ==
  ASSUME ProcTypes, NEW p \in Procs, pc[p] # "idle"
  PROVE  globalLock = p /\ \A q \in Procs \ {p} : pc[q] = "idle"
BY DEF ProcTypes

(* A step of a command: it ends, or goes on and has what its next call     *)
(* needs.                                                                  *)
LEMMA CommandStep ==
  ASSUME IInv, NEW p \in Procs, pc[p] # "idle", UNCHANGED sweepVars,
         DataTypes', ReferencedProfilesResolve', MarkedContextIsWhole',
         unreadable' \subseteq touched',
         \/ Done(p)
         \/ /\ \E l \in Labels \ {"idle"} : Goto(p, l)
            /\ UNCHANGED globalLock
            /\ task' \in [Procs -> Tasks]
            /\ Work(p)'
  PROVE  IInv'
<1>1. ProcTypes /\ globalLock = p /\ \A q \in Procs \ {p} : pc[q] = "idle"
  BY Alone DEF IInv
<1>2. ProcTypes' /\ \A q \in Procs : Work(q)'
  <2>1. CASE Done(p)
    <3>1. NoTask \in Tasks
      BY TasksAre DEF NoTask
    <3>2. /\ globalLock' = NoProc /\ \A q \in Procs : pc'[q] = "idle"
          /\ pc' \in [Procs -> Labels] /\ task' \in [Procs -> Tasks]
      BY <1>1, <2>1, <3>1 DEF Done, ProcTypes, Labels
    <3> QED
      BY <3>2, ProfilesAssumption DEF ProcTypes, Work
  <2>2. ASSUME NEW l \in Labels \ {"idle"}, Goto(p, l), UNCHANGED globalLock,
               task' \in [Procs -> Tasks], Work(p)'
        PROVE  ProcTypes' /\ \A q \in Procs : Work(q)'
    <3>1. /\ pc' \in [Procs -> Labels] /\ pc'[p] = l
          /\ \A q \in Procs \ {p} : pc'[q] = "idle"
      BY <1>1, <2>2 DEF Goto, ProcTypes
    <3>2. ProcTypes'
      BY <1>1, <2>2, <3>1 DEF ProcTypes
    <3>3. \A q \in Procs \ {p} : Work(q)'
      BY <3>1 DEF Work
    <3> QED
      BY <2>2, <3>2, <3>3
  <2> QED
    BY <2>1, <2>2
<1>3. SweepTypes'
  BY DEF IInv, SweepTypes, sweepVars
<1> QED
  BY <1>2, <1>3 DEF IInv

(* What holds of the files stays when none of them changes.                *)
LEMMA FilesUnchanged ==
  ASSUME IInv, UNCHANGED <<fileVars, historyVars>>
  PROVE  ReferencedProfilesResolve' /\ MarkedContextIsWhole' /\ unreadable' \subseteq touched'
BY DEF IInv, ReferencedProfilesResolve, MarkedContextIsWhole, Resolvable, fileVars, historyVars

LEMMA ContextsUnchanged ==
  ASSUME IInv, UNCHANGED <<contexts, swept>>
  PROVE  MarkedContextIsWhole'
BY DEF IInv, MarkedContextIsWhole

LEMMA DataUnchanged ==
  ASSUME IInv, UNCHANGED <<fileVars, podmanVars, upsets, historyVars>>
  PROVE  DataTypes'
BY DEF IInv, DataTypes, fileVars, podmanVars, historyVars

(* A process goes to l, with the same task.                                *)
LEMMA GoesTo ==
  ASSUME ProcTypes, NEW p \in Procs, NEW l, Goto(p, l), UNCHANGED task
  PROVE  pc'[p] = l /\ task'[p] = task[p] /\ task' \in [Procs -> Tasks]
BY DEF ProcTypes, Goto

-----------------------------------------------------------------------------
(* A command begins.                                                       *)
LEMMA InvokeStep ==
  ASSUME IInv, NEW p \in Procs, UNCHANGED sweepVars,
         NEW t \in Tasks, NEW l \in {"resolve", "write", "deleteContainer"},
         Invoke(p, t, l),
         t.cmd \in {"init", "activate", "delete"} => t.env \in Environments,
         l = "resolve" =>
           t.profile \in AllProfiles /\ t.cmd \in {"init", "build", "activate", "remove"},
         l = "write" => t.profile \in Customs /\ t.cmd = "init",
         l = "deleteContainer" => t.cmd = "delete"
  PROVE  IInv'
<1>1. /\ ProcTypes /\ \A q \in Procs : pc[q] = "idle"
      /\ pc' = [pc EXCEPT ![p] = l] /\ task' = [task EXCEPT ![p] = t] /\ globalLock' = p
      /\ UNCHANGED <<fileVars, podmanVars, upsets, historyVars>>
  BY ProfilesAssumption DEF IInv, ProcTypes, Invoke, Goto
<1>2. /\ pc'[p] = l /\ task'[p] = t /\ \A q \in Procs \ {p} : pc'[q] = "idle"
      /\ pc' \in [Procs -> Labels] /\ task' \in [Procs -> Tasks]
  BY <1>1 DEF ProcTypes, Labels
<1>3. ProcTypes'
  BY <1>1, <1>2 DEF ProcTypes
<1>4. \A q \in Procs : Work(q)'
  BY <1>2 DEF Work
<1>5. SweepTypes'
  BY DEF IInv, SweepTypes, sweepVars
<1> QED
  BY <1>1, <1>3, <1>4, <1>5, DataUnchanged, FilesUnchanged DEF IInv

LEMMA UserStep ==
  ASSUME IInv, NEW p \in Procs, User(p), UNCHANGED sweepVars
  PROVE  IInv'
<1>0. /\ DataTypes /\ Customs \subseteq AllProfiles
      /\ \A e \in Environments : desired[e] \in AllProfiles \cup {NoProfile}
  BY DEF IInv, DataTypes, AllProfiles
<1>1. CASE InvokeInit(p)
  <2>1. ASSUME NEW e \in Environments, NEW r \in AllProfiles,
               Invoke(p, Task("init", e, r), "resolve")
        PROVE  IInv'
    BY <2>1, TasksAre, InvokeStep
  <2>2. ASSUME NEW e \in Environments, Invoke(p, Task("init", e, LocalProfile[e]), "write")
        PROVE  IInv'
    <3>1. LocalProfile[e] \in Customs /\ LocalProfile[e] \in AllProfiles
      BY <1>0, ProfilesAssumption
    <3> QED
      BY <2>2, <3>1, TasksAre, InvokeStep
  <2> QED
    BY <1>1, <2>1, <2>2 DEF InvokeInit
<1>2. CASE InvokeActivate(p)
  <2>1. PICK e \in Environments :
          Loads(e) /\ Invoke(p, Building("activate", e, desired[e]), "resolve")
    BY <1>2 DEF InvokeActivate
  <2>2. desired[e] \in AllProfiles
    BY <1>0, <2>1 DEF Loads
  <2> QED
    BY <1>0, <2>1, <2>2, BuildingsAre, InvokeStep
<1>3. CASE InvokeRemove(p)
  <2>1. PICK r \in Customs : Invoke(p, Task("remove", NoEnvironment, r), "resolve")
    BY <1>3 DEF InvokeRemove
  <2> QED
    BY <1>0, <2>1, TasksAre, InvokeStep
<1>4. CASE InvokeDelete(p)
  <2>1. PICK e \in Environments : Invoke(p, Task("delete", e, NoProfile), "deleteContainer")
    BY <1>4 DEF InvokeDelete
  <2> QED
    BY <2>1, TasksAre, InvokeStep
<1>5. ASSUME NEW r \in AllProfiles, InvokeBuild(p, r) PROVE IInv'
  <2> DEFINE t == Building("build", NoEnvironment, r)
  <2>1. Invoke(p, t, "resolve")
    BY <1>5 DEF InvokeBuild
  <2>2. t \in Tasks /\ t.cmd = "build" /\ t.profile = r
    BY <1>0, BuildingsAre
  <2> HIDE DEF t
  <2> QED
    BY <2>1, <2>2, InvokeStep
<1> QED
  BY <1>1, <1>2, <1>3, <1>4, <1>5 DEF User

-----------------------------------------------------------------------------
(* env init writes its profile, resolves it and saves the manifest.        *)
LEMMA WriteStep ==
  ASSUME IInv, NEW p \in Procs, MakeDirectory(p) \/ WriteProfile(p), UNCHANGED sweepVars
  PROVE  IInv'
<1> DEFINE r == task[p].profile
<1>1. /\ pc[p] \in {"write", "writeProfile"} /\ Work(p) /\ ProcTypes /\ DataTypes
      /\ r \in Customs /\ r \in AllProfiles /\ r # Builtin
      /\ task[p].cmd = "init" /\ task[p].env \in Environments
      /\ UNCHANGED <<content, desired, unreadable, contexts, podmanVars, globalLock, task,
                     upsets, swept>>
  BY ProfilesAssumption DEF IInv, MakeDirectory, WriteProfile, Work, AllProfiles,
                              historyVars
<1>2. PICK d \in {"bare", "whole"}, l \in {"writeProfile", "resolve"} :
        /\ directory' = [directory EXCEPT ![r] = d]
        /\ d = "bare" => directory[r] = "absent" /\ touched' = touched
        /\ d = "whole" => touched' = touched \ {r}
        /\ Goto(p, l)
  BY <1>1 DEF MakeDirectory, WriteProfile, historyVars
<1>3. /\ directory' \in [AllProfiles -> States] /\ directory'[r] = d
      /\ \A s \in AllProfiles \ {r} : directory'[s] = directory[s]
  BY <1>1, <1>2 DEF DataTypes, States
<1>4. DataTypes'
  BY <1>1, <1>2, <1>3 DEF DataTypes, podmanVars
<1>5. ReferencedProfilesResolve'
  <2> SUFFICES ASSUME NEW e \in Environments, desired[e] # NoProfile,
                      {e, desired[e]} \cap touched' = {}
               PROVE  Resolvable(desired[e])'
    BY <1>1 DEF ReferencedProfilesResolve
  <2>1. desired[e] \in AllProfiles
    BY <1>1 DEF DataTypes
  <2>2. CASE desired[e] = r
    <3>1. d = "bare" => Resolvable(r)
      BY <1>2, <2>2 DEF IInv, ReferencedProfilesResolve
    <3>2. d = "whole"
      BY <1>1, <1>2, <3>1 DEF Resolvable
    <3> QED
      BY <1>1, <1>3, <2>2, <3>2 DEF Resolvable
  <2>3. CASE desired[e] # r
    <3>1. e # r
      BY <1>1, ProfilesAssumption
    <3>2. {e, desired[e]} \cap touched = {}
      BY <1>2, <2>3, <3>1
    <3>3. Resolvable(desired[e])
      BY <3>2 DEF IInv, ReferencedProfilesResolve
    <3> QED
      BY <1>1, <1>3, <2>1, <2>3, <3>3 DEF Resolvable
  <2> QED
    BY <2>2, <2>3
<1>6. MarkedContextIsWhole'
  BY <1>1, ContextsUnchanged
<1>7. unreadable' \subseteq touched'
  <2>1. r \notin unreadable
    BY <1>1, ProfilesAssumption DEF DataTypes
  <2> QED
    BY <1>1, <1>2, <2>1 DEF IInv
<1>8. Work(p)' /\ task' \in [Procs -> Tasks] /\ l \in Labels \ {"idle"}
  <2>1. pc'[p] = l /\ task'[p] = task[p] /\ task' \in [Procs -> Tasks]
    BY <1>1, <1>2, GoesTo
  <2> QED
    BY <1>1, <2>1 DEF Work, Labels
<1> QED
  BY <1>1, <1>2, <1>4, <1>5, <1>6, <1>7, <1>8, CommandStep

LEMMA ResolveStep ==
  ASSUME IInv, NEW p \in Procs, Resolve(p), UNCHANGED sweepVars
  PROVE  IInv'
<1> DEFINE r == task[p].profile
           building == task[p].cmd \in {"build", "activate"}
<1>1. /\ pc[p] = "resolve" /\ Work(p) /\ ProcTypes /\ DataTypes
      /\ r \in AllProfiles /\ Resolvable(r)
      /\ task[p].cmd \in {"init", "build", "activate", "remove"}
      /\ task[p].cmd \in {"init", "activate", "delete"} => task[p].env \in Environments
      /\ UNCHANGED <<fileVars, podmanVars, globalLock, upsets, historyVars>>
  BY DEF IInv, Resolve, Work
<1>2. /\ HashFor(p, r) \in Hashes
      /\ r = Builtin => HashFor(p, r) \in EmbeddedHashes
  BY <1>1, HashForIsHash
<1>3. /\ task' \in [Procs -> Tasks]
      /\ task'[p].profile = r /\ task'[p].cmd = task[p].cmd /\ task'[p].env = task[p].env
      /\ building => task'[p].hash = HashFor(p, r)
  <2>1. CASE building
    <3>1. task' = [task EXCEPT ![p].hash = HashFor(p, r)]
      BY <2>1 DEF Resolve
    <3> HIDE DEF building
    <3> QED
      BY <1>1, <1>2, <3>1 DEF ProcTypes, Tasks
  <2>2. CASE ~building
    <3>1. task' = task
      BY <2>2 DEF Resolve
    <3> QED
      BY <1>1, <2>2, <3>1 DEF ProcTypes
  <2> QED
    BY <2>1, <2>2
<1>4. PICK l \in {"save", "scan", "plan", "image"} :
        /\ Goto(p, l)
        /\ l = "save" => task[p].cmd = "init"
        /\ l = "plan" => task[p].cmd = "activate"
        /\ l = "image" => building
  <2>1. CASE task[p].cmd = "init"
    BY <2>1 DEF Resolve
  <2>2. CASE task[p].cmd = "remove"
    BY <2>2 DEF Resolve
  <2>3. CASE task[p].cmd = "activate"
    BY <2>3 DEF Resolve
  <2>4. CASE task[p].cmd = "build"
    BY <2>4 DEF Resolve
  <2> QED
    BY <1>1, <2>1, <2>2, <2>3, <2>4
<1>5. pc'[p] = l /\ l \in Labels \ {"idle"}
  BY <1>1, <1>4 DEF Goto, ProcTypes, Labels
<1>6. Work(p)'
  <2>1. directory' = directory
    BY <1>1 DEF fileVars
  <2>2. task'[p].profile = task[p].profile /\ (l \in {"plan", "image"} => building)
    BY <1>3, <1>4
  <2>3. Resolvable(task[p].profile)'
    BY <1>1, <2>1, <2>2 DEF Resolvable
  <2>4. CASE l = "save"
    BY <1>1, <1>3, <1>4, <1>5, <2>3, <2>4 DEF Work
  <2>5. CASE l = "scan"
    BY <1>1, <1>3, <1>5, <2>5 DEF Work
  <2>6. CASE l \in {"plan", "image"}
    BY <1>1, <1>2, <1>3, <1>4, <1>5, <2>2, <2>6 DEF Work
  <2> QED
    BY <2>4, <2>5, <2>6
<1> QED
  BY <1>1, <1>3, <1>4, <1>5, <1>6, DataUnchanged, FilesUnchanged, CommandStep

LEMMA SaveManifestStep ==
  ASSUME IInv, NEW p \in Procs, SaveManifest(p), UNCHANGED sweepVars
  PROVE  IInv'
<1> DEFINE t == task[p]
<1>1. /\ pc[p] = "save" /\ Done(p) /\ Work(p) /\ DataTypes
      /\ t.env \in Environments /\ t.profile \in AllProfiles
      /\ Resolvable(t.profile) \/ t.profile \in touched
      /\ desired' = [desired EXCEPT ![t.env] = t.profile]
      /\ UNCHANGED <<content, directory, unreadable, contexts, podmanVars, upsets, historyVars>>
  BY DEF IInv, SaveManifest, Work
<1>2. DataTypes'
  BY <1>1 DEF DataTypes, podmanVars, historyVars
<1>3. ReferencedProfilesResolve'
  BY <1>1 DEF IInv, DataTypes, ReferencedProfilesResolve, Resolvable, historyVars
<1>4. MarkedContextIsWhole' /\ unreadable' \subseteq touched'
  BY <1>1, ContextsUnchanged DEF IInv, historyVars
<1> QED
  BY <1>1, <1>2, <1>3, <1>4, CommandStep

-----------------------------------------------------------------------------
(* Steps of a command that change no file.                                 *)
LEMMA QuietStep ==
  ASSUME IInv, NEW p \in Procs, pc[p] # "idle", UNCHANGED <<fileVars, historyVars, sweepVars>>,
         images' \subseteq Hashes,
         container' \in [Environments -> Hashes \cup {NoHash}],
         upsets' \in 0..MaxUpsets,
         \/ Done(p)
         \/ /\ \E l \in Labels \ {"idle"} : Goto(p, l)
            /\ UNCHANGED globalLock
            /\ task' \in [Procs -> Tasks]
            /\ Work(p)'
  PROVE  IInv'
<1>1. DataTypes'
  BY DEF IInv, DataTypes, fileVars, historyVars
<1> QED
  BY <1>1, FilesUnchanged, CommandStep

LEMMA FindImageStep ==
  ASSUME IInv, NEW p \in Procs, FindImage(p), UNCHANGED sweepVars
  PROVE  IInv'
<1>1. /\ pc[p] = "image" /\ Work(p) /\ ProcTypes /\ DataTypes
      /\ UNCHANGED <<fileVars, podmanVars, upsets, historyVars>>
  BY DEF IInv, FindImage
<1>2. CASE Done(p)
  BY <1>1, <1>2, QuietStep DEF DataTypes, podmanVars
<1>3. CASE Goto(p, "materialize") /\ UNCHANGED <<globalLock, task>>
  <2>1. pc'[p] = "materialize" /\ task'[p] = task[p] /\ task' \in [Procs -> Tasks]
    BY <1>1, <1>3, GoesTo
  <2>2. Work(p)' /\ "materialize" \in Labels \ {"idle"}
    BY <1>1, <2>1 DEF Work, Labels
  <2> QED
    BY <1>1, <1>3, <2>1, <2>2, QuietStep DEF DataTypes, podmanVars
<1> QED
  BY <1>2, <1>3 DEF FindImage

LEMMA PlanStep ==
  ASSUME IInv, NEW p \in Procs, Plan(p), UNCHANGED sweepVars
  PROVE  IInv'
<1> DEFINE e == task[p].env
<1>1. /\ pc[p] = "plan" /\ Work(p) /\ ProcTypes /\ DataTypes
      /\ e \in Environments /\ desired[e] \in AllProfiles
      /\ UNCHANGED <<fileVars, podmanVars, globalLock, upsets, historyVars>>
  BY DEF IInv, Plan, CanPlan, Loads, Work, DataTypes
<1>2. PICK h \in Hashes, l \in {"create", "materialize"} :
        task' = [task EXCEPT ![p].planned = h] /\ Goto(p, l)
  BY <1>1, HashForIsHash DEF Plan
<1>3. /\ task' \in [Procs -> Tasks]
      /\ task'[p].cmd = task[p].cmd /\ task'[p].env = e
      /\ task'[p].profile = task[p].profile /\ task'[p].hash = task[p].hash
  BY <1>1, <1>2 DEF ProcTypes, Tasks
<1>4. Work(p)' /\ l \in Labels \ {"idle"}
  <2>1. pc'[p] = l
    BY <1>1, <1>2 DEF Goto, ProcTypes
  <2> QED
    BY <1>1, <1>3, <2>1 DEF Work, Labels
<1> QED
  BY <1>1, <1>2, <1>3, <1>4, QuietStep DEF DataTypes, podmanVars

LEMMA MaterializeStep ==
  ASSUME IInv, NEW p \in Procs, Materialize(p), UNCHANGED sweepVars
  PROVE  IInv'
<1>1. /\ pc[p] = "materialize" /\ Work(p) /\ ProcTypes /\ DataTypes
      /\ UNCHANGED <<fileVars, podmanVars, globalLock, upsets, historyVars>>
  BY DEF IInv, Materialize
<1>2. PICK left \in SUBSET Files, l \in {"extract", "build"} :
        /\ task' = [task EXCEPT ![p].left = left]
        /\ Goto(p, l)
        /\ l = "extract" => task[p].profile = Builtin /\ left = Files
  BY DEF Materialize
<1>3. /\ task' \in [Procs -> Tasks]
      /\ task'[p].cmd = task[p].cmd /\ task'[p].env = task[p].env
      /\ task'[p].profile = task[p].profile /\ task'[p].hash = task[p].hash
      /\ task'[p].left = left
  BY <1>1, <1>2 DEF ProcTypes, Tasks
<1>4. Work(p)' /\ l \in Labels \ {"idle"}
  <2>1. pc'[p] = l
    BY <1>1, <1>2 DEF Goto, ProcTypes
  <2> QED
    BY <1>1, <1>2, <1>3, <2>1 DEF Work, Labels
<1> QED
  BY <1>1, <1>2, <1>3, <1>4, QuietStep DEF DataTypes, podmanVars

LEMMA BuildStep ==
  ASSUME IInv, NEW p \in Procs, Build(p), UNCHANGED sweepVars
  PROVE  IInv'
<1>1. /\ pc[p] = "build" /\ Work(p) /\ ProcTypes /\ DataTypes
      /\ images' \subseteq Hashes
      /\ UNCHANGED <<fileVars, container, upsets, historyVars>>
  BY DEF IInv, Build, Work, DataTypes
<1>2. CASE Done(p)
  BY <1>1, <1>2, QuietStep DEF DataTypes
<1>3. CASE task[p].cmd = "activate" /\ Goto(p, "create") /\ UNCHANGED <<globalLock, task>>
  <2>1. pc'[p] = "create" /\ task'[p] = task[p] /\ task' \in [Procs -> Tasks]
    BY <1>1, <1>3, GoesTo
  <2>2. Work(p)' /\ "create" \in Labels \ {"idle"}
    BY <1>1, <1>3, <2>1 DEF Work, Labels
  <2> QED
    BY <1>1, <1>3, <2>1, <2>2, QuietStep DEF DataTypes
<1> QED
  BY <1>2, <1>3 DEF Build

LEMMA CreateStep ==
  ASSUME IInv, NEW p \in Procs, Create(p), UNCHANGED sweepVars
  PROVE  IInv'
<1>1. /\ pc[p] = "create" /\ Done(p) /\ Work(p) /\ DataTypes /\ ProcTypes
      /\ task[p].env \in Environments
      /\ container' = [container EXCEPT ![task[p].env] = task[p].planned]
      /\ UNCHANGED <<fileVars, images, upsets, historyVars>>
  BY DEF IInv, Create, Work
<1>2. task[p].planned \in Hashes \cup {NoHash}
  BY <1>1 DEF ProcTypes, Tasks
<1>3. container' \in [Environments -> Hashes \cup {NoHash}]
  BY <1>1, <1>2 DEF DataTypes
<1> QED
  BY <1>1, <1>3, QuietStep DEF DataTypes

LEMMA ScanReferencesStep ==
  ASSUME IInv, NEW p \in Procs, ScanReferences(p), UNCHANGED sweepVars
  PROVE  IInv'
<1>1. /\ pc[p] = "scan" /\ Work(p) /\ ProcTypes /\ DataTypes
      /\ task[p].profile \in Customs /\ ~Referenced(task[p].profile)
      /\ Goto(p, "removeProfile") /\ "removeProfile" \in Labels \ {"idle"}
      /\ UNCHANGED <<fileVars, podmanVars, globalLock, task, upsets, historyVars>>
  BY DEF IInv, ScanReferences, Labels
<1>2. pc'[p] = "removeProfile" /\ task'[p] = task[p] /\ task' \in [Procs -> Tasks]
  BY <1>1, GoesTo
(* Who names the profile has a manifest that does not load.                *)
<1>3. \A e \in Environments : desired[e] = task[p].profile => e \in touched
  <2> SUFFICES ASSUME NEW e \in Environments, desired[e] = task[p].profile
               PROVE  e \in touched
    OBVIOUS
  <2>1. desired[e] # NoProfile
    BY <1>1, ProfilesAssumption DEF AllProfiles
  <2>2. e \in unreadable
    BY <1>1, <2>1 DEF Referenced, Loads
  <2> QED
    BY <2>2 DEF IInv
<1>4. Work(p)'
  BY <1>1, <1>2, <1>3 DEF Work, fileVars, historyVars
<1> QED
  BY <1>1, <1>2, <1>4, QuietStep DEF DataTypes, podmanVars

LEMMA DeleteContainerStep ==
  ASSUME IInv, NEW p \in Procs, DeleteContainer(p), UNCHANGED sweepVars
  PROVE  IInv'
<1>1. /\ pc[p] = "deleteContainer" /\ Work(p) /\ DataTypes /\ ProcTypes
      /\ task[p].cmd = "delete" /\ task[p].env \in Environments
      /\ container' = [container EXCEPT ![task[p].env] = NoHash]
      /\ Goto(p, "unlink") /\ "unlink" \in Labels \ {"idle"}
      /\ UNCHANGED <<fileVars, images, globalLock, task, upsets, historyVars>>
  BY DEF IInv, DeleteContainer, Work, Labels
<1>2. container' \in [Environments -> Hashes \cup {NoHash}]
  BY <1>1 DEF DataTypes
<1>3. pc'[p] = "unlink" /\ task'[p] = task[p] /\ task' \in [Procs -> Tasks]
  BY <1>1, GoesTo
<1>4. Work(p)'
  BY <1>1, <1>3 DEF Work
<1> QED
  BY <1>1, <1>2, <1>3, <1>4, QuietStep DEF DataTypes

LEMMA EarlyEndStep ==
  ASSUME IInv, NEW p \in Procs, pc[p] # "idle", Refuse(p) \/ Fail(p), UNCHANGED sweepVars
  PROVE  IInv'
<1>1. /\ Done(p) /\ DataTypes /\ UNCHANGED <<fileVars, podmanVars, historyVars>>
      /\ upsets' \in 0..MaxUpsets
  BY ProfilesAssumption DEF IInv, DataTypes, Refuse, Fail
<1> QED
  BY <1>1, QuietStep DEF DataTypes, podmanVars

(* profile remove takes a profile only from environments edited by hand.   *)
LEMMA RemoveProfileStep ==
  ASSUME IInv, NEW p \in Procs, RemoveProfile(p), UNCHANGED sweepVars
  PROVE  IInv'
<1> DEFINE r == task[p].profile
<1>1. /\ pc[p] = "removeProfile" /\ Work(p) /\ ProcTypes /\ DataTypes
      /\ r \in Customs /\ r \in AllProfiles
      /\ \A e \in Environments : desired[e] = r => e \in touched
      /\ UNCHANGED <<content, desired, unreadable, contexts, podmanVars, upsets, historyVars>>
  BY DEF IInv, RemoveProfile, Work, AllProfiles
<1>2. PICK d \in States :
        /\ directory' = [directory EXCEPT ![r] = d]
        /\ IF d = "absent" THEN Done(p) ELSE UNCHANGED procVars
  BY DEF RemoveProfile, Removed, States
<1>3. /\ directory' \in [AllProfiles -> States]
      /\ \A s \in AllProfiles \ {r} : directory'[s] = directory[s]
  BY <1>1, <1>2 DEF DataTypes
<1>4. DataTypes'
  BY <1>1, <1>3 DEF DataTypes, podmanVars, historyVars
<1>5. ReferencedProfilesResolve'
  <2> SUFFICES ASSUME NEW e \in Environments, desired[e] # NoProfile,
                      {e, desired[e]} \cap touched = {}
               PROVE  Resolvable(desired[e])'
    BY <1>1 DEF ReferencedProfilesResolve, historyVars
  <2>1. desired[e] \in AllProfiles \ {r} /\ Resolvable(desired[e])
    BY <1>1 DEF IInv, DataTypes, ReferencedProfilesResolve
  <2> QED
    BY <1>1, <1>3, <2>1 DEF Resolvable
<1>6. MarkedContextIsWhole' /\ unreadable' \subseteq touched'
  BY <1>1, ContextsUnchanged DEF IInv, historyVars
<1>7. CASE d = "absent"
  BY <1>1, <1>2, <1>4, <1>5, <1>6, <1>7, CommandStep
<1>8. CASE d # "absent"
  <2>1. UNCHANGED <<globalLock, pc, task>> /\ "removeProfile" \in Labels \ {"idle"}
    BY <1>2, <1>8 DEF procVars, Labels
  <2>2. Goto(p, "removeProfile") /\ task' \in [Procs -> Tasks]
    BY <1>1, <2>1 DEF Goto, ProcTypes
  <2>3. Work(p)'
    BY <1>1, <2>1 DEF Work, historyVars
  <2> QED
    BY <1>1, <1>4, <1>5, <1>6, <2>1, <2>2, <2>3, CommandStep
<1> QED
  BY <1>7, <1>8

LEMMA UnlinkStep ==
  ASSUME IInv, NEW p \in Procs, Unlink(p), UNCHANGED sweepVars
  PROVE  IInv'
<1> DEFINE e == task[p].env
<1>1. /\ pc[p] = "unlink" /\ Done(p) /\ Work(p) /\ DataTypes /\ e \in Environments
      /\ desired' = [desired EXCEPT ![e] = NoProfile]
      /\ unreadable' = unreadable \ {e} /\ touched' = touched \ {e}
      /\ UNCHANGED <<content, directory, contexts, podmanVars, upsets, swept>>
  BY DEF IInv, Unlink, Work
<1>2. DataTypes'
  BY <1>1 DEF DataTypes, podmanVars
<1>3. ReferencedProfilesResolve'
  <2> SUFFICES ASSUME NEW f \in Environments, desired'[f] # NoProfile,
                      {f, desired'[f]} \cap touched' = {}
               PROVE  Resolvable(desired[f])'
    BY DEF ReferencedProfilesResolve
  <2>1. f # e /\ desired'[f] = desired[f]
    BY <1>1 DEF DataTypes
  <2>2. desired[f] \in AllProfiles /\ desired[f] # e
    BY <1>1, <2>1, ProfilesAssumption DEF DataTypes
  <2>3. Resolvable(desired[f])
    BY <1>1, <2>1, <2>2 DEF IInv, ReferencedProfilesResolve
  <2> QED
    BY <1>1, <2>1, <2>3 DEF Resolvable
<1>4. MarkedContextIsWhole' /\ unreadable' \subseteq touched'
  BY <1>1, ContextsUnchanged DEF IInv
<1> QED
  BY <1>1, <1>2, <1>3, <1>4, CommandStep

(* The marker is written when every file is, or cleanup took one since.    *)
LEMMA ExtractStep ==
  ASSUME IInv, NEW p \in Procs, Extract(p), UNCHANGED sweepVars
  PROVE  IInv'
<1> DEFINE t == task[p]
           h == task[p].hash
<1>1. /\ pc[p] = "extract" /\ Work(p) /\ ProcTypes /\ DataTypes
      /\ t.profile = Builtin /\ t.profile \in AllProfiles
      /\ h \in Hashes /\ h \in EmbeddedHashes /\ t.left \subseteq Files
      /\ h \in swept \/ Files \ t.left \subseteq contexts[h]
      /\ t.cmd \in {"init", "activate", "delete"} => t.env \in Environments
  BY DEF IInv, Extract, Work, ProcTypes, Tasks
<1>2. PICK f \in Files \cup {Complete}, l \in {"extract", "build"} :
        /\ contexts' = [contexts EXCEPT ![h] = @ \cup {f}]
        /\ Goto(p, l)
        /\ \/ f \in t.left /\ task' = [task EXCEPT ![p].left = @ \ {f}]
           \/ f = Complete /\ t.left = {} /\ UNCHANGED task
  <2>1. UNCHANGED pc => Goto(p, "extract")
    BY <1>1 DEF Goto, ProcTypes
  <2> QED
    BY <1>1, <2>1 DEF Extract, AddFile
<1>3. UNCHANGED <<content, directory, desired, unreadable, podmanVars, globalLock, upsets,
                  historyVars>>
  BY DEF Extract, AddFile
<1>4. /\ contexts' \in [EmbeddedHashes -> SUBSET (Files \cup {Complete})]
      /\ contexts'[h] = contexts[h] \cup {f}
      /\ \A k \in EmbeddedHashes \ {h} : contexts'[k] = contexts[k]
  BY <1>1, <1>2 DEF DataTypes
<1>5. DataTypes'
  BY <1>1, <1>3, <1>4 DEF DataTypes, podmanVars, historyVars
<1>6. ReferencedProfilesResolve' /\ unreadable' \subseteq touched'
  BY <1>3 DEF IInv, ReferencedProfilesResolve, Resolvable, historyVars
<1>7. MarkedContextIsWhole'
  <2> SUFFICES ASSUME NEW k \in EmbeddedHashes \ swept, Complete \in contexts'[k]
               PROVE  Files \subseteq contexts'[k]
    BY <1>3 DEF MarkedContextIsWhole, historyVars
  <2>1. Complete \in contexts[k] => Files \subseteq contexts[k]
    BY DEF IInv, MarkedContextIsWhole
  <2>2. CASE k # h
    BY <1>4, <2>1, <2>2
  <2>3. CASE k = h /\ f \in t.left
    <3>1. f # Complete
      BY <1>1, <2>3, ProfilesAssumption
    <3> QED
      BY <1>4, <2>1, <2>3, <3>1
  <2>4. CASE k = h /\ t.left = {}
    BY <1>1, <1>4, <2>4
  <2> QED
    BY <1>2, <2>2, <2>3, <2>4
<1>8. /\ task' \in [Procs -> Tasks]
      /\ task'[p].cmd = t.cmd /\ task'[p].env = t.env
      /\ task'[p].profile = t.profile /\ task'[p].hash = h
      /\ task'[p].left = t.left \ {f}
  <2>1. CASE task' = [task EXCEPT ![p].left = @ \ {f}]
    BY <1>1, <2>1 DEF ProcTypes, Tasks
  <2>2. CASE t.left = {} /\ UNCHANGED task
    BY <1>1, <2>2 DEF ProcTypes
  <2> QED
    BY <1>2, <2>1, <2>2
<1>9. Work(p)' /\ l \in Labels \ {"idle"}
  <2>1. pc'[p] = l
    BY <1>1, <1>2 DEF Goto, ProcTypes
  <2>2. task'[p].hash \in swept' \/ Files \ task'[p].left \subseteq contexts'[task'[p].hash]
    BY <1>1, <1>3, <1>4, <1>8 DEF historyVars
  <2> QED
    BY <1>1, <1>8, <2>1, <2>2 DEF Work, Labels
<1> QED
  BY <1>1, <1>2, <1>3, <1>5, <1>6, <1>7, <1>8, <1>9, CommandStep

LEMMA StepStep ==
  ASSUME IInv, NEW p \in Procs, Step(p) \/ Fail(p), UNCHANGED sweepVars
  PROVE  IInv'
<1>1. Refuse(p) \/ Fail(p) => pc[p] # "idle"
  BY DEF Refuse, Refused, Fail
<1> QED
  BY <1>1, WriteStep, ResolveStep, SaveManifestStep, FindImageStep, PlanStep, MaterializeStep,
     ExtractStep, BuildStep, CreateStep, ScanReferencesStep, RemoveProfileStep,
     DeleteContainerStep, UnlinkStep, EarlyEndStep DEF Step

-----------------------------------------------------------------------------
(* Users change what they like, and touched says what it was.              *)
LEMMA HandStep ==
  ASSUME IInv, UNCHANGED <<contexts, podmanVars, procVars, swept, sweepVars>>, DataTypes',
         touched \subseteq touched', unreadable' \subseteq touched',
         \A r \in AllProfiles : directory'[r] = directory[r] \/ r \in touched',
         \A e \in Environments : desired'[e] = desired[e] \/ e \in touched'
  PROVE  IInv'
<1>1. DataTypes /\ UNCHANGED <<globalLock, pc, task>>
  BY DEF IInv, procVars
<1>2. ProcTypes' /\ SweepTypes' /\ MarkedContextIsWhole'
  BY <1>1, ContextsUnchanged DEF IInv, ProcTypes, SweepTypes, sweepVars
<1>3. ReferencedProfilesResolve'
  <2> SUFFICES ASSUME NEW e \in Environments, desired'[e] # NoProfile,
                      {e, desired'[e]} \cap touched' = {}
               PROVE  Resolvable(desired[e])'
    BY DEF ReferencedProfilesResolve
  <2>1. desired'[e] = desired[e] /\ desired[e] \in AllProfiles
    BY <1>1 DEF DataTypes
  <2>2. directory'[desired[e]] = directory[desired[e]] /\ Resolvable(desired[e])
    BY <2>1 DEF IInv, ReferencedProfilesResolve
  <2> QED
    BY <2>1, <2>2 DEF Resolvable
<1>4. \A p \in Procs : Work(p)'
  <2> SUFFICES ASSUME NEW p \in Procs PROVE Work(p)'
    OBVIOUS
  <2>1. Work(p)
    BY DEF IInv
  <2>2. pc[p] = "save" =>
          (Resolvable(task[p].profile) \/ task[p].profile \in touched)'
    <3> SUFFICES ASSUME pc[p] = "save", task[p].profile \notin touched'
                 PROVE  Resolvable(task[p].profile)'
      BY <1>1
    <3>1. /\ task[p].profile \in AllProfiles /\ Resolvable(task[p].profile)
          /\ directory'[task[p].profile] = directory[task[p].profile]
      BY <2>1 DEF Work
    <3> QED
      BY <1>1, <3>1 DEF Resolvable
  <2> QED
    BY <1>1, <2>1, <2>2 DEF Work
<1> QED
  BY <1>2, <1>3, <1>4 DEF IInv

LEMMA EditStep ==
  ASSUME IInv, EditContent \/ EditDirectory \/ EditManifest, UNCHANGED sweepVars
  PROVE  IInv'
<1>1. /\ DataTypes /\ unreadable \subseteq touched /\ upsets' \in 0..MaxUpsets
      /\ UNCHANGED <<contexts, podmanVars, procVars, swept>>
  BY ProfilesAssumption DEF IInv, DataTypes, EditContent, EditDirectory, EditManifest, Edit
<1>2. CASE EditContent
  <2>1. UNCHANGED <<directory, desired, unreadable, touched>>
    BY <1>2 DEF EditContent
  <2>2. PICK r \in AllProfiles : \E c \in Contents[r] : content' = [content EXCEPT ![r] = c]
    BY <1>2 DEF EditContent
  <2>3. DOMAIN content' = AllProfiles /\ \A s \in AllProfiles : content'[s] \in Contents[s]
    BY <1>1, <2>2 DEF DataTypes
  <2>4. DataTypes'
    BY <1>1, <2>1, <2>3 DEF DataTypes, podmanVars
  <2> QED
    BY <1>1, <2>1, <2>4, HandStep
<1>3. CASE EditDirectory
  <2>1. PICK r \in AllProfiles, d \in States :
          directory' = [directory EXCEPT ![r] = d] /\ touched' = touched \cup {r}
    BY <1>3, ProfilesAssumption DEF EditDirectory
  <2>2. UNCHANGED <<content, desired, unreadable>>
    BY <1>3 DEF EditDirectory
  <2>3. directory' \in [AllProfiles -> States]
    BY <1>1, <2>1, <2>2 DEF DataTypes
  <2>4. DataTypes'
    BY <1>1, <2>1, <2>2, <2>3 DEF DataTypes, podmanVars
  <2>5. \A s \in AllProfiles : directory'[s] = directory[s] \/ s \in touched'
    BY <1>1, <2>1 DEF DataTypes
  <2> QED
    BY <1>1, <2>1, <2>2, <2>4, <2>5, HandStep
<1>4. CASE EditManifest
  <2>1. PICK e \in Environments :
          /\ touched' = touched \cup {e}
          /\ unreadable' \subseteq unreadable \cup {e}
          /\ \E r \in AllProfiles \cup {NoProfile} : desired' = [desired EXCEPT ![e] = r]
    <3>1. PICK e \in Environments :
            /\ touched' = touched \cup {e}
            /\ \/ /\ \E r \in AllProfiles : desired' = [desired EXCEPT ![e] = r]
                  /\ unreadable' = unreadable
               \/ /\ unreadable' \subseteq unreadable \cup {e}
                  /\ desired' = desired
      BY <1>4 DEF EditManifest
    <3>2. desired = [desired EXCEPT ![e] = desired[e]] /\ desired[e] \in AllProfiles \cup {NoProfile}
      BY <1>1 DEF DataTypes
    <3> QED
      BY <3>1, <3>2
  <2>2. /\ desired' \in [Environments -> AllProfiles \cup {NoProfile}]
        /\ \A f \in Environments : desired'[f] = desired[f] \/ f \in touched'
    BY <1>1, <2>1 DEF DataTypes
  <2>3. UNCHANGED <<content, directory>>
    BY <1>4 DEF EditManifest
  <2>4. DataTypes'
    BY <1>1, <2>1, <2>2, <2>3 DEF DataTypes, podmanVars
  <2> QED
    BY <1>1, <2>1, <2>2, <2>3, <2>4, HandStep
<1> QED
  BY <1>2, <1>3, <1>4

-----------------------------------------------------------------------------
(* Steps of cleanup that change no context.                                *)
LEMMA LookStep ==
  ASSUME IInv, UNCHANGED <<fileVars, container, procVars, historyVars>>,
         images' \subseteq Hashes, upsets' \in 0..MaxUpsets, SweepTypes'
  PROVE  IInv'
<1>1. DataTypes' /\ ProcTypes'
  BY DEF IInv, DataTypes, ProcTypes, fileVars, procVars, historyVars
<1>2. \A p \in Procs : Work(p)'
  BY DEF IInv, Work, Resolvable, fileVars, procVars, historyVars
<1> QED
  BY <1>1, <1>2, FilesUnchanged DEF IInv

(* Steps of cleanup on a context: what it takes from is in swept, until    *)
(* the context is empty and nobody extracts it.                            *)
LEMMA ContextStep ==
  ASSUME IInv, NEW h \in Hashes, SweepFile(h) \/ SweptContext(h)
  PROVE  IInv'
<1>1. /\ DataTypes /\ h \in EmbeddedHashes
      /\ UNCHANGED <<globalLock, pc, task, content, directory, desired, unreadable, podmanVars,
                     upsets, touched>>
  BY DEF IInv, SweepTypes, SweepFile, SweptContext, fileVars, procVars
<1>2. SweepTypes'
  BY DEF IInv, SweepTypes, SweepFile, SweptContext, sweepVars
<1>3. /\ contexts' \in [EmbeddedHashes -> SUBSET (Files \cup {Complete})]
      /\ swept' \subseteq EmbeddedHashes
      /\ \A k \in EmbeddedHashes \ {h} :
           contexts'[k] = contexts[k] /\ (k \in swept <=> k \in swept')
      /\ \/ h \in swept'
         \/ contexts'[h] = contexts[h] /\ contexts[h] = {} /\ ~Extracting(h)
         \/ contexts'[h] = contexts[h] /\ h \notin swept /\ h \notin swept'
  <2>1. CASE SweepFile(h)
    BY <1>1, <2>1 DEF SweepFile, DataTypes
  <2>2. CASE SweptContext(h)
    BY <1>1, <2>2 DEF SweptContext, DataTypes, fileVars
  <2> QED
    BY <2>1, <2>2
<1>4. DataTypes' /\ ProcTypes'
  BY <1>1, <1>3 DEF IInv, DataTypes, ProcTypes, podmanVars
<1>5. ReferencedProfilesResolve' /\ unreadable' \subseteq touched'
  BY <1>1 DEF IInv, ReferencedProfilesResolve, Resolvable
<1>6. MarkedContextIsWhole'
  BY <1>3 DEF IInv, MarkedContextIsWhole
<1>7. ASSUME NEW p \in Procs PROVE Work(p)'
  <2>1. Work(p)
    BY DEF IInv
  <2>2. pc[p] = "extract" =>
          \/ task[p].hash \in swept'
          \/ Files \ task[p].left \subseteq contexts'[task[p].hash]
    <3> SUFFICES ASSUME pc[p] = "extract" 
                 PROVE  \/ task[p].hash \in swept'
                        \/ Files \ task[p].left \subseteq contexts'[task[p].hash]
      OBVIOUS
    <3>1. /\ task[p].hash \in EmbeddedHashes
          /\ task[p].hash \in swept \/ Files \ task[p].left \subseteq contexts[task[p].hash]
      BY <2>1 DEF Work
    <3>2. Extracting(task[p].hash)
      BY DEF Extracting
    <3> QED
      BY <1>3, <3>1, <3>2
  <2> QED
    BY <1>1, <2>1, <2>2 DEF Work, Resolvable
<1> QED
  BY <1>2, <1>4, <1>5, <1>6, <1>7 DEF IInv

LEMMA SweepStep ==
  ASSUME IInv, Sweep \/ SweepFails
  PROVE  IInv'
<1>1. /\ DataTypes /\ SweepTypes /\ ProcTypes
      /\ images \subseteq Hashes /\ upsets \in 0..MaxUpsets
  BY DEF IInv, DataTypes
<1>2. CASE ResolveProfiles
  <2>1. \A r \in AllProfiles : Hash(r) \in Hashes
    BY <1>1, HashIsHash DEF DataTypes, Hash
  <2>2. SweepTypes' /\ UNCHANGED vars
    BY <1>1, <1>2, <2>1 DEF ResolveProfiles, SweepTypes
  <2> QED
    BY <1>1, <2>2, LookStep DEF vars, podmanVars
<1>3. CASE ListCandidates
  <2>1. SweepTypes' /\ UNCHANGED vars
    BY <1>1, <1>3 DEF ListCandidates, SweepTypes, UnusedImages, UnusedContexts
  <2> QED
    BY <1>1, <2>1, LookStep DEF vars, podmanVars
<1>4. ASSUME NEW h \in Hashes, SweepImage(h) PROVE IInv'
  <2>1. SweepTypes' /\ images' \subseteq Hashes
    BY <1>1, <1>4 DEF SweepImage, SweepTypes
  <2> QED
    BY <1>1, <1>4, <2>1, LookStep DEF SweepImage
<1>5. CASE SweepDone \/ SweepGivesUp \/ SweepFails
  <2>1. EndSweep /\ upsets' \in 0..MaxUpsets
    BY <1>1, <1>5, ProfilesAssumption DEF SweepDone, SweepGivesUp, SweepFails
  <2>2. SweepTypes' /\ UNCHANGED <<fileVars, podmanVars, procVars, historyVars>>
    BY <2>1 DEF EndSweep, SweepTypes
  <2> QED
    BY <1>1, <2>1, <2>2, LookStep DEF podmanVars
<1> QED
  BY <1>2, <1>3, <1>4, <1>5, ContextStep DEF Sweep

LEMMA NextKeepsIInv ==
  ASSUME IInv, [SystemNext]_systemVars
  PROVE  IInv'
<1>1. CASE Next /\ UNCHANGED sweepVars
  BY <1>1, UserStep, StepStep, EditStep DEF Next
<1>2. CASE Sweep \/ SweepFails
  BY <1>2, SweepStep
<1>3. CASE UNCHANGED systemVars
  BY <1>3, LookStep DEF IInv, DataTypes, SweepTypes, systemVars, vars, podmanVars, sweepVars
<1> QED
  BY <1>1, <1>2, <1>3 DEF SystemNext

-----------------------------------------------------------------------------
THEOREM Invariant == SystemSpec => []IInv
<1>1. SystemInit => IInv
  BY InitIInv
<1>2. IInv /\ [SystemNext]_systemVars => IInv'
  BY NextKeepsIInv
<1> QED
  BY <1>1, <1>2, PTL DEF SystemSpec

(* Types, and a command at work holds the global lock.                     *)
THEOREM SweepTypeCorrect == SystemSpec => []SweepTypeOK
<1>1. IInv => SweepTypeOK
  BY DEF IInv, SweepTypeOK, ProfilesTypeOK, DataTypes, ProcTypes, SweepTypes
<1> QED
  BY <1>1, Invariant, PTL

(* Only changes by hand can part an environment from its profile: not      *)
(* profile remove, which passes over manifests that do not load, nor env   *)
(* init and env delete, whatever happens at the same time and wherever one *)
(* of them is cut off.                                                     *)
THEOREM ReferencesResolve == SystemSpec => []ReferencedProfilesResolve
<1>1. IInv => ReferencedProfilesResolve
  BY DEF IInv
<1> QED
  BY <1>1, Invariant, PTL

(* The marker of a context is true, wherever extractions of whichever      *)
(* release were cut off, unless cleanup took from that context and was cut *)
(* off itself, or ran while the context was extracted.                     *)
THEOREM MarkerTrusted == SystemSpec => []MarkedContextIsWhole
<1>1. IInv => MarkedContextIsWhole
  BY DEF IInv
<1> QED
  BY <1>1, Invariant, PTL
=============================================================================
