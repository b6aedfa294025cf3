------------------------------ MODULE MCLifecycle ------------------------------
(***************************************************************************)
(* Small instances of Lifecycle.                                           *)
(***************************************************************************)
EXTENDS LifecycleProperties, TLC

CONSTANTS work, other  \* the projects

MCProjects == {work, other}

Plain ==
  [project |-> work, mode |-> "exclusive", readOnly |-> FALSE,
   ephemeral |-> FALSE, internal |-> FALSE, memory |-> 2]

MCRawSpec ==
  [project |-> NoProject, mode |-> "exclusive", readOnly |-> FALSE,
   ephemeral |-> TRUE, internal |-> FALSE, memory |-> 1]

(* One manifest: what goes wrong is in the order of the commands.          *)
OneManifest == {Plain}

(* A change of project, and a rootfs that does not outlive its session.    *)
MovingManifests ==
  {Plain, [Plain EXCEPT !.project = other]}

EphemeralManifests ==
  {Plain, [Plain EXCEPT !.ephemeral = TRUE, !.internal = TRUE]}

(* Every answer of the concurrency check, and more than the pool holds.    *)
SharedManifests ==
  {[Plain EXCEPT !.memory = 1],
   [Plain EXCEPT !.mode = "allow"],
   [Plain EXCEPT !.mode = "read-only-secondary", !.readOnly = TRUE, !.memory = 1],
   [Plain EXCEPT !.mode = "prompt", !.memory = 1]}

(* Processes, UUIDs and names are only ever compared.                      *)
Symmetry ==
  {f @@ g @@ h : f \in Permutations(Procs), g \in Permutations(Ids),
                 h \in Permutations(Names)}
=============================================================================
