---------------------------- MODULE MCImageCleanup ----------------------------
(***************************************************************************)
(* Small instances of ImageCleanup: each environment has a local profile.  *)
(***************************************************************************)
EXTENDS ImageCleanup

CONSTANT custom

MCLocalProfile == [e \in Environments |-> custom]

(* Two releases of the built-in profile, one content of a custom one.      *)
TwoReleases == [r \in AllProfiles |-> IF r = Builtin THEN {1, 2} ELSE {1}]

(* A directory with the name of the built-in profile, a damaged profile.   *)
Misplaced == [r \in AllProfiles |-> IF r = Builtin THEN {"bare"} ELSE {"broken"}]
=============================================================================
