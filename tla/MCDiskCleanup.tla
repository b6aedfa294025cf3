----------------------------- MODULE MCDiskCleanup -----------------------------
(***************************************************************************)
(* Small instances of DiskCleanup, with the manifests of MCLifecycle.      *)
(***************************************************************************)
EXTENDS DiskCleanup, MCLifecycle
=============================================================================
