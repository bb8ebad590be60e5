--------------------------- MODULE MCLockManager ---------------------------
(* LockManager for TLC: two clients and one resource, by MCLockManager.cfg. *)
EXTENDS LockManager, TLC
=============================================================================
