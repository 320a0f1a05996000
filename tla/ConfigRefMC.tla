---------------------------- MODULE ConfigRefMC ----------------------------
(* Instances of ConfigRef for TLC: the .cfg files make the threads model   *)
(* values.  Threads are not interchangeable under liveness properties, so  *)
(* there is no symmetry set.                                               *)
EXTENDS ConfigRef
=============================================================================
