---------------------------- MODULE MCIndexLifecycle ----------------------------
(* Small instances of IndexLifecycle for TLC. *)
EXTENDS IndexLifecycle
=============================================================================
