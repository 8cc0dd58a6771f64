----------------------------- MODULE MCLifecycle -----------------------------
(* Small instances of the lifecycle manager for TLC. *)
EXTENDS Lifecycle
=============================================================================
