---------------------------- MODULE MCWatchpoint ----------------------------
(* Small instances of the watchpoint path for TLC. *)
EXTENDS Watchpoint, TLC

=============================================================================
