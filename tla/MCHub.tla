------------------------------- MODULE MCHub -------------------------------
(* Small instances of the hub for TLC. *)
EXTENDS Hub, TLC

=============================================================================
