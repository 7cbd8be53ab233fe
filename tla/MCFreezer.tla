----------------------------- MODULE MCFreezer -----------------------------
(* Small instances of the freezer for TLC. *)
EXTENDS Freezer
=============================================================================
