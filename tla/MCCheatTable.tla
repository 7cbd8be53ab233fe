---------------------------- MODULE MCCheatTable ----------------------------
EXTENDS CheatTable
=============================================================================
