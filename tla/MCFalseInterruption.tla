------------------------ MODULE MCFalseInterruption ------------------------
(* Small instances of FalseInterruption for TLC.                           *)
EXTENDS FalseInterruption

CONSTANT s1
=============================================================================
