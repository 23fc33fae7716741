---------------------------- MODULE MCEventQueue ----------------------------
(* Instance of EventQueue for TLC.                                         *)
EXTENDS EventQueue
CONSTANT OK
=============================================================================
