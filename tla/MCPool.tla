------------------------------- MODULE MCPool -------------------------------
(* Instance of Pool alone for TLC.                                         *)
EXTENDS Pool
=============================================================================
